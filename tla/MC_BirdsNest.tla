---------------------------- MODULE MC_BirdsNest ----------------------------
(* Three filters of two keys, bytes of four values.  k1 and k2 have        *)
(* different big- and little-endian readings, k3 reads the same both ways, *)
(* n1 is a legacy id without separator whose prefix reads negative.        *)
EXTENDS BirdsNest, TLC

CONSTANTS k1, k2, k3, n1

MCKeys == {k1, k2, k3, n1}
MCKeyBytes == (k1 :> <<0, 1>>) @@ (k2 :> <<1, 0>>) @@ (k3 :> <<1, 1>>) @@ (n1 :> <<3, 2>>)
MCHasSeparator == (k1 :> TRUE) @@ (k2 :> TRUE) @@ (k3 :> TRUE) @@ (n1 :> FALSE)
=============================================================================
