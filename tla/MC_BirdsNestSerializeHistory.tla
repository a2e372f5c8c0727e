-------------------- MODULE MC_BirdsNestSerializeHistory --------------------
(* The instance of MC_BirdsNestSerialize.tla with the history variable:    *)
(* two filters of one key, three blocks, the third with the legacy id n1.  *)
EXTENDS BirdsNestSerializeHistory, TLC

CONSTANTS k1, k2, k3, k4, n1

MCKeys == {k1, k2, k3, k4, n1}
MCKeyBytes == (k1 :> <<0, 1>>) @@ (k2 :> <<1, 0>>) @@ (k3 :> <<1, 1>>) @@ (k4 :> <<2, 1>>) @@ (n1 :> <<3, 2>>)
MCHasSeparator == (k1 :> TRUE) @@ (k2 :> TRUE) @@ (k3 :> TRUE) @@ (k4 :> TRUE) @@ (n1 :> FALSE)
MCBlocks == << <<k1, k2>>, <<k3>>, <<n1, k4>> >>
=============================================================================
