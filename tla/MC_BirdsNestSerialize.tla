------------------------ MODULE MC_BirdsNestSerialize ------------------------
(* Two filters of one key, three blocks.  The third block starts with the *)
(* legacy id n1, whose Store fails, so Adds stops before k4 and the block  *)
(* gets no SetHeight.  No key is in two blocks: transaction ids are unique *)
(* on a chain.                                                             *)
EXTENDS BirdsNestSerialize, TLC

CONSTANTS k1, k2, k3, k4, n1

MCKeys == {k1, k2, k3, k4, n1}
MCKeyBytes == (k1 :> <<0, 1>>) @@ (k2 :> <<1, 0>>) @@ (k3 :> <<1, 1>>) @@ (k4 :> <<2, 1>>) @@ (n1 :> <<3, 2>>)
MCHasSeparator == (k1 :> TRUE) @@ (k2 :> TRUE) @@ (k3 :> TRUE) @@ (k4 :> TRUE) @@ (n1 :> FALSE)
MCBlocks == << <<k1, k2>>, <<k3>>, <<n1, k4>> >>
=============================================================================
