--------------------------- MODULE SlidingWindow ---------------------------
(***************************************************************************)
(* What the bird's nest promises (spec.md 3 and 4.2): the keys it has     *)
(* accepted, grouped in generations, oldest first.  The last generation   *)
(* is the one being written; when it is closed a fresh generation is      *)
(* opened and the oldest one is forgotten as a whole, so the window       *)
(* always holds the Length + 1 most recent generations.                   *)
(***************************************************************************)
EXTENDS Naturals

CONSTANTS
    Length,     \* number of closed generations kept besides the open one
    Keys        \* the keys callers may add

VARIABLE window \* window[1] oldest, window[Length + 1] the open generation

Gens == 1 .. Length + 1

TypeOK == window \in [Gens -> SUBSET Keys]

Init == window = [g \in Gens |-> {}]

(* The key joins the open generation. *)
Insert(k) == window' = [window EXCEPT ![Length + 1] = @ \cup {k}]

(* A non-empty open generation is closed, the oldest one is dropped and  *)
(* the key opens the new generation.                                     *)
RotateInsert(k) ==
    /\ window[Length + 1] # {}
    /\ window' = [g \in Gens |-> IF g = Length + 1 THEN {k} ELSE window[g + 1]]

Next == \E k \in Keys : Insert(k) \/ RotateInsert(k)

Spec == Init /\ [][Next]_window

(* A key is in the window when some kept generation holds it. *)
Member(k) == \E g \in Gens : k \in window[g]
=============================================================================
