--------------------- MODULE BirdsNestSerializeHistory ---------------------
(***************************************************************************)
(* BirdsNestSerialize with a history variable: the states the chain has    *)
(* been in since the running Serialize began.  It changes nothing the      *)
(* program does; it lets a property say whether the record a Serialize     *)
(* writes is a state of the chain at some point in time.                   *)
(***************************************************************************)
EXTENDS BirdsNestSerialize

VARIABLE
    ringsSeen  \* the pairs (filters, currentIndex) the chain took since Serialize began

hVars == <<allVars, ringsSeen>>

(* The part of the chain a record holds besides its height. *)
Ring == [filters |-> filters, currentIndex |-> currentIndex]

HInit == SInit /\ ringsSeen = {}

(* A Serialize starts with the chain as it is; while it encodes and       *)
(* writes, every state the writer puts the chain in is remembered; the     *)
(* history is dropped when the monitor goes back to its receive or on to   *)
(* the store, and on a restart.                                            *)
HNext ==
    /\ SNext
    /\ ringsSeen' =
         IF mpc' \in {"encode", "write"}
            THEN (IF mpc = "idle" THEN {} ELSE ringsSeen) \cup {Ring'}
            ELSE {}

HSpec == HInit /\ [][HNext]_hVars

(* A record is the chain's state at a point in time (spec.md, Glossary:   *)
(* Snapshot): the filters and currentIndex it pairs were the chain's at    *)
(* one moment.  Serialize reads currentIndex (serialize.go:70) after       *)
(* analysisCuckooFilters has encoded the filters one by one (line 63)      *)
(* with no lock against the writer; if the writer rotated in between, the  *)
(* restored chain writes to the wrong slot, and the next rotation of the   *)
(* replay resets a filter that holds keys still in the window.             *)
RecordIsChainState ==
    [][mpc = "write" /\ wal' # wal =>
         [filters |-> wal'.filters, currentIndex |-> wal'.currentIndex] \in ringsSeen]_hVars
=============================================================================
