------------------------ MODULE ShardingConstruction ------------------------
(***************************************************************************)
(* The error NewShardingBirdsNest (src/shardingbirdsnest/                  *)
(* sharding_birdnest.go:44-80) returns on a restart, as a function of what *)
(* is persisted: the sharding snapshot and each shard's snapshot are       *)
(* absent, hold the caller's configuration, or hold a different one.       *)
(* Both Deserialize functions still load the state on a configuration      *)
(* change and report ErrCannotModifyTheNestConfiguration; I/O errors are   *)
(* not modelled.  The inputs are all the persisted situations; the state   *)
(* does not change.                                                        *)
(***************************************************************************)
EXTENDS Naturals

CONSTANT NumShards   \* config.Length

Shards == 0 .. NumShards - 1
Persisted == {"none", "same", "changed"}

VARIABLES
    sp,     \* the sharding snapshot
    bp,     \* bp[i]: the snapshot of shard i (NewBirdsNestByNumber(..., i + 1))
    err     \* what NewShardingBirdsNest returns

vars == <<sp, bp, err>>

(* ShardingBirdsNest.Deserialize (serialize.go:50-68): no record, no     *)
(* error; otherwise the error when proto.Equal(persisted, current).       *)
ShardingDeserialize(p) == IF p = "same" THEN "config" ELSE "nil"

(* BirdsNestImpl.Deserialize (birdsnest/serialize.go:85-110) through      *)
(* NewBirdsNestByNumber: the error when !proto.Equal(persisted, current). *)
NewBirdsNestByNumber(p) == IF p = "changed" THEN "config" ELSE "nil"

(* err after the sharding Deserialize and after each shard of the loop,   *)
(* every iteration assigning err (lines 61-77).                           *)
NewShardingBirdsNest(s, b) ==
    LET errAfter[i \in 0 .. NumShards] ==
            IF i = 0 THEN ShardingDeserialize(s) ELSE NewBirdsNestByNumber(b[i - 1])
    IN  errAfter[NumShards]

Init ==
    /\ sp \in Persisted
    /\ bp \in [Shards -> Persisted]
    /\ err = NewShardingBirdsNest(sp, bp)

Next == UNCHANGED vars

Spec == Init /\ [][Next]_vars

(* A restart reports ErrCannotModifyTheNestConfiguration exactly when the  *)
(* sharding snapshot or some shard's snapshot holds a configuration other *)
(* than the caller's (spec.md 4.5 and 8, config immutability).            *)
ConfigChangeReported ==
    err = "config" <=> (sp = "changed" \/ \E i \in Shards : bp[i] = "changed")
=============================================================================
