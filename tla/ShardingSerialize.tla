------------------------- MODULE ShardingSerialize -------------------------
(***************************************************************************)
(* Persistence of the sharding layer across a restart.  The sharded nest   *)
(* and each of its shards have their own snapshot log and their own       *)
(* serialization monitor; SetHeight (sharding_birdnest.go:86-92) hands the *)
(* height to the sharding monitor over the unbuffered serializeC and then  *)
(* to every shard in turn, each shard handing it to its own monitor.  The  *)
(* sharding snapshot records only the height; a shard's records its        *)
(* filters and the height of its last store.  After a restart the node     *)
(* resumes above the height of the sharding snapshot.  A shard's chain is *)
(* abstracted to the set of keys it holds (the ring's eviction is the      *)
(* subject of BirdsNest, the encoding race that of BirdsNestSerialize);   *)
(* Adds of a block is one step (its concurrency is ShardingBirdsNest's).   *)
(***************************************************************************)
EXTENDS Integers, Sequences

CONSTANTS
    NumShards,      \* config.Length
    Keys,           \* the keys
    LastByte,       \* LastByte[k]: the last byte of key k
    Blocks,         \* Blocks[b]: the keys of block b, in order
    Interval,       \* config.Snapshot.BlockHeight.Interval of the sharded nest
    ShardInterval,  \* config.Birdsnest.Snapshot.BlockHeight.Interval of a shard
    HeightWord      \* 2^64: heights and preHeights are uint64

Shards == 0 .. NumShards - 1
NumBlocks == Len(Blocks)
Hts == 0 .. NumBlocks

VARIABLES
    height,    \* s.height
    preHeight, \* s.preHeight
    swal,      \* the height in the sharding snapshot log (0: no record)
    keys,      \* keys[i]: the keys in shard i's chain
    sh,        \* sh[i]: shard i's height
    spre,      \* spre[i]: shard i's preHeight
    smon,      \* smon[i]: shard i's monitor, "idle" or "ser"
    senc,      \* senc[i]: the filters shard i's Serialize encodes
    walH,      \* walH[i]: the height in shard i's snapshot log
    walK,      \* walK[i]: the keys in shard i's snapshot log
    wpc,       \* the node: "adds", "set", "send", "nest" or "nsend"
    wblock,    \* the block the node is at
    wi         \* the shard SetHeight is at

vars == <<height, preHeight, swal, keys, sh, spre, smon, senc, walH, walK, wpc, wblock, wi>>

-----------------------------------------------------------------------------
(* height - preHeight in uint64 (serialize.go:85, birdsnest serialize.go: *)
(* 38): a preHeight above the height wraps around to a large difference.  *)
Uint64Sub(a, b) == (a - b) % HeightWord

(* DoShardingOnce: ChecksumKeyModulo (sharding_algorithm.go:13-15, 40-42). *)
DoShardingOnce(k) == LastByte[k] % NumShards

(* The keys of block b that go to shard i. *)
BlockKeys(b, i) == {Blocks[b][j] : j \in {j \in DOMAIN Blocks[b] : DoShardingOnce(Blocks[b][j]) = i}}

Init ==
    /\ height = 0 /\ preHeight = 0 /\ swal = 0
    /\ keys = [i \in Shards |-> {}]
    /\ sh = [i \in Shards |-> 0] /\ spre = [i \in Shards |-> 0]
    /\ smon = [i \in Shards |-> "idle"] /\ senc = [i \in Shards |-> {}]
    /\ walH = [i \in Shards |-> 0] /\ walK = [i \in Shards |-> {}]
    /\ wpc = "adds" /\ wblock = 1 /\ wi = 0

(* Adds of block wblock (sharding_birdnest.go:103-136) puts every key    *)
(* into the shard DoShardingOnce names; AddsAndSetHeight goes on to      *)
(* SetHeight.                                                             *)
Adds ==
    /\ wpc = "adds" /\ wblock <= NumBlocks
    /\ keys' = [i \in Shards |-> keys[i] \cup BlockKeys(wblock, i)]
    /\ wpc' = "set"
    /\ UNCHANGED <<height, preHeight, swal, sh, spre, smon, senc, walH, walK, wblock, wi>>

(* s.height = height (sharding_birdnest.go:87), then serializeHeight     *)
(* (serialize.go:120-125) blocks on serializeC.                           *)
SetHeight ==
    /\ wpc = "set"
    /\ height' = wblock /\ wpc' = "send"
    /\ UNCHANGED <<preHeight, swal, keys, sh, spre, smon, senc, walH, walK, wblock, wi>>

(* ShardingBirdsNest.Serialize (serialize.go:26-48): the record carries  *)
(* s.height; preHeight advances to it, unless the write fails.           *)
Serialize ==
    \/ swal' = height /\ preHeight' = height
    \/ UNCHANGED <<preHeight, swal>>

(* The sharding serializeMonitor (serialize.go:71-99) receives the height *)
(* signal, releasing the node, and runs Serialize unless                  *)
(* height - preHeight < Interval.  Nothing Serialize reads changes before *)
(* the node sends again, so receive and Serialize are one step.           *)
ReceiveHeight ==
    /\ wpc = "send"
    /\ wpc' = "nest" /\ wi' = 0
    /\ IF Uint64Sub(height, preHeight) < Interval THEN UNCHANGED <<preHeight, swal>> ELSE Serialize
    /\ UNCHANGED <<height, keys, sh, spre, smon, senc, walH, walK, wblock>>

(* nest.SetHeight(height) of shard wi (sharding_birdnest.go:89-91,       *)
(* birdsnest.go:101-104): the shard's height is set and its               *)
(* serializeHeight blocks on the shard's serializeC.                      *)
NestSetHeight ==
    /\ wpc = "nest"
    /\ sh' = [sh EXCEPT ![wi] = wblock] /\ wpc' = "nsend"
    /\ UNCHANGED <<height, preHeight, swal, keys, spre, smon, senc, walH, walK, wblock, wi>>

(* Shard i's serializeMonitor (birdsnest serialize.go:24-52) receives the *)
(* signal once it is idle and starts Serialize unless                     *)
(* height - preHeight < Interval; analysisCuckooFilters reads the filters *)
(* now.  SetHeight goes on to the next shard, or AddsAndSetHeight returns *)
(* and the node goes to the next block.                                   *)
ShardReceive ==
    /\ wpc = "nsend" /\ smon[wi] = "idle"
    /\ IF Uint64Sub(sh[wi], spre[wi]) < ShardInterval
          THEN UNCHANGED <<smon, senc>>
          ELSE smon' = [smon EXCEPT ![wi] = "ser"] /\ senc' = [senc EXCEPT ![wi] = keys[wi]]
    /\ IF wi = NumShards - 1
          THEN wpc' = "adds" /\ wblock' = wblock + 1 /\ UNCHANGED wi
          ELSE wpc' = "nest" /\ wi' = wi + 1 /\ UNCHANGED wblock
    /\ UNCHANGED <<height, preHeight, swal, keys, sh, spre, walH, walK>>

(* The rest of shard i's Serialize (birdsnest serialize.go:64-82): the   *)
(* record of the encoded filters and preHeight is written, and preHeight  *)
(* advances to the shard's height; a write error leaves both.             *)
ShardSerialize(i) ==
    /\ smon[i] = "ser"
    /\ smon' = [smon EXCEPT ![i] = "idle"]
    /\ \/ /\ walH' = [walH EXCEPT ![i] = spre[i]] /\ walK' = [walK EXCEPT ![i] = senc[i]]
          /\ spre' = [spre EXCEPT ![i] = sh[i]]
       \/ UNCHANGED <<walH, walK, spre>>
    /\ UNCHANGED <<height, preHeight, swal, keys, sh, senc, wpc, wblock, wi>>

(* The process stops anywhere; NewShardingBirdsNest (sharding_birdnest.go *)
(* 44-80) loads the sharding height (serialize.go:50-68) and each shard   *)
(* its filters and height (NewBirdsNestByNumber); preHeights start at 0.  *)
(* The node adds the blocks above the sharding height again.              *)
CrashRestart ==
    /\ height' = swal /\ preHeight' = 0
    /\ keys' = walK /\ sh' = walH
    /\ spre' = [i \in Shards |-> 0] /\ smon' = [i \in Shards |-> "idle"]
    /\ wpc' = "adds" /\ wblock' = swal + 1 /\ wi' = 0
    /\ UNCHANGED <<swal, senc, walH, walK>>

(* The node has added every block and set its height. *)
Done ==
    /\ wpc = "adds" /\ wblock > NumBlocks
    /\ UNCHANGED vars

Next ==
    \/ Adds \/ SetHeight \/ ReceiveHeight \/ NestSetHeight \/ ShardReceive
    \/ \E i \in Shards : ShardSerialize(i)
    \/ CrashRestart \/ Done

Spec == Init /\ [][Next]_vars

-----------------------------------------------------------------------------
(* Every key of a block at or below the sharded height is in the shard it *)
(* routes to, so that Contains finds it: the node never skips a block a   *)
(* shard lost in a restart (the snapshot round trip of spec.md 8).        *)
RestartComplete ==
    wpc = "adds" =>
        \A b \in 1 .. height : \A i \in Shards : BlockKeys(b, i) \subseteq keys[i]
=============================================================================
