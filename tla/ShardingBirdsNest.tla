------------------------- MODULE ShardingBirdsNest -------------------------
(***************************************************************************)
(* The sharding layer's bulk insert (src/shardingbirdsnest/                *)
(* sharding_birdnest.go, sharding_algorithm.go).  Adds routes its keys to  *)
(* shards by the last byte of each key, starts one goroutine per non-empty *)
(* bucket, each running BirdsNestImpl.Adds on its shard and assigning the  *)
(* result to Adds' named result err, which all of them share, and then     *)
(* sending on the unbuffered finishC.  The caller's select loop returns on *)
(* the timeout, on the first finish that finds err set, or when every      *)
(* task has finished.  A shard's chain is abstracted to the set of keys    *)
(* it holds; a failing key is one whose extension Store fails after the    *)
(* cuckoo insertion (the key is in the filter and Add returns an error).   *)
(***************************************************************************)
EXTENDS Integers, Sequences, FiniteSets

CONSTANTS
    NumShards,   \* config.Length, the number of shards
    Keys,        \* the keys
    LastByte,    \* LastByte[k]: the last byte of key k
    AddFails,    \* the keys whose BirdsNestImpl.Add returns an error
    Batches,     \* the key lists a caller may pass to one Adds
    MaxCalls     \* the number of Adds calls the caller makes

ASSUME ShardingAssumption ==
    /\ NumShards \in Nat \ {0}
    /\ LastByte \in [Keys -> 0 .. 255]
    /\ AddFails \subseteq Keys
    /\ Batches \subseteq Seq(Keys)
    /\ MaxCalls \in Nat \ {0}

Shards == 0 .. NumShards - 1
Calls == 1 .. MaxCalls

VARIABLES
    added,     \* added[i]: the keys in the chain of shard i
    calls,     \* the number of Adds calls started
    bucket,    \* bucket[c][i]: sharding[i] of call c
    gpc,       \* gpc[c][i]: goroutine i of call c: "none", "run", "send" or "done"
    gpos,      \* gpos[c][i]: the next key of bucket[c][i] its Adds adds
    gres,      \* gres[c][i]: what its BirdsNestImpl.Adds returns, "nil" or "fail"
    err,       \* err[c]: the named result of call c, shared by its goroutines
    mpc,       \* the caller: "idle", "wait" (the select loop) or "ret"
    running,   \* runningTask of the current call
    result     \* result[c]: what call c returned: "none", "nil", "fail" or "timeout"

vars == <<added, calls, bucket, gpc, gpos, gres, err, mpc, running, result>>

-----------------------------------------------------------------------------
(* ChecksumKeyModulo (sharding_algorithm.go:13-15). *)
ChecksumKeyModulo(k) == LastByte[k] % NumShards

DoShardingOnce(k) == ChecksumKeyModulo(k)

(* The positions of ks whose key routes to shard i. *)
ShardPositions(ks, i) == {n \in 1 .. Len(ks) : DoShardingOnce(ks[n]) = i}

(* The number of positions of P up to n: n is the PositionRank(P, n)-th. *)
PositionRank(P, n) == Cardinality({p \in P : p <= n})

(* DoSharding (sharding_algorithm.go:26-38) appends every key to the      *)
(* bucket of its shard in call order, so the m-th key of bucket i is the  *)
(* key at the m-th position of ks that routes to i.  An empty sequence    *)
(* stands for a nil bucket.                                               *)
DoSharding(ks) ==
    [i \in Shards |->
        LET P == ShardPositions(ks, i)
        IN  [m \in 1 .. Cardinality(P) |-> ks[CHOOSE n \in P : PositionRank(P, n) = m]]]

Init ==
    /\ added = [i \in Shards |-> {}]
    /\ calls = 0
    /\ bucket = [c \in Calls |-> [i \in Shards |-> <<>>]]
    /\ gpc = [c \in Calls |-> [i \in Shards |-> "none"]]
    /\ gpos = [c \in Calls |-> [i \in Shards |-> 1]]
    /\ gres = [c \in Calls |-> [i \in Shards |-> "nil"]]
    /\ err = [c \in Calls |-> "nil"]
    /\ mpc = "idle"
    /\ running = 0
    /\ result = [c \in Calls |-> "none"]

(* Adds up to its select loop (sharding_birdnest.go:103-123): a goroutine *)
(* and a running task for each non-empty bucket.                           *)
StartAddsMutant(b) ==
    /\ mpc = "idle" /\ calls < MaxCalls
    /\ LET c == calls + 1
           sharding == DoSharding(b)
       IN /\ calls' = c
          /\ bucket' = [bucket EXCEPT ![c] = sharding]
          /\ gpc' = [gpc EXCEPT ![c] = [i \in Shards |-> IF sharding[i] # <<>> THEN "run" ELSE "none"]]
          /\ running' = Len(b)
          /\ mpc' = "wait"
    /\ UNCHANGED <<added, gpos, gres, err, result>>

(* runningTask++ before the nil-bucket continue: every shard is counted. *)
StartAddsCountAll(b) ==
    /\ mpc = "idle" /\ calls < MaxCalls
    /\ LET c == calls + 1
           sharding == DoSharding(b)
       IN /\ calls' = c
          /\ bucket' = [bucket EXCEPT ![c] = sharding]
          /\ gpc' = [gpc EXCEPT ![c] = [i \in Shards |-> IF sharding[i] # <<>> THEN "run" ELSE "none"]]
          /\ running' = NumShards
          /\ mpc' = "wait"
    /\ UNCHANGED <<added, gpos, gres, err, result>>

StartAdds(b) ==
    /\ mpc = "idle" /\ calls < MaxCalls
    /\ LET c == calls + 1
           sharding == DoSharding(b)
           started == {i \in Shards : sharding[i] # <<>>}
       IN /\ calls' = c
          /\ bucket' = [bucket EXCEPT ![c] = sharding]
          /\ gpc' = [gpc EXCEPT ![c] = [i \in Shards |-> IF i \in started THEN "run" ELSE "none"]]
          /\ running' = Cardinality(started)
          /\ mpc' = "wait"
    /\ UNCHANGED <<added, gpos, gres, err, result>>

(* Goroutine i of call c is inside BirdsNestImpl.Adds on shard i. *)
InAdds(c, i) == gpc[c][i] = "run" /\ gres[c][i] = "nil" /\ gpos[c][i] <= Len(bucket[c][i])

(* The goroutine closes over the loop variable i instead of taking it as  *)
(* a parameter: before Go 1.22 it reads whatever later value the loop has *)
(* given i by the time it runs.                                           *)
ShardAddMutant(c, i) ==
    /\ InAdds(c, i)
    /\ \E j \in i .. NumShards - 1 :
          LET k == bucket[c][i][gpos[c][i]] IN
          /\ added' = [added EXCEPT ![j] = @ \cup {k}]
          /\ IF k \in AddFails
                THEN gres' = [gres EXCEPT ![c][i] = "fail"] /\ UNCHANGED gpos
                ELSE gpos' = [gpos EXCEPT ![c][i] = @ + 1] /\ UNCHANGED gres
    /\ UNCHANGED <<calls, bucket, gpc, err, mpc, running, result>>

(* One Add of BirdsNestImpl.Adds (birdsnest.go:117-125) on shard i: the   *)
(* key is inserted; a failing key ends Adds with its error.               *)
ShardAdd(c, i) ==
    /\ InAdds(c, i)
    /\ LET k == bucket[c][i][gpos[c][i]] IN
       /\ added' = [added EXCEPT ![i] = @ \cup {k}]
       /\ IF k \in AddFails
             THEN gres' = [gres EXCEPT ![c][i] = "fail"] /\ UNCHANGED gpos
             ELSE gpos' = [gpos EXCEPT ![c][i] = @ + 1] /\ UNCHANGED gres
    /\ UNCHANGED <<calls, bucket, gpc, err, mpc, running, result>>

(* err = s.bn[i].Adds(values), then the deferred finishC <- i blocks      *)
(* until the caller receives (sharding_birdnest.go:119-122).  Success     *)
(* assigns nil too.                                                       *)
ShardAssign(c, i) ==
    /\ gpc[c][i] = "run" /\ ~InAdds(c, i)
    /\ err' = [err EXCEPT ![c] = gres[c][i]]
    /\ gpc' = [gpc EXCEPT ![c][i] = "send"]
    /\ UNCHANGED <<added, calls, bucket, gpos, gres, mpc, running, result>>

(* case <-finishC (sharding_birdnest.go:128-135) of the current call:     *)
(* err set sends the caller to its return, which reads err again;         *)
(* otherwise one task fewer, and the call returns err when none is left.  *)
ReceiveMutant(i) ==
    /\ mpc = "wait" /\ gpc[calls][i] = "send"
    /\ gpc' = [gpc EXCEPT ![calls][i] = "done"]
    /\ IF err[calls] # "nil"
          THEN mpc' = "ret" /\ UNCHANGED <<running, result>>
          ELSE /\ running' = running - 1
               /\ IF running - 1 < 0
                     THEN result' = [result EXCEPT ![calls] = err[calls]] /\ mpc' = "idle"
                     ELSE UNCHANGED <<mpc, result>>
    /\ UNCHANGED <<added, calls, bucket, gpos, gres, err>>

Receive(i) ==
    /\ mpc = "wait" /\ gpc[calls][i] = "send"
    /\ gpc' = [gpc EXCEPT ![calls][i] = "done"]
    /\ IF err[calls] # "nil"
          THEN mpc' = "ret" /\ UNCHANGED <<running, result>>
          ELSE /\ running' = running - 1
               /\ IF running - 1 <= 0
                     THEN result' = [result EXCEPT ![calls] = err[calls]] /\ mpc' = "idle"
                     ELSE UNCHANGED <<mpc, result>>
    /\ UNCHANGED <<added, calls, bucket, gpos, gres, err>>

(* The bare return of line 130 returns err as it is now: a goroutine may  *)
(* have assigned it since the test of line 129 (a data race in Go).       *)
Return ==
    /\ mpc = "ret"
    /\ result' = [result EXCEPT ![calls] = err[calls]]
    /\ mpc' = "idle"
    /\ UNCHANGED <<added, calls, bucket, gpc, gpos, gres, err, running>>

(* case <-timeout (sharding_birdnest.go:126-127): the caller returns      *)
(* ErrAddsTimeout; goroutines still running go on and then block on       *)
(* finishC forever.                                                       *)
Timeout ==
    /\ mpc = "wait"
    /\ result' = [result EXCEPT ![calls] = "timeout"]
    /\ mpc' = "idle"
    /\ UNCHANGED <<added, calls, bucket, gpc, gpos, gres, err, running>>

(* The caller has made its MaxCalls calls. *)
CallerDone ==
    /\ calls = MaxCalls /\ mpc = "idle"
    /\ UNCHANGED vars

Next ==
    \/ \E b \in Batches : StartAdds(b)
    \/ \E c \in Calls, i \in Shards : ShardAdd(c, i) \/ ShardAssign(c, i)
    \/ \E i \in Shards : Receive(i)
    \/ Return \/ Timeout \/ CallerDone

(* The Go scheduler runs every runnable goroutine: the shard goroutines   *)
(* and the caller's receive and return are weakly fair.  The timer is     *)
(* left unfair, so that liveness says what Adds does before its deadline. *)
Fairness ==
    /\ \A c \in Calls, i \in Shards : WF_vars(ShardAdd(c, i) \/ ShardAssign(c, i))
    /\ \A i \in Shards : WF_vars(Receive(i))
    /\ WF_vars(Return)

Spec == Init /\ [][Next]_vars /\ Fairness

-----------------------------------------------------------------------------
TypeOK ==
    /\ added \in [Shards -> SUBSET Keys]
    /\ calls \in 0 .. MaxCalls
    /\ gpc \in [Calls -> [Shards -> {"none", "run", "send", "done"}]]
    /\ gres \in [Calls -> [Shards -> {"nil", "fail"}]]
    /\ err \in [Calls -> {"nil", "fail"}]
    /\ mpc \in {"idle", "wait", "ret"}
    /\ running \in 0 .. NumShards
    /\ result \in [Calls -> {"none", "nil", "fail", "timeout"}]

(* Once every shard's Adds finishes, sharded Adds returns by itself,      *)
(* without waiting for its timeout: the runningTask count of the select   *)
(* loop matches the goroutines it started.                                *)
AddsReturns == mpc = "wait" ~> mpc = "idle"

(* While the caller waits in its select loop, runningTask is the number  *)
(* of goroutines of the current call it has not yet received from: they  *)
(* are running or blocked on finishC.  A count of keys instead of buckets *)
(* (sharding_birdnest.go:116-118), or a missed decrement, leaves the loop *)
(* waiting for a finish no goroutine will send.                           *)
RunningMatches ==
    mpc = "wait" => running = Cardinality({i \in Shards : gpc[calls][i] \in {"run", "send"}})

(* Every key in a shard's chain routes to that shard: Add and Contains   *)
(* pick the chain by DoShardingOnce (sharding_birdnest.go:144, 156), and   *)
(* Adds by the buckets of DoSharding, so a key inserted by Adds is in the  *)
(* one chain Contains looks in.                                            *)
KeysRouted ==
    \A i \in Shards : \A k \in added[i] : DoShardingOnce(k) = i

(* Adds returns nil only if no shard's BirdsNestImpl.Adds of that call    *)
(* failed: an error of any shard reaches the caller, who then skips       *)
(* SetHeight (AddsAndSetHeight, sharding_birdnest.go:94-101).             *)
ErrorReported ==
    \A c \in Calls : result[c] = "nil" => \A i \in Shards : gres[c][i] = "nil"

(* At most one goroutine is inside BirdsNestImpl.Adds of a shard: each    *)
(* chain has a single writer (spec.md 5, scheduling model).               *)
SingleWriterPerShard ==
    \A i \in Shards : Cardinality({c \in Calls : InAdds(c, i)}) <= 1
=============================================================================
