---------------------- MODULE ShardingBirdsNestProofs ----------------------
(***************************************************************************)
(* Proofs about sharded Adds: the select loop's runningTask counts the    *)
(* goroutines of the current call it has not yet received from, for every *)
(* number of shards and of calls.                                          *)
(***************************************************************************)
EXTENDS ShardingBirdsNest, FiniteSetTheorems, TLAPS

GState == {"none", "run", "send", "done"}

(* The goroutines of call c the loop still expects a finish from. *)
Pending(c) == {i \in Shards : gpc[c][i] \in {"run", "send"}}

(* The control state the count depends on: the caller's place, the call  *)
(* it is in, and the goroutines' places.                                 *)
CInv ==
    /\ gpc \in [Calls -> [Shards -> GState]]
    /\ mpc \in {"idle", "wait", "ret"}
    /\ calls \in 0 .. MaxCalls
    /\ mpc # "idle" => calls \in Calls
    /\ RunningMatches

LEMMA ShardsFinite ==
    /\ IsFiniteSet(Shards)
    /\ Cardinality(Shards) = NumShards
    /\ \A S \in SUBSET Shards : IsFiniteSet(S) /\ Cardinality(S) \in Nat
<1>1. NumShards \in Nat \ {0}
  BY ShardingAssumption
<1>2. IsFiniteSet(Shards) /\ Cardinality(Shards) = NumShards
  BY <1>1, FS_Interval DEF Shards
<1>. QED BY <1>2, FS_Subset, FS_CardinalityType

(* The rank of a position among the positions of a shard lies in          *)
(* 1 .. Cardinality(P).                                                   *)
LEMMA RankBounds ==
    ASSUME NEW P \in SUBSET Nat, IsFiniteSet(P), NEW n \in P
    PROVE  PositionRank(P, n) \in 1 .. Cardinality(P)
<1>. DEFINE A == {p \in P : p <= n}
<1>1. IsFiniteSet(A) /\ Cardinality(A) <= Cardinality(P) /\ Cardinality(A) \in Nat
  BY FS_Subset, FS_CardinalityType
<1>2. A # {}
  OBVIOUS
<1>3. Cardinality(A) # 0
  BY <1>1, <1>2, FS_EmptySet
<1>. QED BY <1>1, <1>3 DEF PositionRank

(* A later position of the shard has a strictly larger rank. *)
LEMMA RankStrict ==
    ASSUME NEW P \in SUBSET Nat, IsFiniteSet(P), NEW n \in P, NEW q \in P, n < q
    PROVE  PositionRank(P, n) < PositionRank(P, q)
<1>. DEFINE A == {p \in P : p <= n}
            B == {p \in P : p <= q}
<1>0. n \in Nat /\ q \in Nat
  OBVIOUS
<1>1. q \in B /\ A \subseteq B /\ B \subseteq P
  <2>1. q \in B
    BY <1>0
  <2>2. ASSUME NEW p \in A PROVE p \in B
    <3>1. p \in P /\ p \in Nat /\ p <= n
      OBVIOUS
    <3>. QED BY <3>1, <1>0
  <2>3. B \subseteq P
    OBVIOUS
  <2>. QED BY <2>1, <2>2, <2>3, Zenon
<1>2. q \notin A
  BY <1>0
<1>. HIDE DEF A, B
<1>3. IsFiniteSet(B) /\ Cardinality(B) \in Nat
  <2>1. IsFiniteSet(B)
    BY <1>1, FS_Subset, Zenon
  <2>. QED BY <2>1, FS_CardinalityType
<1>4. IsFiniteSet(B \ {q}) /\ Cardinality(B \ {q}) = Cardinality(B) - 1
  BY <1>1, <1>3, FS_RemoveElement
<1>5. A \subseteq B \ {q}
  BY <1>1, <1>2
<1>6. Cardinality(A) <= Cardinality(B \ {q}) /\ Cardinality(A) \in Nat
  BY <1>4, <1>5, FS_Subset, FS_CardinalityType
<1>7. Cardinality(A) < Cardinality(B)
  BY <1>3, <1>4, <1>6
<1>. QED BY <1>7 DEF PositionRank, A, B

(* Every rank 1 .. Cardinality(P) is taken by a position: the ranks are   *)
(* an injection of P into 1 .. Cardinality(P), hence onto it.             *)
LEMMA RankOnto ==
    ASSUME NEW P \in SUBSET Nat, IsFiniteSet(P), NEW m \in 1 .. Cardinality(P)
    PROVE  \E n \in P : PositionRank(P, n) = m
<1>. DEFINE K == Cardinality(P)
            f == [n \in P |-> PositionRank(P, n)]
<1>1. K \in Nat
  BY FS_CardinalityType
<1>2. f \in [P -> 1 .. K]
  BY RankBounds
<1>3. \A a, b \in P : f[a] = f[b] => a = b
  <2>. SUFFICES ASSUME NEW a \in P, NEW b \in P, a # b PROVE f[a] # f[b]
    OBVIOUS
  <2>0. a \in Nat /\ b \in Nat
    OBVIOUS
  <2>1. a < b \/ b < a
    BY <2>0
  <2>2. PositionRank(P, a) \in Nat /\ PositionRank(P, b) \in Nat
    BY <1>1, RankBounds
  <2>3. PositionRank(P, a) # PositionRank(P, b)
    BY <2>1, <2>2, RankStrict
  <2>. QED BY <2>3
<1>4. f \in Injection(P, 1 .. K)
  BY <1>2, <1>3 DEF Injection, IsInjective
<1>5. IsFiniteSet(1 .. K) /\ Cardinality(1 .. K) = K
  BY <1>1, FS_Interval
<1>. HIDE DEF f, K
<1>6. f \in Surjection(P, 1 .. K)
  BY <1>4, <1>5, FS_Injection DEF K
<1>7. \E n \in P : f[n] = m
  BY <1>6 DEF Surjection, K
<1>. QED BY <1>7 DEF f

(* The position of ks that holds the m-th key of shard i's bucket. *)
BucketPos(ks, i, m) ==
    CHOOSE n \in ShardPositions(ks, i) : PositionRank(ShardPositions(ks, i), n) = m

(* The m-th key of shard i's bucket comes from a position of ks that      *)
(* routes to i, and the bucket has one key per such position.             *)
LEMMA DoShardingEntry ==
    ASSUME NEW ks \in Seq(Keys), NEW i \in Shards
    PROVE  /\ Cardinality(ShardPositions(ks, i)) \in Nat
           /\ DoSharding(ks)[i] = [m \in 1 .. Cardinality(ShardPositions(ks, i)) |-> ks[BucketPos(ks, i, m)]]
           /\ \A m \in 1 .. Cardinality(ShardPositions(ks, i)) :
                 BucketPos(ks, i, m) \in 1 .. Len(ks) /\ DoShardingOnce(ks[BucketPos(ks, i, m)]) = i
<1>. DEFINE P == ShardPositions(ks, i)
<1>1. P \in SUBSET (1 .. Len(ks))
  BY DEF ShardPositions
<1>2. IsFiniteSet(1 .. Len(ks))
  BY FS_Interval
<1>3. IsFiniteSet(P) /\ Cardinality(P) \in Nat
  BY <1>1, <1>2, FS_Subset, FS_CardinalityType
<1>4. ASSUME NEW m \in 1 .. Cardinality(P) PROVE BucketPos(ks, i, m) \in P
  <2>1. P \in SUBSET Nat
    BY <1>1
  <2>2. \E n \in P : PositionRank(P, n) = m
    BY <2>1, <1>3, RankOnto
  <2>. QED BY <2>2 DEF BucketPos
<1>5. \A n \in P : n \in 1 .. Len(ks) /\ DoShardingOnce(ks[n]) = i
  BY DEF ShardPositions
<1>6. DoSharding(ks)[i] = [m \in 1 .. Cardinality(P) |-> ks[BucketPos(ks, i, m)]]
  BY DEF DoSharding, BucketPos
<1>. HIDE DEF P
<1>. QED BY <1>3, <1>4, <1>5, <1>6 DEF P

(* DoSharding of a key list gives every shard a list of keys. *)
LEMMA DoShardingType ==
    ASSUME NEW ks \in Seq(Keys)
    PROVE  DoSharding(ks) \in [Shards -> Seq(Keys)]
<1>. SUFFICES ASSUME NEW i \in Shards
              PROVE  DoSharding(ks)[i] \in Seq(Keys)
  <2>1. DoSharding(ks) = [j \in Shards |-> DoSharding(ks)[j]]
    BY DEF DoSharding
  <2>. HIDE DEF DoSharding
  <2>. QED BY <2>1
<1>. DEFINE K == Cardinality(ShardPositions(ks, i))
<1>1. /\ K \in Nat
      /\ DoSharding(ks)[i] = [m \in 1 .. K |-> ks[BucketPos(ks, i, m)]]
      /\ \A m \in 1 .. K : BucketPos(ks, i, m) \in 1 .. Len(ks)
  BY DoShardingEntry
<1>. HIDE DEF K
<1>2. \A m \in 1 .. K : ks[BucketPos(ks, i, m)] \in Keys
  BY <1>1
<1>. QED BY <1>1, <1>2

(* Every key of shard i's bucket routes to shard i. *)
LEMMA DoShardingRoutes ==
    ASSUME NEW ks \in Seq(Keys), NEW i \in Shards
    PROVE  \A m \in 1 .. Len(DoSharding(ks)[i]) : DoShardingOnce(DoSharding(ks)[i][m]) = i
<1>. DEFINE K == Cardinality(ShardPositions(ks, i))
<1>1. /\ K \in Nat
      /\ DoSharding(ks)[i] = [m \in 1 .. K |-> ks[BucketPos(ks, i, m)]]
      /\ \A m \in 1 .. K : DoShardingOnce(ks[BucketPos(ks, i, m)]) = i
  BY DoShardingEntry
<1>. HIDE DEF K
<1>2. Len(DoSharding(ks)[i]) = K
  BY <1>1
<1>. QED BY <1>1, <1>2

LEMMA InitCInv == Init => CInv
BY ShardingAssumption DEF Init, CInv, GState, Calls, RunningMatches

LEMMA StartAddsCInv ==
    ASSUME CInv, NEW b \in Batches, StartAdds(b)
    PROVE  CInv'
<1>. DEFINE c == calls + 1
            started == {i \in Shards : DoSharding(b)[i] # <<>>}
<1>1. mpc = "idle" /\ calls \in 0 .. MaxCalls - 1 /\ c \in Calls
  BY ShardingAssumption DEF StartAdds, CInv, Calls
<1>2. gpc' = [gpc EXCEPT ![c] = [i \in Shards |-> IF i \in started THEN "run" ELSE "none"]]
      /\ running' = Cardinality(started) /\ mpc' = "wait" /\ calls' = c
  BY DEF StartAdds
<1>3. gpc' \in [Calls -> [Shards -> GState]]
  BY <1>1, <1>2 DEF CInv, GState
<1>4. {i \in Shards : gpc'[calls'][i] \in {"run", "send"}} = started
  BY <1>1, <1>2 DEF CInv
<1>5. RunningMatches'
  BY <1>2, <1>4 DEF RunningMatches
<1>. QED BY <1>1, <1>2, <1>3, <1>5 DEF CInv, Calls

LEMMA ShardAddCInv ==
    ASSUME CInv, NEW c \in Calls, NEW i \in Shards, ShardAdd(c, i)
    PROVE  CInv'
BY DEF ShardAdd, CInv, RunningMatches

LEMMA ShardAssignCInv ==
    ASSUME CInv, NEW c \in Calls, NEW i \in Shards, ShardAssign(c, i)
    PROVE  CInv'
<1>1. gpc[c][i] = "run" /\ gpc' = [gpc EXCEPT ![c][i] = "send"]
      /\ mpc' = mpc /\ running' = running /\ calls' = calls
  BY DEF ShardAssign
<1>2. gpc' \in [Calls -> [Shards -> GState]]
  BY <1>1 DEF CInv, GState
<1>3. mpc = "wait" => Pending(calls)' = Pending(calls)
  BY <1>1 DEF CInv, Pending
<1>. QED BY <1>1, <1>2, <1>3 DEF CInv, RunningMatches, Pending

LEMMA ReceiveCInv ==
    ASSUME CInv, NEW i \in Shards, Receive(i)
    PROVE  CInv'
<1>1. /\ mpc = "wait" /\ calls \in Calls /\ gpc[calls][i] = "send"
      /\ gpc' = [gpc EXCEPT ![calls][i] = "done"] /\ calls' = calls
  BY DEF Receive, CInv
<1>2. gpc' \in [Calls -> [Shards -> GState]]
  BY <1>1 DEF CInv, GState
<1>3. mpc' \in {"idle", "wait", "ret"}
  BY DEF Receive
<1>4. CASE mpc' = "wait"
  <2>1. err[calls] = "nil" /\ running' = running - 1
    BY <1>4 DEF Receive
  <2>2. Pending(calls)' = Pending(calls) \ {i}
    BY <1>1 DEF CInv, Pending
  <2>3. i \in Pending(calls) /\ Pending(calls) \in SUBSET Shards
    BY <1>1 DEF Pending
  <2>4. Cardinality(Pending(calls) \ {i}) = Cardinality(Pending(calls)) - 1
    BY <2>3, ShardsFinite, FS_RemoveElement
  <2>. QED BY <1>1, <1>2, <1>4, <2>1, <2>2, <2>4 DEF CInv, RunningMatches, Pending
<1>5. CASE mpc' # "wait"
  BY <1>1, <1>2, <1>3, <1>5 DEF CInv, RunningMatches
<1>. QED BY <1>4, <1>5

LEMMA CInvStep == CInv /\ [Next]_vars => CInv'
<1>. SUFFICES ASSUME CInv, [Next]_vars PROVE CInv'
  OBVIOUS
<1>1. CASE \E b \in Batches : StartAdds(b)
  BY <1>1, StartAddsCInv
<1>2. CASE \E c \in Calls, i \in Shards : ShardAdd(c, i) \/ ShardAssign(c, i)
  BY <1>2, ShardAddCInv, ShardAssignCInv
<1>3. CASE \E i \in Shards : Receive(i)
  BY <1>3, ReceiveCInv
<1>4. CASE Return \/ Timeout
  BY <1>4 DEF Return, Timeout, CInv, RunningMatches
<1>5. CASE CallerDone \/ UNCHANGED vars
  BY <1>5 DEF CallerDone, vars, CInv, RunningMatches, Pending
<1>. QED BY <1>1, <1>2, <1>3, <1>4, <1>5 DEF Next

(* While Adds waits in its select loop, runningTask equals the number of *)
(* goroutines of that call it has not yet received a finish from        *)
(* (RunningMatches), for every number of shards and of calls, batches    *)
(* and failing keys, timeouts and leaked goroutines included.            *)
THEOREM RunningCorrect == Spec => []RunningMatches
<1>1. Init => CInv
  BY InitCInv
<1>2. CInv => RunningMatches
  BY DEF CInv
<1>. QED BY <1>1, <1>2, CInvStep, PTL DEF Spec
-----------------------------------------------------------------------------
(* TypeOK needs the buckets to hold keys and the goroutines' positions to  *)
(* be in range, so that ShardAdd adds a key, and the runningTask count of  *)
(* CInv, so that a Receive never takes runningTask below zero.             *)
TInv ==
    /\ CInv
    /\ TypeOK
    /\ bucket \in [Calls -> [Shards -> Seq(Keys)]]
    /\ gpos \in [Calls -> [Shards -> Nat \ {0}]]

LEMMA InitTInv == Init => TInv
<1>. SUFFICES ASSUME Init PROVE TInv
  OBVIOUS
<1>1. CInv
  BY InitCInv
<1>. QED BY <1>1, ShardingAssumption DEF Init, TInv, TypeOK, Calls

LEMMA StartAddsTInv ==
    ASSUME TInv, NEW b \in Batches, StartAdds(b)
    PROVE  TInv'
<1>. DEFINE c == calls + 1
            started == {i \in Shards : DoSharding(b)[i] # <<>>}
<1>1. CInv'
  BY StartAddsCInv DEF TInv
<1>2. c \in Calls /\ calls' = c
  BY ShardingAssumption DEF StartAdds, TInv, CInv, Calls
<1>3. DoSharding(b) \in [Shards -> Seq(Keys)]
  BY ShardingAssumption, DoShardingType
<1>4. bucket' \in [Calls -> [Shards -> Seq(Keys)]]
  BY <1>2, <1>3 DEF StartAdds, TInv
<1>5. running' \in 0 .. NumShards
  <2>1. running' = Cardinality(started)
    BY DEF StartAdds
  <2>2. started \subseteq Shards
    OBVIOUS
  <2>3. Cardinality(started) \in Nat /\ Cardinality(started) <= NumShards
    BY <2>2, ShardsFinite, FS_Subset
  <2>. QED BY <2>1, <2>3
<1>6. gpc' \in [Calls -> [Shards -> {"none", "run", "send", "done"}]]
  BY <1>1 DEF CInv, GState
<1>. QED BY <1>1, <1>2, <1>4, <1>5, <1>6 DEF StartAdds, TInv, TypeOK, Calls

LEMMA ShardAddTInv ==
    ASSUME TInv, NEW c \in Calls, NEW i \in Shards, ShardAdd(c, i)
    PROVE  TInv'
<1>1. CInv'
  BY ShardAddCInv DEF TInv
<1>2. bucket[c][i][gpos[c][i]] \in Keys
  <2>1. gpos[c][i] \in 1 .. Len(bucket[c][i]) /\ bucket[c][i] \in Seq(Keys)
    BY DEF ShardAdd, InAdds, TInv
  <2>. QED BY <2>1
<1>3. added' \in [Shards -> SUBSET Keys]
  BY <1>2 DEF ShardAdd, TInv, TypeOK
<1>4. gres' \in [Calls -> [Shards -> {"nil", "fail"}]] /\ gpos' \in [Calls -> [Shards -> Nat \ {0}]]
  <2>1. \/ gres' = [gres EXCEPT ![c][i] = "fail"] /\ gpos' = gpos
        \/ gpos' = [gpos EXCEPT ![c][i] = @ + 1] /\ gres' = gres
    BY DEF ShardAdd
  <2>2. gres \in [Calls -> [Shards -> {"nil", "fail"}]] /\ gpos \in [Calls -> [Shards -> Nat \ {0}]]
    BY DEF TInv, TypeOK
  <2>3. [gres EXCEPT ![c][i] = "fail"] \in [Calls -> [Shards -> {"nil", "fail"}]]
    BY <2>2
  <2>4. [gpos EXCEPT ![c][i] = @ + 1] \in [Calls -> [Shards -> Nat \ {0}]]
    BY <2>2
  <2>. QED BY <2>1, <2>2, <2>3, <2>4
<1>5. UNCHANGED <<calls, bucket, gpc, err, mpc, running, result>>
  BY DEF ShardAdd
<1>. QED BY <1>1, <1>3, <1>4, <1>5 DEF TInv, TypeOK

LEMMA ShardAssignTInv ==
    ASSUME TInv, NEW c \in Calls, NEW i \in Shards, ShardAssign(c, i)
    PROVE  TInv'
<1>1. CInv'
  BY ShardAssignCInv DEF TInv
<1>. QED BY <1>1 DEF ShardAssign, TInv, TypeOK, CInv, GState

LEMMA ReceiveTInv ==
    ASSUME TInv, NEW i \in Shards, Receive(i)
    PROVE  TInv'
<1>1. CInv'
  BY ReceiveCInv DEF TInv
<1>2. mpc = "wait" /\ calls \in Calls /\ gpc[calls][i] = "send"
  BY DEF Receive, TInv, CInv
<1>3. running \in 1 .. NumShards
  <2>1. i \in Pending(calls) /\ Pending(calls) \subseteq Shards
    BY <1>2 DEF Pending
  <2>2. IsFiniteSet(Pending(calls)) /\ Cardinality(Pending(calls)) # 0
    BY <2>1, ShardsFinite, FS_Subset, FS_EmptySet
  <2>3. running = Cardinality(Pending(calls))
    BY <1>2 DEF TInv, CInv, RunningMatches, Pending
  <2>. QED BY <2>2, <2>3 DEF TInv, TypeOK
<1>4. running' \in 0 .. NumShards
  <2>1. running' = running \/ running' = running - 1
    BY DEF Receive
  <2>. QED BY <1>3, <2>1, ShardingAssumption
<1>5. result' \in [Calls -> {"none", "nil", "fail", "timeout"}]
  BY <1>2 DEF Receive, TInv, TypeOK
<1>6. UNCHANGED <<added, calls, bucket, gpos, gres, err>>
  BY DEF Receive
<1>7. gpc' \in [Calls -> [Shards -> {"none", "run", "send", "done"}]] /\ mpc' \in {"idle", "wait", "ret"}
  BY <1>1 DEF CInv, GState
<1>. QED BY <1>1, <1>4, <1>5, <1>6, <1>7 DEF TInv, TypeOK

LEMMA TInvStep == TInv /\ [Next]_vars => TInv'
<1>. SUFFICES ASSUME TInv, [Next]_vars PROVE TInv'
  OBVIOUS
<1>1. CASE \E b \in Batches : StartAdds(b)
  BY <1>1, StartAddsTInv
<1>2. CASE \E c \in Calls, i \in Shards : ShardAdd(c, i) \/ ShardAssign(c, i)
  BY <1>2, ShardAddTInv, ShardAssignTInv
<1>3. CASE \E i \in Shards : Receive(i)
  BY <1>3, ReceiveTInv
<1>4. CASE Return \/ Timeout
  <2>1. CInv'
    BY <1>4, CInvStep DEF TInv, Next
  <2>2. calls \in Calls
    BY <1>4 DEF Return, Timeout, TInv, CInv
  <2>. QED BY <1>4, <2>1, <2>2 DEF Return, Timeout, TInv, TypeOK
<1>5. CASE CallerDone \/ UNCHANGED vars
  BY <1>5 DEF CallerDone, vars, TInv, TypeOK, CInv, RunningMatches, Pending
<1>. QED BY <1>1, <1>2, <1>3, <1>4, <1>5 DEF Next

(* Sharded Adds keeps every variable in its type for every number of      *)
(* shards and of calls, every routing and every batch: the shard chains   *)
(* hold only keys, and runningTask stays within 0 .. NumShards although   *)
(* goroutines of timed-out calls keep running.                            *)
THEOREM ShardingTypeCorrect == Spec => []TypeOK
<1>1. Init => TInv
  BY InitTInv
<1>2. TInv => TypeOK
  BY DEF TInv
<1>. QED BY <1>1, <1>2, TInvStep, PTL DEF Spec

-----------------------------------------------------------------------------
(* KeysRouted is not inductive by itself: a goroutine adds the keys of    *)
(* its bucket, so the buckets of every call must hold only keys routed to  *)
(* their shard.                                                           *)
BucketsRouted ==
    \A c \in Calls, i \in Shards :
        \A m \in 1 .. Len(bucket[c][i]) : DoShardingOnce(bucket[c][i][m]) = i

RInv == TInv /\ BucketsRouted /\ KeysRouted

LEMMA InitRInv == Init => RInv
<1>. SUFFICES ASSUME Init PROVE RInv
  OBVIOUS
<1>1. TInv
  BY InitTInv
<1>. QED BY <1>1 DEF Init, RInv, BucketsRouted, KeysRouted

LEMMA StartAddsRouted ==
    ASSUME RInv, NEW b \in Batches, StartAdds(b)
    PROVE  BucketsRouted' /\ KeysRouted'
<1>1. calls + 1 \in Calls /\ bucket' = [bucket EXCEPT ![calls + 1] = DoSharding(b)]
  BY ShardingAssumption DEF StartAdds, RInv, TInv, CInv, Calls
<1>2. \A i \in Shards : \A m \in 1 .. Len(DoSharding(b)[i]) : DoShardingOnce(DoSharding(b)[i][m]) = i
  BY ShardingAssumption, DoShardingRoutes
<1>3. BucketsRouted'
  BY <1>1, <1>2 DEF RInv, TInv, BucketsRouted
<1>4. KeysRouted'
  BY DEF StartAdds, RInv, KeysRouted
<1>. QED BY <1>3, <1>4

LEMMA ShardAddRouted ==
    ASSUME RInv, NEW c \in Calls, NEW i \in Shards, ShardAdd(c, i)
    PROVE  BucketsRouted' /\ KeysRouted'
<1>. DEFINE k == bucket[c][i][gpos[c][i]]
<1>1. gpos[c][i] \in 1 .. Len(bucket[c][i])
  BY DEF ShardAdd, InAdds, RInv, TInv
<1>2. DoShardingOnce(k) = i
  BY <1>1 DEF RInv, BucketsRouted
<1>3. added' = [added EXCEPT ![i] = @ \cup {k}] /\ bucket' = bucket
  BY DEF ShardAdd
<1>. QED BY <1>2, <1>3 DEF RInv, TInv, TypeOK, BucketsRouted, KeysRouted

LEMMA RInvStep == RInv /\ [Next]_vars => RInv'
<1>. SUFFICES ASSUME RInv, [Next]_vars PROVE RInv'
  OBVIOUS
<1>1. TInv'
  BY TInvStep DEF RInv
<1>2. CASE \E b \in Batches : StartAdds(b)
  BY <1>1, <1>2, StartAddsRouted DEF RInv
<1>3. CASE \E c \in Calls, i \in Shards : ShardAdd(c, i)
  BY <1>1, <1>3, ShardAddRouted DEF RInv
<1>4. CASE \E c \in Calls, i \in Shards : ShardAssign(c, i)
  BY <1>1, <1>4 DEF ShardAssign, RInv, BucketsRouted, KeysRouted
<1>5. CASE \E i \in Shards : Receive(i)
  BY <1>1, <1>5 DEF Receive, RInv, BucketsRouted, KeysRouted
<1>6. CASE Return \/ Timeout \/ CallerDone \/ UNCHANGED vars
  BY <1>1, <1>6 DEF Return, Timeout, CallerDone, vars, RInv, BucketsRouted, KeysRouted
<1>. QED BY <1>2, <1>3, <1>4, <1>5, <1>6 DEF Next

(* Every key in a shard's chain routes to that shard (KeysRouted), for    *)
(* every number of shards, routing and batch, so Contains and Add, which  *)
(* route by DoShardingOnce, look in the chain where Adds put the key.     *)
THEOREM RoutingCorrect == Spec => []KeysRouted
<1>1. Init => RInv
  BY InitRInv
<1>2. RInv => KeysRouted
  BY DEF RInv
<1>. QED BY <1>1, <1>2, RInvStep, PTL DEF Spec

=============================================================================
