------------------------- MODULE MC_ShardingBirdsNest -------------------------
(* Three shards.  a and d route to shard 0, b and f to shard 1, c to shard *)
(* 2; f is a key whose Add fails.  The first batch starts a goroutine on   *)
(* every shard, two keys on shard 0; the second puts b and d on shards a   *)
(* goroutine of the first call may still be writing.                       *)
EXTENDS ShardingBirdsNest, TLC

CONSTANTS a, b, c, d, f

MCKeys == {a, b, c, d, f}
MCLastByte == (a :> 0) @@ (b :> 1) @@ (c :> 2) @@ (d :> 3) @@ (f :> 4)
MCBatches == {<<a, f, c, d>>, <<b, d>>}
MCEmptyBatches == {<<>>}
(* DoSharding's characterisation by ranks agrees with the loop of          *)
(* sharding_algorithm.go:29-36, which appends each key to its shard's      *)
(* bucket in order (SelectSeq keeps the keys of a shard in call order),    *)
(* for every key list of up to four keys.                                  *)
ASSUME DoShardingMatchesLoop ==
    \A n \in 0 .. 4 : \A ks \in [1 .. n -> MCKeys] :
        DoSharding(ks) = [i \in Shards |-> SelectSeq(ks, LAMBDA k : DoShardingOnce(k) = i)]
========================================================================
