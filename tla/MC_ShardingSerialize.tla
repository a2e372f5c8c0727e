------------------------- MODULE MC_ShardingSerialize -------------------------
(* Two shards and three blocks: a and c route to shard 0, b and d to      *)
(* shard 1, so every block has keys of one shard and block 1 of both.     *)
EXTENDS ShardingSerialize, TLC

CONSTANTS a, b, c, d

MCKeys == {a, b, c, d}
MCLastByte == (a :> 0) @@ (b :> 1) @@ (c :> 2) @@ (d :> 3)
MCBlocks == << <<a, b>>, <<c>>, <<d>> >>
=============================================================================
