----------------------------- MODULE BirdsNest -----------------------------
(***************************************************************************)
(* BirdsNestImpl of src/birdsnest/birdsnest.go: a ring of Length + 1       *)
(* cuckoo filters (CuckooFilterImpl, cuckoo.go), of which filters[         *)
(* currentIndex] takes the new keys.  When it is full the strategy moves   *)
(* currentIndex to the next filter of the ring and replaces that filter by *)
(* an empty one.                                                           *)
(*                                                                         *)
(* A filter is abstracted to the set of keys it holds, its insertion count *)
(* (cuckoo.Size(), duplicates included), the native full flag of the       *)
(* cuckoo table (a "victim" left by a failed chain of kicks, which may     *)
(* happen on any insertion) and its extension's first/last timestamps.     *)
(* A key is a model value; only the first NanoWidth bytes of its 8-byte    *)
(* timestamp prefix (KeyBytes[k], in key order) and whether byte 8 is the  *)
(* Separator are kept, and the timestamp is read from them with the width  *)
(* and the sign of an int64, big- or little-endian as the code does.       *)
(***************************************************************************)
EXTENDS Integers, FiniteSets

CONSTANTS
    Length,        \* config.Length: the ring holds Length + 1 filters
    MaxNumKeys,    \* config.Cuckoo.MaxNumKeys, the logical capacity of a filter
    KeyType,       \* config.Cuckoo.KeyType
    Keys,          \* keys (transaction ids) callers pass to Add
    ByteBase,      \* number of values of one byte of a key
    KeyBytes,      \* KeyBytes[k][i]: byte i of k, i \in 1..NanoWidth
    HasSeparator,  \* HasSeparator[k]: byte 8 of k equals Separator
    Heights        \* heights SetHeight may be called with

NanoWidth == 2

ASSUME LengthAssumption == Length \in Nat \ {0}
ASSUME MaxNumKeysAssumption == MaxNumKeys \in Nat
ASSUME KeyTypeAssumption == KeyType \in {"KTDefault", "KTTimestampKey"}
ASSUME KeysAssumption ==
    /\ ByteBase \in Nat \ {0, 1}
    /\ KeyBytes \in [Keys -> [1 .. NanoWidth -> 0 .. ByteBase - 1]]
    /\ HasSeparator \in [Keys -> BOOLEAN]
ASSUME HeightsAssumption == Heights \subseteq Nat

VARIABLES
    filters,       \* filters[i]: the i-th cuckoo filter of the ring
    currentIndex,  \* the filter Add writes to
    height         \* the block height last set

vars == <<filters, currentIndex, height>>

Slots == 0 .. Length          \* newCuckooFilters(config.Cuckoo, Length + 1)

-----------------------------------------------------------------------------
(* The timestamp prefix of a key, read as an int64 (utils.go bytes2nano,   *)
(* filter_extension.go:110).  Word is the number of values of the prefix.  *)
Word == ByteBase * ByteBase
HalfWord == Word \div 2
Int64Of(u) == IF u >= HalfWord THEN u - Word ELSE u
BigEndianNano(k) == Int64Of(KeyBytes[k][1] * ByteBase + KeyBytes[k][2])
LittleEndianNano(k) == Int64Of(KeyBytes[k][2] * ByteBase + KeyBytes[k][1])
Nanos == (HalfWord - Word) .. (HalfWord - 1)

(* TimestampKey.GetNano (key.go:73-75). *)
GetNano(k) == BigEndianNano(k)

(* TimestampKey.Parse succeeds (key.go:77-88); keys are never empty here. *)
ParseOk(k) == HasSeparator[k] /\ GetNano(k) >= 0

-----------------------------------------------------------------------------
Filter == [keys : SUBSET Keys, size : Nat, victim : BOOLEAN,
           first : Nanos \cup {0}, last : Nanos \cup {0}]

(* NewCuckooFilter: an empty table and a fresh extension (cuckoo.go:81-99). *)
NewCuckooFilter == [keys |-> {}, size |-> 0, victim |-> FALSE, first |-> 0, last |-> 0]

(* A bug: the logical capacity tested with > instead of >=. *)
IsFullMutant(f) == f.victim \/ f.size > MaxNumKeys

(* CuckooFilterImpl.IsFull (cuckoo.go:129-134). *)
IsFull(f) == f.victim \/ f.size >= MaxNumKeys

(* TimestampFilterExtension.Store after a successful Parse                 *)
(* (filter_extension.go:105-122): the nano is read little-endian.          *)
StoreTimestamp(f, k) ==
    LET nano == LittleEndianNano(k)
        first0 == IF f.first = 0 THEN nano ELSE f.first
    IN  [f EXCEPT !.first = IF nano < first0 THEN nano ELSE first0,
                  !.last = IF nano > f.last THEN nano ELSE f.last]

(* CuckooFilterImpl.Add (cuckoo.go:136-146) when cuckoo.Add returns true: *)
(* the key is in the table, and kick says whether the insertion left a    *)
(* victim behind, making the table natively full.  A failing Store leaves  *)
(* the key in the table and the extension as it was.                      *)
CuckooAdd(f, k, kick) ==
    LET g == [f EXCEPT !.keys = @ \cup {k}, !.size = @ + 1, !.victim = kick]
    IN  IF KeyType = "KTTimestampKey" /\ ParseOk(k) THEN StoreTimestamp(g, k) ELSE g

(* TimestampFilterExtension.Validate rejects the key                       *)
(* (filter_extension.go:89-103, called from cuckoo.go:149).                *)
OutOfRange(f, k) ==
    /\ KeyType = "KTTimestampKey"
    /\ IsFull(f)
    /\ f.first # 0
    /\ GetNano(k) < f.first \/ GetNano(k) > f.last

(* CuckooFilterImpl.Contains answers true for sure (cuckoo.go:148-158);    *)
(* it may also answer true for keys it does not hold (false positives).    *)
FilterContains(f, k) == ~OutOfRange(f, k) /\ k \in f.keys

(* BirdsNestImpl.Contains without rules: some filter of the ring holds k. *)
Contains(k) == \E i \in Slots : FilterContains(filters[i], k)

-----------------------------------------------------------------------------
Init ==
    /\ filters = [i \in Slots |-> NewCuckooFilter]
    /\ currentIndex = 0
    /\ height = 0

(* BirdsNestImpl.fullStrategy (birdsnest.go:167-176) runs the strategy    *)
(* when the current filter is full.                                        *)
FullStrategyRotates == IsFull(filters[currentIndex])

(* LruStrategy, called by fullStrategy when filters[currentIndex] is full: *)
(* the next filter of the ring becomes current and is replaced by an empty *)
(* one.  NextIndexMutant is the ring taken one filter too short.           *)
NextIndexMutant == (currentIndex + 1) % Length
NextIndex == (currentIndex + 1) % (Length + 1)

(* BirdsNestImpl.Add (birdsnest.go:128-147): fullStrategy, then the insert *)
(* into filters[currentIndex].  cuckoo.Add returns false only for a table  *)
(* with a victim, which fullStrategy has just replaced, so the loop runs   *)
(* its body once.  The Store error of a non-timestamp key is returned to   *)
(* the caller after the key is in the table.                               *)
Add(k) ==
    LET rotate == FullStrategyRotates
        idx == IF rotate THEN NextIndex ELSE currentIndex
        f == IF rotate THEN NewCuckooFilter ELSE filters[currentIndex]
    IN  /\ ~f.victim
        /\ \E kick \in BOOLEAN :
              filters' = [filters EXCEPT ![idx] = CuckooAdd(f, k, kick)]
        /\ currentIndex' = idx
        /\ UNCHANGED height

(* BirdsNestImpl.SetHeight (birdsnest.go:101-104); its serializeHeight     *)
(* signal is modelled where the serialization monitor is.                  *)
SetHeight(h) ==
    /\ height' = h
    /\ UNCHANGED <<filters, currentIndex>>

Next ==
    \/ \E k \in Keys : Add(k)
    \/ \E h \in Heights : SetHeight(h)

Spec == Init /\ [][Next]_vars

-----------------------------------------------------------------------------
(* The most keys a filter takes: fullStrategy rotates a filter once its    *)
(* insertion count reaches MaxNumKeys, and a filter is always given one.   *)
MaxFilterSize == IF MaxNumKeys = 0 THEN 1 ELSE MaxNumKeys

(* Type invariant; it bounds the insertion count of every filter by the    *)
(* configured capacity, which the fullness test of cuckoo.go:133 ensures.  *)
TypeOK ==
    /\ filters \in [Slots -> Filter]
    /\ \A i \in Slots : filters[i].size <= MaxFilterSize
    /\ currentIndex \in Slots
    /\ height \in Heights \cup {0}

(* The generations of the ring, oldest first: the filter after the current *)
(* one is the next to be reset, the current one is the open generation.    *)
WindowOf == [g \in 1 .. Length + 1 |-> filters[(currentIndex + g) % (Length + 1)].keys]

Window == INSTANCE SlidingWindow WITH window <- WindowOf

(* Add keeps the last Length + 1 generations of keys: a rotation resets    *)
(* exactly the oldest filter of the ring, only once the current one has    *)
(* taken keys, and never loses a key of a newer generation.                *)
WindowRefinement == Window!Spec

(* BirdsNestImpl.Contains finds every key still in the window: spec.md 8   *)
(* "for all keys inserted and not yet rotated out of the window, Contains  *)
(* returns true"; the timestamp fast-reject of a full filter must not      *)
(* reject a key the filter holds.                                          *)
MembershipSound == \A k \in Keys : Window!Member(k) => Contains(k)
=============================================================================
