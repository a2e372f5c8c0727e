-------------------------- MODULE BirdsNestProofs --------------------------
(***************************************************************************)
(* Proofs about the bird's nest ring of BirdsNest.tla for every value of   *)
(* the constants that their assumptions allow.                             *)
(***************************************************************************)
EXTENDS BirdsNest, TLAPS

USE LengthAssumption, MaxNumKeysAssumption, KeyTypeAssumption, KeysAssumption,
    HeightsAssumption

(* The number of values of a key's timestamp prefix and its half.        *)
LEMMA WordRange == Word \in Nat /\ HalfWord \in 0 .. Word
<1>1. Word \in Nat
  BY SMT DEF Word
<1>. QED BY <1>1, SMT DEF HalfWord

(* Reading an unsigned prefix as an int64 gives a value of Nanos.          *)
LEMMA Int64OfRange ==
    ASSUME NEW u \in 0 .. Word - 1
    PROVE  Int64Of(u) \in Nanos
BY WordRange, SMT DEF Int64Of, Nanos

(* The NanoWidth bytes of a key, in either order, are a prefix value.      *)
LEMMA PrefixRange ==
    ASSUME NEW hi \in 0 .. ByteBase - 1, NEW lo \in 0 .. ByteBase - 1
    PROVE  hi * ByteBase + lo \in 0 .. Word - 1
<1>1. hi * ByteBase <= (ByteBase - 1) * ByteBase
  BY SMT
<1>. QED BY <1>1, SMT DEF Word

LEMMA NanoRange ==
    ASSUME NEW k \in Keys
    PROVE  LittleEndianNano(k) \in Nanos
<1>1. KeyBytes[k][2] \in 0 .. ByteBase - 1 /\ KeyBytes[k][1] \in 0 .. ByteBase - 1
  BY DEF NanoWidth
<1>2. KeyBytes[k][2] * ByteBase + KeyBytes[k][1] \in 0 .. Word - 1
  BY <1>1, PrefixRange
<1>. QED BY <1>2, Int64OfRange DEF LittleEndianNano

(* An insertion into a filter that fullStrategy let through keeps the     *)
(* filter in its type and within its capacity.                             *)
LEMMA CuckooAddType ==
    ASSUME NEW f \in Filter, NEW k \in Keys, NEW kick \in BOOLEAN,
           f.size < MaxFilterSize
    PROVE  /\ CuckooAdd(f, k, kick) \in Filter
           /\ CuckooAdd(f, k, kick).size <= MaxFilterSize
<1>. DEFINE g == [f EXCEPT !.keys = @ \cup {k}, !.size = @ + 1, !.victim = kick]
<1>1. g \in Filter /\ g.size <= MaxFilterSize
  <2>1. f.size + 1 \in Nat /\ f.size + 1 <= MaxFilterSize
    BY SMT DEF Filter, MaxFilterSize
  <2>2. f.keys \cup {k} \in SUBSET Keys
    BY DEF Filter
  <2>. QED BY <2>1, <2>2 DEF Filter
<1>2. StoreTimestamp(g, k) \in Filter /\ StoreTimestamp(g, k).size = g.size
  <2>1. LittleEndianNano(k) \in Nanos
    BY NanoRange
  <2>. QED BY <1>1, <2>1 DEF StoreTimestamp, Filter
<1>. QED BY <1>1, <1>2 DEF CuckooAdd

LEMMA InitTypeOK == Init => TypeOK
BY SMT DEF Init, TypeOK, NewCuckooFilter, Filter, Slots, MaxFilterSize

LEMMA AddTypeOK ==
    ASSUME TypeOK, NEW k \in Keys, Add(k)
    PROVE  TypeOK'
<1>. DEFINE rotate == FullStrategyRotates
            idx == IF rotate THEN NextIndex ELSE currentIndex
            f == IF rotate THEN NewCuckooFilter ELSE filters[currentIndex]
<1>1. idx \in Slots
  BY SMT DEF TypeOK, NextIndex, Slots
<1>2. f \in Filter /\ f.size < MaxFilterSize
  <2>1. CASE rotate
    BY <2>1 DEF NewCuckooFilter, Filter, MaxFilterSize
  <2>2. CASE ~rotate
    <3>1. filters[currentIndex] \in Filter /\ ~IsFull(filters[currentIndex])
      BY <2>2 DEF TypeOK, FullStrategyRotates
    <3>. QED BY <2>2, <3>1, SMT DEF IsFull, MaxFilterSize, Filter
  <2>. QED BY <2>1, <2>2
<1>3. PICK kick \in BOOLEAN : filters' = [filters EXCEPT ![idx] = CuckooAdd(f, k, kick)]
  BY DEF Add
<1>4. CuckooAdd(f, k, kick) \in Filter /\ CuckooAdd(f, k, kick).size <= MaxFilterSize
  BY <1>2, CuckooAddType
<1>5. currentIndex' = idx /\ height' = height
  BY DEF Add
<1>. QED BY <1>1, <1>3, <1>4, <1>5 DEF TypeOK

LEMMA SetHeightTypeOK ==
    ASSUME TypeOK, NEW h \in Heights, SetHeight(h)
    PROVE  TypeOK'
BY DEF TypeOK, SetHeight

(* The type invariant, capacity bound included, holds in every state.     *)
THEOREM TypeCorrect == Spec => []TypeOK
<1>1. Init => TypeOK
  BY InitTypeOK
<1>2. TypeOK /\ [Next]_vars => TypeOK'
  BY AddTypeOK, SetHeightTypeOK DEF Next, vars, TypeOK
<1>. QED BY <1>1, <1>2, PTL DEF Spec

-----------------------------------------------------------------------------
(* The ring arithmetic of WindowOf: generation g of the window sits g     *)
(* filters after the current one.                                          *)
LEMMA RingPosition ==
    ASSUME NEW n \in Nat \ {0}, NEW c \in 0 .. n - 1, NEW g \in 1 .. n
    PROVE  /\ (c + g) % n = IF c + g < n THEN c + g ELSE c + g - n
           /\ (c + g) % n \in 0 .. n - 1
           /\ (c + g) % n = c <=> g = n
<1>. HIDE LengthAssumption, MaxNumKeysAssumption, KeyTypeAssumption, KeysAssumption,
          HeightsAssumption
<1>1. (c + g) % n = IF c + g < n THEN c + g ELSE c + g - n
  BY SMT
<1>. QED BY <1>1, SMT

(* Strengthening used by the refinement: a filter without keys was never  *)
(* inserted into, so it is not full while MaxNumKeys > 0.                  *)
FreshWhenEmpty ==
    \A i \in Slots : filters[i].keys = {} => filters[i].size = 0 /\ ~filters[i].victim

IInv == TypeOK /\ FreshWhenEmpty

LEMMA IInvInductive == Spec => []IInv
<1>1. Init => IInv
  BY InitTypeOK DEF Init, IInv, FreshWhenEmpty, NewCuckooFilter
<1>2. IInv /\ [Next]_vars => IInv'
  <2>. SUFFICES ASSUME IInv, [Next]_vars PROVE IInv'
    OBVIOUS
  <2>1. TypeOK'
    BY AddTypeOK, SetHeightTypeOK DEF IInv, Next, vars, TypeOK
  <2>2. ASSUME \E k \in Keys : Add(k) PROVE FreshWhenEmpty'
    <3>1. PICK k \in Keys : Add(k)
      BY <2>2
    <3>. DEFINE rotate == FullStrategyRotates
                idx == IF rotate THEN NextIndex ELSE currentIndex
                f == IF rotate THEN NewCuckooFilter ELSE filters[currentIndex]
    <3>2. PICK kick \in BOOLEAN : filters' = [filters EXCEPT ![idx] = CuckooAdd(f, k, kick)]
      BY <3>1 DEF Add
    <3>3. idx \in Slots
      BY SMT DEF IInv, TypeOK, NextIndex, Slots
    <3>4. f \in Filter
      BY SMT DEF IInv, TypeOK, Slots, NewCuckooFilter, Filter
    <3>5. k \in CuckooAdd(f, k, kick).keys
      BY <3>4 DEF CuckooAdd, StoreTimestamp, Filter
    <3>6. ASSUME NEW i \in Slots, filters'[i].keys = {}
          PROVE  filters'[i].size = 0 /\ ~filters'[i].victim
      <4>1. i # idx
        BY <3>2, <3>3, <3>5, <3>6 DEF IInv, TypeOK
      <4>2. filters'[i] = filters[i]
        BY <3>2, <4>1 DEF IInv, TypeOK
      <4>. QED BY <3>6, <4>2 DEF IInv, FreshWhenEmpty
    <3>. QED BY <3>6 DEF FreshWhenEmpty
  <2>3. ASSUME \E h \in Heights : SetHeight(h) PROVE FreshWhenEmpty'
    BY <2>3 DEF IInv, FreshWhenEmpty, SetHeight
  <2>4. ASSUME UNCHANGED vars PROVE FreshWhenEmpty'
    BY <2>4 DEF IInv, FreshWhenEmpty, TypeOK, vars
  <2>. QED BY <2>1, <2>2, <2>3, <2>4 DEF IInv, Next
<1>. QED BY <1>1, <1>2, PTL DEF Spec

(* Moving the window one filter on: generation g after the new current     *)
(* filter is generation g + 1 after the old one.                           *)
LEMMA RingShift ==
    ASSUME NEW n \in Nat \ {0}, NEW c \in 0 .. n - 1, NEW g \in 1 .. n - 1
    PROVE  (((c + 1) % n) + g) % n = (c + (g + 1)) % n
<1>. HIDE LengthAssumption, MaxNumKeysAssumption, KeyTypeAssumption, KeysAssumption,
          HeightsAssumption
<1>. QED BY SMT

(* An insertion adds exactly its key to the filter's key set.             *)
LEMMA CuckooAddKeys ==
    ASSUME NEW f \in Filter, NEW k \in Keys, NEW kick \in BOOLEAN
    PROVE  CuckooAdd(f, k, kick).keys = f.keys \cup {k}
BY DEF CuckooAdd, StoreTimestamp, Filter

(* BirdsNest implements SlidingWindow: the ring, read from the filter     *)
(* after the current one, always holds the last Length + 1 generations.    *)
THEOREM WindowRefined ==
    ASSUME MaxNumKeys \in Nat \ {0}
    PROVE  Spec => WindowRefinement
<1>. DEFINE n == Length + 1
<1>0. n \in Nat \ {0}
  OBVIOUS
<1>1. Init => Window!Init
  <2>. SUFFICES ASSUME Init PROVE Window!Init
    OBVIOUS
  <2>1. ASSUME NEW g \in 1 .. n PROVE WindowOf[g] = {}
    <3>1. (0 + g) % n \in 0 .. n - 1
      BY <1>0, RingPosition
    <3>. QED BY <3>1 DEF Init, WindowOf, NewCuckooFilter, Slots
  <2>. QED BY <2>1 DEF Window!Init, Window!Gens, WindowOf
<1>2. IInv /\ [Next]_vars => [Window!Next]_WindowOf
  <2>. SUFFICES ASSUME IInv, [Next]_vars PROVE [Window!Next]_WindowOf
    OBVIOUS
  <2>. USE DEF IInv
  <2>1. CASE \E k \in Keys : Add(k)
    <3>1. PICK k \in Keys : Add(k)
      BY <2>1
    <3>. DEFINE c == currentIndex
                rotate == FullStrategyRotates
                idx == IF rotate THEN NextIndex ELSE c
                f == IF rotate THEN NewCuckooFilter ELSE filters[c]
    <3>2. PICK kick \in BOOLEAN : filters' = [filters EXCEPT ![idx] = CuckooAdd(f, k, kick)]
      BY <3>1 DEF Add
    <3>3. currentIndex' = idx
      BY <3>1 DEF Add
    <3>4. c \in 0 .. n - 1 /\ idx \in 0 .. n - 1
      BY SMT DEF TypeOK, Slots, NextIndex
    <3>5. f \in Filter
      BY SMT DEF TypeOK, Slots, NewCuckooFilter, Filter
    <3>6. filters'[idx].keys = f.keys \cup {k}
      BY <3>2, <3>4, <3>5, CuckooAddKeys DEF TypeOK, Slots
    <3>7. ASSUME NEW i \in Slots, i # idx PROVE filters'[i] = filters[i]
      BY <3>2, <3>7 DEF TypeOK
    <3>8. CASE ~rotate
      <4>1. idx = c /\ f = filters[c]
        BY <3>8
      <4>2. ASSUME NEW g \in 1 .. n
            PROVE  WindowOf'[g] = IF g = n THEN WindowOf[g] \cup {k} ELSE WindowOf[g]
        <5>1. (c + g) % n \in 0 .. n - 1 /\ ((c + g) % n = c <=> g = n)
          BY <3>4, <1>0, RingPosition
        <5>2. CASE g = n
          BY <3>3, <3>6, <4>1, <5>1, <5>2 DEF WindowOf
        <5>3. CASE g # n
          BY <3>3, <3>7, <4>1, <5>1, <5>3 DEF WindowOf, Slots
        <5>. QED BY <5>2, <5>3
      <4>3. WindowOf' = [WindowOf EXCEPT ![Length + 1] = @ \cup {k}]
        BY <4>2 DEF WindowOf
      <4>. QED BY <4>3 DEF Window!Next, Window!Insert
    <3>9. CASE rotate
      <4>1. idx = (c + 1) % n /\ f = NewCuckooFilter
        BY <3>9 DEF NextIndex
      <4>2. WindowOf[n] # {}
        <5>1. filters[c] \in Filter /\ IsFull(filters[c])
          BY <3>9 DEF TypeOK, FullStrategyRotates
        <5>2. filters[c].size > 0 \/ filters[c].victim
          BY <5>1, SMT DEF IsFull, Filter
        <5>3. filters[c].keys # {}
          BY <5>2, <3>4 DEF FreshWhenEmpty, Slots
        <5>4. (c + n) % n = c
          BY <3>4, <1>0, RingPosition
        <5>5. WindowOf[n] = filters[(c + n) % n].keys
          BY DEF WindowOf
        <5>. QED BY <5>3, <5>4, <5>5
      <4>3. ASSUME NEW g \in 1 .. n
            PROVE  WindowOf'[g] = IF g = n THEN {k} ELSE WindowOf[g + 1]
        <5>0. (c + 1) % n \in 0 .. n - 1
          BY <3>4, <1>0, RingPosition
        <5>1. (((c + 1) % n) + g) % n \in 0 .. n - 1
              /\ ((((c + 1) % n) + g) % n = (c + 1) % n <=> g = n)
          BY <5>0, <1>0, RingPosition
        <5>9. (((c + 1) % n) + g) % n = (c + (g + 1)) % n \/ g = n
          <6>1. CASE g # n
            <7>1. g \in 1 .. n - 1 /\ c \in 0 .. n - 1
              BY <6>1, <3>4
            <7>. QED BY <7>1, <1>0, RingShift, Zenon
          <6>. QED BY <6>1
        <5>8. idx = (c + 1) % n
          BY <4>1
        <5>. HIDE DEF idx
        <5>2. CASE g = n
          <6>1. f.keys = {}
            BY <4>1 DEF NewCuckooFilter
          <6>. QED BY <3>3, <3>6, <5>1, <5>2, <5>8, <6>1 DEF WindowOf
        <5>3. CASE g # n
          <6>2. g + 1 \in 1 .. n
            BY <5>3
          <6>. QED BY <3>3, <3>7, <5>1, <5>3, <5>8, <5>9, <6>2 DEF WindowOf, Slots
        <5>. QED BY <5>2, <5>3
      <4>4. WindowOf' = [g \in 1 .. n |-> IF g = n THEN {k} ELSE WindowOf[g + 1]]
        BY <4>3 DEF WindowOf
      <4>. QED BY <4>2, <4>4 DEF Window!Next, Window!RotateInsert, Window!Gens
    <3>. QED BY <3>8, <3>9
  <2>2. CASE \E h \in Heights : SetHeight(h)
    BY <2>2 DEF SetHeight, WindowOf
  <2>3. CASE UNCHANGED vars
    BY <2>3 DEF vars, WindowOf
  <2>. QED BY <2>1, <2>2, <2>3 DEF Next
<1>. QED BY <1>1, <1>2, IInvInductive, PTL DEF Spec, WindowRefinement, Window!Spec
=============================================================================
