--------------------- MODULE BirdsNestSerializeProofs ---------------------
(***************************************************************************)
(* Proofs about BirdsNestSerialize: a snapshot holds every live key of the *)
(* blocks up to the height it records, for every ring length, capacity,   *)
(* key set, block list, interval and snapshot type, provided no key is in *)
(* two blocks.                                                            *)
(***************************************************************************)
EXTENDS BirdsNestSerialize, BirdsNestProofs

(* Transaction ids are unique on a chain: no key is in two blocks. *)
UniqueBlocks ==
    \A b1, b2 \in 1 .. NumBlocks : b1 # b2 =>
        \A j1 \in DOMAIN Blocks[b1], j2 \in DOMAIN Blocks[b2] :
            Blocks[b1][j1] # Blocks[b2][j2]

(* The filters Serialize has encoded so far hold, of the blocks up to     *)
(* preHeight, every key the live filters hold now.                         *)
EncodedCover ==
    mpc \in {"encode", "write"} =>
        \A j \in Slots : (mpc = "write" \/ j < mi) =>
            filters[j].keys \cap KeysUpTo(preHeight) \subseteq menc[j].keys

(* The writer is past every height it has set: the block it adds to is    *)
(* above height, and preHeight, the height of the last store, is not      *)
(* above height.                                                          *)
WriterAhead ==
    /\ wpos \in Nat \ {0}
    /\ preHeight <= height /\ height <= NumBlocks
    /\ wpc = "add" => height < wblock
    /\ wpc = "send" => height = wblock

(* Encoded and recorded filters are within capacity, and records carry   *)
(* heights of blocks: what a restart loads is a state of the ring.        *)
RecordOK ==
    /\ \A i \in Slots : menc[i].size <= MaxFilterSize
    /\ wal # NoRecord =>
          /\ wal.height \in 0 .. NumBlocks
          /\ \A i \in Slots : wal.filters[i].size <= MaxFilterSize

TInv == STypeOK /\ WriterAhead /\ RecordOK

SInv == TInv /\ EncodedCover

USE LengthAssumption, MaxNumKeysAssumption, HeightsAssumption

(* What the proofs use of the block list. *)
LEMMA BlocksFacts ==
    /\ NumBlocks \in Nat
    /\ \A b \in 1 .. NumBlocks : Blocks[b] \in Seq(Keys)
    /\ 1 .. NumBlocks \subseteq Heights
BY SerializeAssumption DEF NumBlocks

LEMMA SInitTInv == SInit => TInv
<1>. SUFFICES ASSUME SInit PROVE TInv
  OBVIOUS
<1>1. TypeOK
  BY InitTypeOK DEF SInit
<1>2. NumBlocks \in Nat
  BY BlocksFacts
<1>. QED BY <1>1, <1>2 DEF SInit, Init, TInv, STypeOK, WriterAhead, RecordOK, Slots,
            NewCuckooFilter, Filter, MaxFilterSize

LEMMA WriterAddTInv ==
    ASSUME TInv, WriterAdd
    PROVE  TInv'
<1>1. /\ wblock \in 1 .. NumBlocks /\ wpos \in 1 .. Len(Blocks[wblock])
      /\ Blocks[wblock] \in Seq(Keys)
  BY BlocksFacts DEF WriterAdd, TInv, STypeOK, WriterAhead
<1>2. Blocks[wblock][wpos] \in Keys
  BY <1>1
<1>3. TypeOK'
  BY <1>2, AddTypeOK DEF WriterAdd, TInv, STypeOK
<1>4. wblock' \in 1 .. NumBlocks + 1 /\ wblock' >= wblock /\ wpos' \in Nat \ {0}
  BY <1>1, BlocksFacts DEF WriterAdd, TInv, WriterAhead
<1>5. /\ height' = height /\ wpc = "add" /\ wpc' = wpc /\ preHeight' = preHeight
      /\ mpc' = mpc /\ mi' = mi /\ menc' = menc /\ wal' = wal
  BY DEF WriterAdd, Add
<1>6. STypeOK'
  BY <1>3, <1>4, <1>5 DEF TInv, STypeOK
<1>7. WriterAhead'
  <2>1. /\ height < wblock /\ preHeight <= height /\ height <= NumBlocks
        /\ wblock \in Nat /\ height \in Nat
    BY <1>5 DEF TInv, WriterAhead, STypeOK, TypeOK
  <2>2. wpos' \in Nat \ {0}
    BY <1>4
  <2>3. preHeight' <= height' /\ height' <= NumBlocks
    BY <1>5, <2>1
  <2>4. wpc' = "add" => height' < wblock'
    BY <1>4, <1>5, <2>1
  <2>5. wpc' = "send" => height' = wblock'
    BY <1>5
  <2>. QED BY <2>2, <2>3, <2>4, <2>5 DEF WriterAhead
<1>8. RecordOK'
  BY <1>5 DEF TInv, RecordOK
<1>. QED BY <1>6, <1>7, <1>8 DEF TInv

LEMMA WriterSetHeightTInv ==
    ASSUME TInv, WriterSetHeight
    PROVE  TInv'
<1>1. wblock \in 1 .. NumBlocks /\ wblock \in Heights
  BY BlocksFacts DEF WriterSetHeight, TInv, STypeOK
<1>2. TypeOK'
  BY <1>1 DEF WriterSetHeight, TInv, STypeOK, TypeOK
<1>3. UNCHANGED <<preHeight, mpc, mi, menc, wal>> /\ height' = wblock
  BY DEF WriterSetHeight
<1>4. /\ wpc' \in {"add", "send"} /\ wblock' \in 1 .. NumBlocks + 1 /\ wpos' \in Nat \ {0}
      /\ wpc' = "add" => height' < wblock'
      /\ wpc' = "send" => height' = wblock'
  <2>1. CASE SnapshotType = "Height"
    <3>1. wpc' = "send" /\ wblock' = wblock /\ wpos' = wpos
      BY <2>1 DEF WriterSetHeight
    <3>. QED BY <1>1, <1>3, <3>1, BlocksFacts DEF TInv, WriterAhead
  <2>2. CASE SnapshotType # "Height"
    <3>1. wpc' = wpc /\ wpc = "add" /\ wblock' = wblock + 1 /\ wpos' = 1
      BY <2>2 DEF WriterSetHeight
    <3>. QED BY <1>1, <1>3, <3>1, BlocksFacts
  <2>. QED BY <2>1, <2>2
<1>5. preHeight' <= height' /\ height' <= NumBlocks
  <2>1. wpc = "add" /\ preHeight <= height /\ height < wblock
    BY DEF WriterSetHeight, TInv, WriterAhead
  <2>. QED BY <1>1, <1>3, <2>1, BlocksFacts DEF TInv, STypeOK, TypeOK
<1>. QED BY <1>2, <1>3, <1>4, <1>5 DEF TInv, STypeOK, WriterAhead, RecordOK

LEMMA ReceiveTInv ==
    ASSUME TInv, ReceiveHeight \/ ReceiveTimed
    PROVE  TInv'
<1>1. 0 \in Slots
  BY DEF Slots
<1>2. UNCHANGED <<filters, currentIndex, height, preHeight, menc, wal>>
  BY DEF ReceiveHeight, ReceiveTimed
<1>3. mpc' \in {"idle", "encode", "write", "store"} /\ mi' \in Slots
  BY <1>1 DEF ReceiveHeight, ReceiveTimed, StartSerialize, TInv, STypeOK
<1>4. /\ wpc' \in {"add", "send"} /\ wblock' \in 1 .. NumBlocks + 1 /\ wpos' \in Nat \ {0}
      /\ wpc' = "add" => height' < wblock'
      /\ wpc' = "send" => height' = wblock'
  <2>1. CASE ReceiveHeight
    <3>1. wpc = "send" /\ wpc' = "add" /\ wblock' = wblock + 1 /\ wpos' = 1
      BY <2>1 DEF ReceiveHeight
    <3>2. wblock = height /\ height <= NumBlocks /\ wblock \in Nat
      BY <3>1 DEF TInv, WriterAhead, STypeOK
    <3>. QED BY <1>2, <3>1, <3>2, BlocksFacts
  <2>2. CASE ReceiveTimed
    BY <1>2, <2>2 DEF ReceiveTimed, TInv, WriterAhead, STypeOK
  <2>. QED BY <2>1, <2>2
<1>. QED BY <1>2, <1>3, <1>4 DEF TInv, STypeOK, TypeOK, WriterAhead, RecordOK

LEMMA EncodeFilterTInv ==
    ASSUME TInv, EncodeFilter
    PROVE  TInv'
<1>1. mi' \in Slots
  BY DEF EncodeFilter, TInv, STypeOK, Slots
<1>2. menc' \in [Slots -> Filter] /\ \A i \in Slots : menc'[i].size <= MaxFilterSize
  BY DEF EncodeFilter, TInv, STypeOK, TypeOK, RecordOK
<1>. QED BY <1>1, <1>2 DEF EncodeFilter, TInv, STypeOK, TypeOK, WriterAhead, RecordOK

LEMMA WriteSnapshotTInv ==
    ASSUME TInv, WriteSnapshot
    PROVE  TInv'
<1>1. SnapshotRecord \in Record
  BY DEF SnapshotRecord, Record, TInv, STypeOK, TypeOK
<1>2. SnapshotRecord # NoRecord => SnapshotRecord.height \in 0 .. NumBlocks
      /\ \A i \in Slots : SnapshotRecord.filters[i].size <= MaxFilterSize
  BY DEF SnapshotRecord, TInv, STypeOK, RecordOK
<1>. QED BY <1>1, <1>2 DEF WriteSnapshot, TInv, STypeOK, TypeOK, WriterAhead, RecordOK

LEMMA StorePreHeightTInv ==
    ASSUME TInv, StorePreHeight
    PROVE  TInv'
<1>1. preHeight' = height /\ mpc' = "idle"
      /\ UNCHANGED <<filters, currentIndex, height, wpc, wblock, wpos, mi, menc, wal>>
  BY DEF StorePreHeight
<1>2. STypeOK'
  BY <1>1 DEF TInv, STypeOK, TypeOK, WriterAhead
<1>3. height \in Nat
  BY HeightsAssumption DEF TInv, STypeOK, TypeOK
<1>4. WriterAhead'
  BY <1>1, <1>3 DEF TInv, WriterAhead
<1>5. RecordOK'
  BY <1>1 DEF TInv, RecordOK
<1>. QED BY <1>2, <1>4, <1>5 DEF TInv

LEMMA CrashRestartTInv ==
    ASSUME TInv, CrashRestart
    PROVE  TInv'
<1>1. height' \in 0 .. NumBlocks /\ TypeOK'
  <2>1. CASE wal = NoRecord
    <3>1. filters' = [i \in Slots |-> NewCuckooFilter] /\ currentIndex' = 0 /\ height' = 0
      BY <2>1 DEF CrashRestart
    <3>2. NewCuckooFilter \in Filter /\ NewCuckooFilter.size <= MaxFilterSize
      BY DEF NewCuckooFilter, Filter, MaxFilterSize
    <3>3. 0 \in Slots /\ 0 \in Heights \cup {0} /\ 0 \in 0 .. NumBlocks
      BY BlocksFacts DEF Slots
    <3>. QED BY <3>1, <3>2, <3>3 DEF TypeOK
  <2>2. CASE wal # NoRecord
    <3>1. wal \in Record
      BY <2>2 DEF TInv, STypeOK
    <3>2. wal.height \in 0 .. NumBlocks /\ \A i \in Slots : wal.filters[i].size <= MaxFilterSize
      BY <2>2 DEF TInv, RecordOK
    <3>3. wal.height \in Heights \cup {0}
      BY <3>2, BlocksFacts
    <3>4. filters' = wal.filters /\ currentIndex' = wal.currentIndex /\ height' = wal.height
      BY <2>2 DEF CrashRestart
    <3>. QED BY <3>1, <3>2, <3>3, <3>4 DEF TypeOK, Record
  <2>. QED BY <2>1, <2>2
<1>2. 0 \in Slots
  BY DEF Slots
<1>3. /\ preHeight' = 0 /\ wpc' = "add" /\ wpos' = 1
      /\ mpc' = "idle" /\ mi' = 0 /\ UNCHANGED <<menc, wal>>
  BY DEF CrashRestart
<1>4. NumBlocks \in Nat
  BY BlocksFacts
<1>5. height' < wblock' /\ wblock' \in 1 .. NumBlocks + 1
  <2>1. \A h \in 0 .. NumBlocks : h < h + 1 /\ h + 1 \in 1 .. NumBlocks + 1
    BY <1>4
  <2>2. height' \in 0 .. NumBlocks /\ wblock' = height' + 1
    BY <1>1 DEF CrashRestart
  <2>. QED BY <2>1, <2>2, Zenon
<1>6. STypeOK'
  BY <1>1, <1>2, <1>3, <1>4, <1>5 DEF TInv, STypeOK
<1>7. WriterAhead'
  BY <1>1, <1>3, <1>5 DEF WriterAhead
<1>8. RecordOK'
  BY <1>3 DEF TInv, RecordOK
<1>. QED BY <1>6, <1>7, <1>8 DEF TInv

LEMMA TInvStep == TInv /\ [SNext]_allVars => TInv'
<1>. SUFFICES ASSUME TInv, [SNext]_allVars PROVE TInv'
  OBVIOUS
<1>1. CASE UNCHANGED allVars
  BY <1>1 DEF allVars, TInv, STypeOK, TypeOK, WriterAhead, RecordOK
<1>. QED BY <1>1, WriterAddTInv, WriterSetHeightTInv, ReceiveTInv, EncodeFilterTInv,
            WriteSnapshotTInv, StorePreHeightTInv, CrashRestartTInv DEF SNext

LEMMA TInvInvariant == SSpec => []TInv
<1>1. SInit => TInv
  BY SInitTInv
<1>. QED BY <1>1, TInvStep, PTL DEF SSpec

(* The writer, the serialization monitor, the snapshot log and restarts  *)
(* keep every variable in its type, the filters within capacity and the  *)
(* recorded heights within the chain (STypeOK), for every constant.       *)
THEOREM SerializeTypeCorrect == SSpec => []STypeOK
BY TInvInvariant, PTL DEF TInv

-----------------------------------------------------------------------------
(* An Add only puts its own key into the ring: a reset filter loses its   *)
(* keys, and the current one gains k.                                      *)
LEMMA AddKeysBound ==
    ASSUME TypeOK, NEW k \in Keys, Add(k)
    PROVE  \A j \in Slots : filters'[j].keys \subseteq filters[j].keys \cup {k}
<1>. DEFINE rotate == FullStrategyRotates
            idx == IF rotate THEN NextIndex ELSE currentIndex
            f == IF rotate THEN NewCuckooFilter ELSE filters[currentIndex]
<1>1. idx \in Slots /\ f \in Filter
  BY SMT DEF TypeOK, NextIndex, Slots, NewCuckooFilter, Filter
<1>2. f.keys \subseteq filters[idx].keys
  BY DEF NewCuckooFilter
<1>3. PICK kick \in BOOLEAN : filters' = [filters EXCEPT ![idx] = CuckooAdd(f, k, kick)]
  BY DEF Add
<1>4. CuckooAdd(f, k, kick).keys = f.keys \cup {k}
  BY <1>1, CuckooAddKeys
<1>. QED BY <1>1, <1>2, <1>3, <1>4 DEF TypeOK

(* The key the writer adds is not in a block up to preHeight: its block  *)
(* is above height, and height is not below preHeight.                    *)
LEMMA FreshKey ==
    ASSUME UniqueBlocks, TInv, wpc = "add",
           NEW b \in 1 .. NumBlocks, b = wblock, NEW p \in 1 .. Len(Blocks[b])
    PROVE  Blocks[b][p] \notin KeysUpTo(preHeight)
<1>1. preHeight < b /\ preHeight \in Nat
  BY BlocksFacts DEF TInv, WriterAhead, STypeOK, TypeOK
<1>. SUFFICES ASSUME NEW c \in 1 .. preHeight, NEW j \in DOMAIN Blocks[c],
                     Blocks[c][j] = Blocks[b][p]
              PROVE  FALSE
  BY DEF KeysUpTo
<1>2. c # b /\ c \in 1 .. NumBlocks /\ p \in DOMAIN Blocks[b]
  BY <1>1, BlocksFacts DEF TInv, WriterAhead, STypeOK
<1>. QED BY <1>2 DEF UniqueBlocks

LEMMA WriterAddCover ==
    ASSUME UniqueBlocks, TInv, EncodedCover, WriterAdd
    PROVE  EncodedCover'
<1>. DEFINE k == Blocks[wblock][wpos]
<1>1. /\ wpc = "add" /\ wblock \in 1 .. NumBlocks /\ wpos \in 1 .. Len(Blocks[wblock])
      /\ Add(k)
  BY BlocksFacts DEF WriterAdd, TInv, STypeOK, WriterAhead
<1>2. k \in Keys
  BY <1>1, BlocksFacts
<1>3. k \notin KeysUpTo(preHeight)
  BY <1>1, FreshKey
<1>4. \A j \in Slots : filters'[j].keys \subseteq filters[j].keys \cup {k}
  BY <1>1, <1>2, AddKeysBound DEF TInv, STypeOK
<1>5. preHeight' = preHeight /\ mpc' = mpc /\ mi' = mi /\ menc' = menc
  BY DEF WriterAdd
<1>. QED BY <1>3, <1>4, <1>5 DEF EncodedCover

LEMMA EncodeFilterCover ==
    ASSUME TInv, EncodedCover, EncodeFilter
    PROVE  EncodedCover'
<1>1. /\ mpc = "encode" /\ mi \in Slots
      /\ menc' = [menc EXCEPT ![mi] = filters[mi]]
      /\ filters' = filters /\ preHeight' = preHeight
      /\ IF mi = Length THEN mpc' = "write" /\ mi' = mi ELSE mi' = mi + 1 /\ mpc' = mpc
  BY DEF EncodeFilter, TInv, STypeOK
<1>2. menc \in [Slots -> Filter]
  BY DEF TInv, STypeOK
<1>. SUFFICES ASSUME NEW j \in Slots, mpc' = "write" \/ j < mi'
              PROVE  filters'[j].keys \cap KeysUpTo(preHeight') \subseteq menc'[j].keys
  BY <1>1 DEF EncodedCover
<1>3. CASE j = mi
  BY <1>1, <1>2, <1>3
<1>4. CASE j # mi
  <2>1. j < mi
    BY <1>1, <1>4, SMT DEF Slots
  <2>2. menc'[j] = menc[j]
    BY <1>1, <1>2, <1>4
  <2>. QED BY <1>1, <2>1, <2>2 DEF EncodedCover
<1>. QED BY <1>3, <1>4

LEMMA OtherCover ==
    ASSUME TInv, EncodedCover,
           WriterSetHeight \/ ReceiveHeight \/ ReceiveTimed \/ WriteSnapshot
           \/ StorePreHeight \/ CrashRestart \/ UNCHANGED allVars
    PROVE  EncodedCover'
<1>1. CASE WriterSetHeight
  BY <1>1 DEF WriterSetHeight, EncodedCover
<1>2. CASE ReceiveHeight \/ ReceiveTimed
  <2>1. mpc' = "idle" \/ (mpc' = "encode" /\ mi' = 0)
    BY <1>2 DEF ReceiveHeight, ReceiveTimed, StartSerialize
  <2>. QED BY <2>1, SMT DEF EncodedCover, Slots
<1>3. CASE WriteSnapshot \/ StorePreHeight \/ CrashRestart
  BY <1>3 DEF WriteSnapshot, StorePreHeight, CrashRestart, EncodedCover
<1>4. CASE UNCHANGED allVars
  BY <1>4 DEF allVars, EncodedCover
<1>. QED BY <1>1, <1>2, <1>3, <1>4

LEMMA SInvStep ==
    ASSUME UniqueBlocks
    PROVE  SInv /\ [SNext]_allVars => SInv'
<1>. SUFFICES ASSUME SInv, [SNext]_allVars PROVE SInv'
  OBVIOUS
<1>1. TInv'
  BY TInvStep DEF SInv
<1>2. EncodedCover'
  BY WriterAddCover, EncodeFilterCover, OtherCover DEF SInv, SNext
<1>. QED BY <1>1, <1>2 DEF SInv

(* A snapshot holds every key of the blocks up to the height it records   *)
(* that is still in the ring when it is written (SnapshotCoversLiveKeys), *)
(* for every ring length, capacity, block list, interval and snapshot     *)
(* type, although Serialize reads the filters while the writer adds and   *)
(* rotates, writes may fail and the process may crash anywhere.           *)
THEOREM SnapshotCoverage ==
    ASSUME UniqueBlocks
    PROVE  SSpec => SnapshotCoversLiveKeys
<1>1. SInit => SInv
  <2>. SUFFICES ASSUME SInit PROVE SInv
    OBVIOUS
  <2>. QED BY SInitTInv DEF SInit, SInv, EncodedCover
<1>2. SInv /\ [SNext]_allVars
        => [mpc = "write" /\ wal' # wal =>
              \A k \in KeysUpTo(wal'.height) \cap RingKeys :
                 \E i \in Slots : k \in wal'.filters[i].keys]_allVars
  <2>. SUFFICES ASSUME SInv, [SNext]_allVars, mpc = "write", wal' # wal,
                       NEW k \in KeysUpTo(wal'.height) \cap RingKeys
                PROVE  \E i \in Slots : k \in wal'.filters[i].keys
    OBVIOUS
  <2>1. wal' = SnapshotRecord
    BY DEF SNext, allVars, WriterAdd, WriterSetHeight, ReceiveHeight, ReceiveTimed,
           EncodeFilter, StorePreHeight, CrashRestart, WriteSnapshot
  <2>2. PICK j \in Slots : k \in filters[j].keys
    BY DEF RingKeys
  <2>3. k \in KeysUpTo(preHeight)
    BY <2>1 DEF SnapshotRecord
  <2>4. k \in menc[j].keys
    BY <2>2, <2>3 DEF SInv, EncodedCover
  <2>. QED BY <2>1, <2>4 DEF SnapshotRecord
<1>. QED BY <1>1, <1>2, SInvStep, PTL DEF SSpec, SnapshotCoversLiveKeys
=============================================================================
