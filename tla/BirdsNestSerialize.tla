------------------------- MODULE BirdsNestSerialize -------------------------
(***************************************************************************)
(* The bird's nest with its persistence (src/birdsnest/serialize.go,       *)
(* snapshot.go): three goroutines share one BirdsNestImpl.                 *)
(*   - the writer calls AddsAndSetHeight(Blocks[b], b) for b = 1, 2, ...:  *)
(*     Add key by key, then SetHeight, whose serializeHeight sends on the  *)
(*     unbuffered serializeC;                                              *)
(*   - serializeTimed sends a timed signal on each tick (Timed snapshots); *)
(*   - serializeMonitor receives a signal, debounces height signals        *)
(*     against preHeight and runs Serialize, which encodes the filters one *)
(*     by one, reads currentIndex and preHeight, writes the record to the  *)
(*     write-ahead log and stores the height in preHeight.  Serialize      *)
(*     takes no lock against the writer.                                   *)
(* The process may crash at any point; the restarted process runs          *)
(* NewBirdsNestByNumber, whose Deserialize loads the last record, and the  *)
(* node replays the blocks above the restored height.                      *)
(***************************************************************************)
EXTENDS BirdsNest, Sequences

CONSTANTS
    Blocks,        \* Blocks[b]: the keys of block b, in order
    SnapshotType,  \* config.Snapshot.Type
    Interval       \* config.Snapshot.BlockHeight.Interval

ASSUME SerializeAssumption ==
    /\ Blocks \in Seq(Seq(Keys))
    /\ SnapshotType \in {"Height", "Timed"}
    /\ Interval \in Nat
    /\ 1 .. Len(Blocks) \subseteq Heights

VARIABLES
    preHeight,     \* b.preHeight: the height stored by the last Serialize
    wpc,           \* writer: "add" (inside Adds) or "send" (blocked in serializeHeight)
    wblock,        \* the block the writer is at
    wpos,          \* the position in Blocks[wblock] of the next key to add
    mpc,           \* monitor: "idle", "encode", "write" or "store"
    mi,            \* the next filter analysisCuckooFilters encodes
    menc,          \* the filters encoded so far
    wal            \* the last record of the log, or NoRecord

serVars == <<preHeight, wpc, wblock, wpos, mpc, mi, menc, wal>>
allVars == <<filters, currentIndex, height, preHeight, wpc, wblock, wpos,
             mpc, mi, menc, wal>>

NoRecord == [none |-> TRUE]

NumBlocks == Len(Blocks)

(* The record of common.BirdsNest that Serialize marshals. *)
Record == [filters : [Slots -> Filter], currentIndex : Slots, height : Nat]

-----------------------------------------------------------------------------
SInit ==
    /\ Init
    /\ preHeight = 0
    /\ wpc = "add" /\ wblock = 1 /\ wpos = 1
    /\ mpc = "idle" /\ mi = 0 /\ menc = [i \in Slots |-> NewCuckooFilter]
    /\ wal = NoRecord

(* Adds, one key: BirdsNestImpl.Add (birdsnest.go:128-147).  A key whose   *)
(* extension Store fails is in the filter, but Adds returns the error at   *)
(* once and AddsAndSetHeight returns without SetHeight; the node goes on   *)
(* with the next block.                                                    *)
WriterAdd ==
    /\ wpc = "add" /\ wblock <= NumBlocks /\ wpos <= Len(Blocks[wblock])
    /\ LET k == Blocks[wblock][wpos] IN
       /\ Add(k)
       /\ IF KeyType = "KTTimestampKey" /\ ~ParseOk(k)
             THEN wblock' = wblock + 1 /\ wpos' = 1
             ELSE wpos' = wpos + 1 /\ UNCHANGED wblock
    /\ UNCHANGED <<preHeight, wpc, mpc, mi, menc, wal>>

(* SetHeight at the end of AddsAndSetHeight (birdsnest.go:101-114): the    *)
(* height is set, then serializeHeight (serialize.go:131-136) blocks on    *)
(* serializeC when snapshots are by height.                                *)
WriterSetHeight ==
    /\ wpc = "add" /\ wblock <= NumBlocks /\ wpos > Len(Blocks[wblock])
    /\ height' = wblock
    /\ IF SnapshotType = "Height"
          THEN wpc' = "send" /\ UNCHANGED <<wblock, wpos>>
          ELSE wblock' = wblock + 1 /\ wpos' = 1 /\ UNCHANGED wpc
    /\ UNCHANGED <<filters, currentIndex, preHeight, mpc, mi, menc, wal>>

(* Serialize starts (serialize.go:55-63).                                 *)
StartSerialize ==
    /\ mpc' = "encode" /\ mi' = 0

(* serializeMonitor (serialize.go:24-52) takes the height signal off      *)
(* serializeC, releasing the writer, and drops it when height - preHeight *)
(* < Interval (the height read now, not the signal's).                    *)
ReceiveHeight ==
    /\ mpc = "idle" /\ wpc = "send"
    /\ wpc' = "add" /\ wblock' = wblock + 1 /\ wpos' = 1
    /\ IF height - preHeight < Interval
          THEN UNCHANGED <<mpc, mi>>
          ELSE StartSerialize
    /\ UNCHANGED <<filters, currentIndex, height, preHeight, menc, wal>>

(* serializeTimed (serialize.go:112-125) sends a timed signal on a tick,  *)
(* which the monitor serializes unconditionally.                          *)
ReceiveTimed ==
    /\ mpc = "idle" /\ SnapshotType = "Timed"
    /\ StartSerialize
    /\ UNCHANGED <<filters, currentIndex, height, preHeight, wpc, wblock, wpos, menc, wal>>

(* analysisCuckooFilters (birdsnest.go:210-224) encodes filter mi as it   *)
(* is now; the writer may add and rotate between two filters.             *)
EncodeFilterMutant ==
    /\ mpc = "encode"
    /\ menc' = [menc EXCEPT ![mi] = filters[mi]]
    /\ IF mi = Length + 1 THEN mpc' = "write" /\ UNCHANGED mi
                          ELSE mi' = mi + 1 /\ UNCHANGED mpc
    /\ UNCHANGED <<filters, currentIndex, height, preHeight, wpc, wblock, wpos, wal>>

EncodeFilter ==
    /\ mpc = "encode"
    /\ menc' = [menc EXCEPT ![mi] = filters[mi]]
    /\ IF mi = Length THEN mpc' = "write" /\ UNCHANGED mi
                      ELSE mi' = mi + 1 /\ UNCHANGED mpc
    /\ UNCHANGED <<filters, currentIndex, height, preHeight, wpc, wblock, wpos, wal>>

(* The record pairs the encoded filters with currentIndex read after them *)
(* and with preHeight (serialize.go:67-72).                                *)
SnapshotRecordMutant == [filters |-> menc, currentIndex |-> currentIndex, height |-> height]
SnapshotRecord == [filters |-> menc, currentIndex |-> currentIndex, height |-> preHeight]

(* WalSnapshot.Write (snapshot.go:68-85): under the snapshot mutex the    *)
(* record is appended at LastIndex + 1 and the log truncated to it.  An    *)
(* error of LastIndex or of the append leaves the log as it was; an error  *)
(* of TruncateFront comes after the record is durable, and Read returns    *)
(* the last index.  Either error is logged by the monitor and Serialize    *)
(* returns before storing preHeight.                                       *)
WriteSnapshot ==
    /\ mpc = "write"
    /\ \/ wal' = SnapshotRecord /\ mpc' = "store"
       \/ wal' = SnapshotRecord /\ mpc' = "idle"
       \/ mpc' = "idle" /\ UNCHANGED wal
    /\ UNCHANGED <<filters, currentIndex, height, preHeight, wpc, wblock, wpos, mi, menc>>

(* A monitor that never gets back to its receive after the store. *)
StorePreHeightMutant ==
    /\ mpc = "store"
    /\ preHeight' = height
    /\ UNCHANGED <<filters, currentIndex, height, wpc, wblock, wpos, mpc, mi, menc, wal>>

(* preHeight.Store(b.height) (serialize.go:81). *)
StorePreHeight ==
    /\ mpc = "store"
    /\ preHeight' = height /\ mpc' = "idle"
    /\ UNCHANGED <<filters, currentIndex, height, wpc, wblock, wpos, mi, menc, wal>>

(* The process stops at any point and a new one runs NewBirdsNestByNumber *)
(* (birdsnest.go:59-93): Deserialize (serialize.go:85-110) loads filters, *)
(* height and currentIndex of the last record, preHeight starts at 0, and *)
(* the node replays the blocks above the restored height.                 *)
CrashRestart ==
    /\ IF wal = NoRecord
          THEN /\ filters' = [i \in Slots |-> NewCuckooFilter]
               /\ currentIndex' = 0 /\ height' = 0
          ELSE /\ filters' = wal.filters
               /\ currentIndex' = wal.currentIndex
               /\ height' = wal.height
    /\ preHeight' = 0
    /\ wpc' = "add" /\ wblock' = height' + 1 /\ wpos' = 1
    /\ mpc' = "idle" /\ mi' = 0
    /\ UNCHANGED <<menc, wal>>

SNext ==
    \/ WriterAdd \/ WriterSetHeight
    \/ ReceiveHeight \/ ReceiveTimed \/ EncodeFilter \/ WriteSnapshot \/ StorePreHeight
    \/ CrashRestart

SSpec == SInit /\ [][SNext]_allVars

(* The monitor goroutine is runnable whenever a signal waits on the      *)
(* unbuffered serializeC or Serialize has a next step, and the Go          *)
(* scheduler runs it: its steps are weakly fair.  The ticker, the writer   *)
(* and crashes are left unfair.                                            *)
SFairness ==
    /\ WF_allVars(ReceiveHeight)
    /\ WF_allVars(EncodeFilter)
    /\ WF_allVars(WriteSnapshot)
    /\ WF_allVars(StorePreHeight)

SFairSpec == SSpec /\ SFairness

-----------------------------------------------------------------------------
STypeOK ==
    /\ TypeOK
    /\ preHeight \in 0 .. NumBlocks
    /\ wpc \in {"add", "send"} /\ wblock \in 1 .. NumBlocks + 1
    /\ mpc \in {"idle", "encode", "write", "store"} /\ mi \in Slots
    /\ menc \in [Slots -> Filter]
    /\ wal \in Record \cup {NoRecord}

(* Keys still in the ring. *)
RingKeys == UNION {filters[i].keys : i \in Slots}

(* The keys of the blocks up to h. *)
KeysUpTo(h) == UNION {{Blocks[b][j] : j \in DOMAIN Blocks[b]} : b \in 1 .. h}

(* A snapshot keeps every key of the blocks up to the height it records   *)
(* that is still in the ring when it is written, although Serialize        *)
(* (serialize.go:55-83) encodes the filters one by one while the writer    *)
(* goes on adding and rotating, and records preHeight: every key in the    *)
(* ring then is in the record or in a block a restart replays.  It says    *)
(* nothing of the currentIndex recorded with the filters, which can come   *)
(* from after a rotation (RecordIsChainState, BirdsNestSerializeHistory),  *)
(* so it does not say that a restart loses nothing.                        *)
SnapshotCoversLiveKeys ==
    [][mpc = "write" /\ wal' # wal =>
         \A k \in KeysUpTo(wal'.height) \cap RingKeys :
            \E i \in Slots : k \in wal'.filters[i].keys]_allVars

(* SetHeight returns: the writer blocked in serializeHeight on the        *)
(* unbuffered serializeC (serialize.go:135) is released by the monitor,    *)
(* which comes back to its receive after every Serialize, failed or not.  *)
SetHeightReturns == wpc = "send" ~> wpc = "add"

(* The height a snapshot records never goes back: each write supersedes   *)
(* the last (spec.md 3, Snapshot) and a restart resumes from it.  After a *)
(* restart NewBirdsNestByNumber starts preHeight at 0 and Deserialize     *)
(* (serialize.go:85-110) does not restore it, so Serialize may record 0.  *)
SnapshotHeightMonotone ==
    [][wal # NoRecord /\ wal' # wal => wal'.height >= wal.height]_allVars
=============================================================================
