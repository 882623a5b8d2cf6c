-------------------------------- MODULE Trail --------------------------------
(***************************************************************************)
(* The trail: append-only segment files with a hash chain, the crash       *)
(* recovery of the file, the replay that rebuilds the runtime's state      *)
(* (optionally from a system snapshot), and the index of positions.        *)
(*                                                                         *)
(* A segment file is a sequence of frames.  A frame is an entry with its   *)
(* chain hash, or the bytes a write left when it stopped half way.  Sizes  *)
(* and offsets count frames.  The hash of an entry is the sequence of all  *)
(* events it chains, which is what a collision-free SHA-256 identifies.    *)
(* The writer (not part of the crate) hashes onto metadata().chain_head.   *)
(* A frame also carries its position in the log, and the process whether   *)
(* one of its appends failed, for the properties.                          *)
(***************************************************************************)
EXTENDS Naturals, Sequences, FiniteSets, SequencesExt, FiniteSetsExt

CONSTANTS
  Workspaces, Tasks, Envelopes,   \* identifiers in events
  WsStates, TaskStates,           \* state names in events, known or not
  KnownStates,                    \* names the two parse functions accept
  SegmentMax,                     \* max_segment_size, in frames
  MaxLog, MaxCrashes, MaxFaults   \* bounds: entries, crashes, failed writes

ASSUME TrailAssumption == SegmentMax \in Nat \ {0} /\ MaxLog \in Nat

VARIABLES
  segs,      \* hot segment files: id -> frames
  proc,      \* the open FileTrailStorage, or Down
  log,       \* every event whose entry was completely written, in order
  muddled,   \* an append followed a failed one in the same process
  snaps,     \* system snapshot files: sequence -> state or Torn
  rows,      \* the TrailIndex table
  rec,       \* the outcome of the last recovery
  crashes, faults

trailVars == <<segs, proc, log, muddled, snaps, rows, rec, crashes, faults>>

Down == [up |-> FALSE]
Torn == [torn |-> TRUE]
Genesis == <<>>

\* What f says, and where it says nothing, g.
Over(f, g) == [x \in DOMAIN f \cup DOMAIN g |-> IF x \in DOMAIN f THEN f[x] ELSE g[x]]
Only(f, S) == [x \in DOMAIN f \cap S |-> f[x]]
Put(f, x, v) == Over([y \in {x} |-> v], f)

Event ==
  [type : {"ws"}, id : Workspaces, new : WsStates]
  \cup [type : {"task"}, id : Tasks, new : TaskStates]
  \cup [type : {"created", "delivered"}, id : Envelopes]

Frame(event, hash, pos) == [event |-> event, hash |-> hash, pos |-> pos]
Partial(swallows) == [partial |-> swallows]
IsPartial(f) == "partial" \in DOMAIN f
Garbage == Frame([type |-> "garbage"], <<[type |-> "garbage"], [type |-> "noise"]>>, 0)

\* compute_chain_hash
ChainHash(previous, event) == Append(previous, event)

\* verify_chain: every entry hashes onto the stored hash of the one before.
VerifyChain(frames) ==
  \A i \in 1..Len(frames) :
    frames[i].hash = ChainHash(IF i = 1 THEN Genesis ELSE frames[i - 1].hash,
                               frames[i].event)

\* Number of frames before the first partial one.
WholeFrames(frames) ==
  IF \E i \in 1..Len(frames) : IsPartial(frames[i])
  THEN Min({i \in 1..Len(frames) : IsPartial(frames[i])}) - 1
  ELSE Len(frames)

\* The length prefix of a partial frame claims bytes of what was appended
\* after it: the scan reads them as one entry, or runs past the end.
Swallows(frames) ==
  LET n == WholeFrames(frames)
  IN  n + 1 < Len(frames) /\ frames[n + 1].partial

\* scan_segment_file_from, from offset 0
ScanSegment(frames) ==
  SubSeq(frames, 1, WholeFrames(frames))
  \o (IF Swallows(frames) THEN <<Garbage>> ELSE <<>>)

\* truncate_partial_tail: cut after the last complete-looking entry.
TruncateTail(frames) == ScanSegment(frames)

\* The complete entries of segment n, if there is one.
Scanned(files, n) == IF n \in DOMAIN files THEN ScanSegment(files[n]) ELSE <<>>

\* list_segments, sorted: the complete entries of the segments below n, by n.
Below(files) ==
  LET upto[n \in Nat] == IF n = 0 THEN <<>> ELSE upto[n - 1] \o Scanned(files, n - 1)
  IN  upto

\* All complete entries of a set of segments, in id order.
Concat(files) == IF DOMAIN files = {} THEN <<>> ELSE Below(files)[Max(DOMAIN files) + 1]

\* FileTrailStorage::open
Open(files) ==
  IF DOMAIN files = {}
  THEN [up |-> TRUE, active |-> 0, size |-> 0, seq |-> 0, head |-> Genesis,
        fouled |-> FALSE]
  ELSE LET active == Max(DOMAIN files)
           all == Concat(files)
       IN  [up |-> TRUE, active |-> active, size |-> Len(files[active]),
            seq |-> Len(all),
            head |-> IF all = <<>> THEN Genesis ELSE Last(all).hash,
            fouled |-> FALSE]

\* Opening an empty directory creates segment 0.
OpenFiles(files) ==
  IF DOMAIN files = {} THEN Put(files, 0, <<>>) ELSE files

\* Mutant: opening for recovery keeps the partial tail.
Mutant_KeepTail(files) == files

\* FileTrailStorage::recover: truncate the last segment, then open.
RecoverFiles(files) ==
  IF DOMAIN files = {} THEN files
  ELSE [files EXCEPT ![Max(DOMAIN files)] = TruncateTail(@)]

---------------------------------------------------------------------------
\* RecoveryEngine

\* reconstruct_state for one kind of event: the last known name per id.
LastNew(events, type, ids) ==
  LET of(x) == {i \in 1..Len(events) : /\ events[i].type = type
                                       /\ events[i].id = x
                                       /\ events[i].new \in KnownStates}
  IN  [x \in {y \in ids : of(y) # {}} |-> events[Max(of(x))].new]

Replay(events) ==
  [ws |-> LastNew(events, "ws", Workspaces),
   tasks |-> LastNew(events, "task", Tasks)]

\* Mutant: the snapshot wins over the entries replayed after it.
Mutant_SnapshotWins(base, replayed) ==
  [ws |-> Over(base.ws, replayed.ws), tasks |-> Over(base.tasks, replayed.tasks)]

\* HashMap::extend: replayed names overwrite the ones of the snapshot.
Extend(base, replayed) ==
  [ws |-> Over(replayed.ws, base.ws), tasks |-> Over(replayed.tasks, base.tasks)]

\* detect_in_flight: over the whole trail, whatever the replay start.
DetectInFlight(events, start) ==
  LET seen(type) == {events[i].id : i \in {j \in 1..Len(events) : events[j].type = type}}
  IN  seen("created") \ seen("delivered")

\* FileSnapshotStorage::read_latest_system: the highest sequence only; a torn
\* file there is an error and recovery falls back to no snapshot.
LatestSnapshot ==
  IF DOMAIN snaps = {} \/ snaps[Max(DOMAIN snaps)] = Torn THEN {}
  ELSE {Max(DOMAIN snaps)}

\* collect_entries scans 0..=current_segment: one that left is an error.
Collectable(files, mem) == 0..mem.active \subseteq DOMAIN files

Refused(reason) == [result |-> reason]

\* recover_internal
RecoverState(files, mem, snap) ==
  LET all == Concat(files)
      events == [i \in 1..Len(all) |-> all[i].event]
      start == IF snap = {} THEN 0 ELSE Max(snap)
      base == IF snap = {} THEN Replay(<<>>) ELSE snaps[start]
  IN  IF mem.seq = 0
      THEN [result |-> "ok", state |-> base, seq |-> start, inflight |-> {}]
      ELSE IF ~Collectable(files, mem) THEN Refused("missing")
      ELSE IF ~VerifyChain(all) THEN Refused("corrupt")
      ELSE IF start > Len(events) THEN Refused("panic")
      ELSE [result |-> "ok",
            state |-> Extend(base, Replay(SubSeq(events, start + 1, Len(events)))),
            seq |-> mem.seq,
            inflight |-> DetectInFlight(events, start)]

---------------------------------------------------------------------------
TrailInit ==
  /\ segs = Put(<<>>, 0, <<>>) /\ proc = Open(<<>>)
  /\ log = <<>> /\ muddled = FALSE
  /\ snaps = <<>> /\ rows = {} /\ rec = Refused("none")
  /\ crashes = 0 /\ faults = 0

\* write_all of length, entry and hash, then sync_all
WrittenFiles(event) ==
  [segs EXCEPT ![proc.active] = 
     Append(@, Frame(event, ChainHash(proc.head, event), Len(log) + 1))]

\* TrailStorage::rotate: the next id, created empty.
Rotated(files, mem) ==
  [files |-> Put(files, mem.active + 1, <<>>),
   mem |-> [mem EXCEPT !.active = @ + 1, !.size = 0]]

\* Mutant: the receipt's sequence is taken before the counter moves.
Mutant_EarlySequence(mem, event) ==
  [sequence |-> mem.seq, segment |-> mem.active, offset |-> mem.size,
   event |-> event]

\* The WriteReceipt of an append, with the event it stands for.
Receipt(mem, event) ==
  [sequence |-> mem.seq + 1, segment |-> mem.active, offset |-> mem.size,
   event |-> event]

\* FileTrailStorage::append, and TrailIndex::insert of its receipt.
DoAppend(event) ==
  LET mem == [proc EXCEPT !.size = @ + 1, !.seq = @ + 1,
                          !.head = ChainHash(@, event)]
      r == Rotated(WrittenFiles(event), mem)
      full == mem.size >= SegmentMax
  IN  /\ proc.up /\ Len(log) < MaxLog
      /\ log' = Append(log, event)
      /\ muddled' = (muddled \/ proc.fouled)
      /\ segs' = IF full THEN r.files ELSE WrittenFiles(event)
      /\ proc' = IF full THEN r.mem ELSE mem
      /\ rows' = IF \E row \in rows : row.sequence = mem.seq THEN rows
                 ELSE rows \cup {Receipt(proc, event)}
      /\ UNCHANGED <<snaps, rec, crashes, faults>>

\* An append stops half way with an I/O error; the process goes on.
AppendFails(swallows) ==
  /\ proc.up /\ faults < MaxFaults
  /\ segs' = [segs EXCEPT ![proc.active] = Append(@, Partial(swallows))]
  /\ faults' = faults + 1
  /\ muddled' = (muddled \/ proc.fouled)
  /\ proc' = [proc EXCEPT !.fouled = TRUE]
  /\ UNCHANGED <<log, snaps, rows, rec, crashes>>

Crash ==
  /\ proc.up /\ crashes < MaxCrashes
  /\ proc' = Down /\ crashes' = crashes + 1

\* A crash outside an append.
CrashIdle == Crash /\ UNCHANGED <<segs, log, muddled, snaps, rows, rec, faults>>

\* A crash in the middle of the writes of an append.
CrashInAppend ==
  /\ Crash
  /\ segs' = [segs EXCEPT ![proc.active] = Append(@, Partial(FALSE))]
  /\ muddled' = (muddled \/ proc.fouled)
  /\ UNCHANGED <<log, snaps, rows, rec, faults>>

\* A crash after the write, before the rotation, the receipt and the index.
CrashAfterWrite(event) ==
  /\ Len(log) < MaxLog /\ Crash
  /\ segs' = WrittenFiles(event) /\ log' = Append(log, event)
  /\ muddled' = (muddled \/ proc.fouled)
  /\ UNCHANGED <<snaps, rows, rec, faults>>

\* FileSnapshotStorage::write_system of the state at the current sequence.
WriteSnapshot ==
  /\ proc.up
  /\ snaps' = Put(snaps, proc.seq, Replay(log))
  /\ UNCHANGED <<segs, proc, log, muddled, rows, rec, crashes, faults>>

\* fs::write is not atomic: a crash leaves a file that fails its checksum.
CrashInSnapshot ==
  /\ Crash
  /\ snaps' = Put(snaps, proc.seq, Torn)
  /\ UNCHANGED <<segs, log, muddled, rows, rec, faults>>

\* Runtime start: FileTrailStorage::recover, then the recovery engine with or
\* without snapshots; the process comes up only when both succeed.
Restart(useSnapshot) ==
  LET files == RecoverFiles(segs)
      mem == Open(files)
      r == RecoverState(OpenFiles(files), mem,
                        IF useSnapshot THEN LatestSnapshot ELSE {})
  IN  /\ ~proc.up
      /\ segs' = OpenFiles(files)
      /\ rec' = r
      /\ proc' = IF r.result = "ok" THEN mem ELSE Down
      /\ UNCHANGED <<log, muddled, snaps, rows, crashes, faults>>

TrailNext ==
  \/ \E e \in Event : DoAppend(e) \/ CrashAfterWrite(e)
  \/ \E b \in BOOLEAN : AppendFails(b) \/ Restart(b)
  \/ CrashIdle \/ CrashInAppend \/ WriteSnapshot \/ CrashInSnapshot

---------------------------------------------------------------------------
\* Properties.  Tiering moves segments away: the statements about recovery
\* are for trails whose segments are all hot, which is what it supports.
AllHot == DOMAIN segs = 0..(Cardinality(DOMAIN segs) - 1)

\* Every completely written entry is still there, in order, after any crash
\* in the middle of an append and the truncation that follows, unless an
\* append followed a failed one in the same process.
WrittenSurvives ==
  (AllHot /\ ~muddled) =>
     [i \in 1..Len(Concat(segs)) |-> Concat(segs)[i].event] = log

\* Recovery is never refused and never slices past the end, and what it
\* rebuilds is what the whole trail says: the state, the envelopes in flight
\* and the sequence, whichever snapshot (good, torn, absent) it started from.
RecoveryExact ==
  [][ ~proc.up /\ <<proc, rec>>' # <<proc, rec>> /\ AllHot /\ ~muddled =>
        /\ rec'.result = "ok"
        /\ rec'.state = Replay(log)
        /\ rec'.inflight = DetectInFlight(log, 0)
        /\ rec'.seq = Len(log)
        /\ proc'.seq = Len(log) ]_trailVars

\* A row of the index leads to the entry it was written for: its sequence is
\* the position in the trail and its segment and offset hold that event.
IndexPointsAtEntry ==
  (AllHot /\ ~muddled) =>
    \A row \in rows :
      /\ row.sequence \in 1..Len(log) /\ log[row.sequence] = row.event
      /\ segs[row.segment][row.offset + 1].event = row.event
=============================================================================
