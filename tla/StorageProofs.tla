--------------------------- MODULE StorageProofs ----------------------------
(***************************************************************************)
(* Proofs about the clock, the checkpoint and snapshot files and the       *)
(* trail, for any number of nodes, payloads, snapshots, events and crashes *)
(* and any width of the logical counter, size of a segment and limit of a  *)
(* tier.                                                                   *)
(*                                                                         *)
(* The trail: StorageInv follows the frames through the tiers. FilesOk is  *)
(* the shape of the directories whatever they hold. While no append        *)
(* followed a failed one, half a frame is only at the end of the last hot  *)
(* file (HotOk), the files that left are whole, in order and before what   *)
(* is hot (MovedOk), and all positions of the log are held. A crash        *)
(* between the copy and the removal of a file leaves it in two tiers; only *)
(* the first segment can stay so, or else no restart succeeds (Stuck).     *)
(* While in addition all segments are hot, they read as the log, the       *)
(* process knows its end, and every index row and every snapshot that is   *)
(* not torn is true of it (WholeOk): that is what a restart reads, so it   *)
(* verifies, never slices past the end, and rebuilds the state of the log. *)
(*                                                                         *)
(* What the segments concatenate to is defined by recursion over their     *)
(* ids; facts about it, and about least and greatest numbers, are proved   *)
(* by taking the least number of a set (LeastNumber, SetInduction).        *)
(***************************************************************************)
EXTENDS Tiers, Clock, Blobs, FiniteSetTheorems, SequenceTheorems, WellFoundedInduction, TLAPS

-----------------------------------------------------------------------------
(* The clock                                                               *)

\* The counter grows until it saturates.
LEMMA BumpGrows ==
  ASSUME NEW l \in 0..LogicalMax
  PROVE  /\ Bump(l) \in 0..LogicalMax
         /\ \/ l < Bump(l)
            \/ l = LogicalMax /\ Bump(l) = LogicalMax
BY ClockAssumption DEF Bump

\* A stamp has two components within their widths.
LEMMA StampParts ==
  ASSUME NEW t \in Timestamp
  PROVE  t.physical \in Nat /\ t.logical \in 0..LogicalMax /\ t = Stamp(t.physical, t.logical)
BY DEF Timestamp, Stamp

\* Clock::now returns a stamp after the last one, or the last one again when
\* the counter is saturated.
LEMMA NowAdvances ==
  ASSUME ClockTypeOK, NEW n \in Nodes
  PROVE  /\ NowStamp(n) \in Timestamp
         /\ NowStamp(n) = last[n] \/ Before(last[n], NowStamp(n))
<1> DEFINE p == last[n].physical
           l == last[n].logical
<1>1. p \in Nat /\ l \in 0..LogicalMax /\ last[n] = Stamp(p, l)
  BY StampParts DEF ClockTypeOK
<1>2. wall[n] \in Nat
  BY ClockAssumption DEF ClockTypeOK
<1>3. Bump(l) \in 0..LogicalMax /\ (l < Bump(l) \/ Bump(l) = l)
  BY <1>1, BumpGrows
<1>4. CASE wall[n] > p
  BY <1>1, <1>2, <1>4, ClockAssumption DEF NowStamp, Before, Stamp, Timestamp
<1>5. CASE ~(wall[n] > p)
  BY <1>1, <1>3, <1>5 DEF NowStamp, Before, Stamp, Timestamp
<1> QED
  BY <1>4, <1>5

\* Clock::recv returns a stamp that is not behind the last one and not behind
\* the received one; either may only be equal with the counter saturated.
LEMMA RecvAdvances ==
  ASSUME ClockTypeOK, NEW n \in Nodes, NEW t \in Timestamp
  PROVE  /\ RecvStamp(n, t) \in Timestamp
         /\ RecvStamp(n, t) = last[n] \/ Before(last[n], RecvStamp(n, t))
         /\ \/ Before(t, RecvStamp(n, t))
            \/ t = RecvStamp(n, t) /\ t.logical = LogicalMax
<1> DEFINE p == Larger(wall[n], Larger(last[n].physical, t.physical))
           a == last[n]
<1>1. /\ a.physical \in Nat /\ a.logical \in 0..LogicalMax /\ a = Stamp(a.physical, a.logical)
      /\ t.physical \in Nat /\ t.logical \in 0..LogicalMax /\ t = Stamp(t.physical, t.logical)
  BY StampParts DEF ClockTypeOK
<1>2. wall[n] \in Nat
  BY ClockAssumption DEF ClockTypeOK
<1>3. p \in Nat /\ p >= a.physical /\ p >= t.physical
  BY <1>1, <1>2 DEF Larger
<1>4. LogicalMax \in Nat
  BY ClockAssumption
<1>5. ASSUME NEW l \in 0..LogicalMax
      PROVE  /\ Stamp(p, l) \in Timestamp
             /\ p > a.physical \/ a.logical < l => Before(a, Stamp(p, l))
             /\ p > t.physical \/ t.logical < l => Before(t, Stamp(p, l))
  BY <1>1, <1>3 DEF Stamp, Before, Timestamp
<1>6. \A l \in 0..LogicalMax : Bump(l) \in 0..LogicalMax /\ (l < Bump(l) \/ (l = LogicalMax /\ Bump(l) = l))
  BY BumpGrows
<1>7. CASE p > a.physical /\ p > t.physical
  <2>1. RecvStamp(n, t) = Stamp(p, 0)
    BY <1>7 DEF RecvStamp
  <2> HIDE DEF p
  <2> QED
    BY <1>1, <1>3, <1>4, <1>7, <1>5, <2>1
<1>8. CASE p = a.physical /\ p = t.physical
  <2> DEFINE m == Larger(a.logical, t.logical)
  <2>1. RecvStamp(n, t) = Stamp(p, Bump(m))
    <3>1. ~(p > a.physical)
      BY <1>1, <1>8
    <3> QED
      BY <1>8, <3>1 DEF RecvStamp
  <2>2. m \in 0..LogicalMax /\ a.logical <= m /\ t.logical <= m
    BY <1>1, <1>4 DEF Larger
  <2>3. Bump(m) \in 0..LogicalMax /\ (m < Bump(m) \/ (m = LogicalMax /\ Bump(m) = m))
    BY <1>6, <2>2
  <2> HIDE DEF p, m
  <2>4. a.logical < Bump(m) \/ (a.logical = LogicalMax /\ Bump(m) = LogicalMax)
    BY <1>1, <1>4, <2>2, <2>3
  <2>5. t.logical < Bump(m) \/ (t.logical = LogicalMax /\ Bump(m) = LogicalMax)
    BY <1>1, <1>4, <2>2, <2>3
  <2> QED
    BY <1>1, <1>5, <1>8, <2>1, <2>3, <2>4, <2>5
<1>9. CASE p = a.physical /\ p > t.physical
  <2>1. RecvStamp(n, t) = Stamp(p, Bump(a.logical))
    <3>1. ~(p > a.physical) /\ p # t.physical
      BY <1>1, <1>3, <1>9
    <3> QED
      BY <1>9, <3>1 DEF RecvStamp
  <2> HIDE DEF p
  <2> QED
    BY <1>1, <1>5, <1>6, <1>9, <2>1
<1>10. CASE p > a.physical /\ p = t.physical
  <2>1. RecvStamp(n, t) = Stamp(p, Bump(t.logical))
    <3>1. ~(p > t.physical) /\ p # a.physical
      BY <1>1, <1>3, <1>10
    <3> QED
      BY <1>10, <3>1 DEF RecvStamp
  <2> HIDE DEF p
  <2> QED
    BY <1>1, <1>5, <1>6, <1>10, <2>1
<1> HIDE DEF p
<1> QED
  BY <1>1, <1>3, <1>7, <1>8, <1>9, <1>10

\* The clock restarted from the trail is not in an earlier microsecond.
LEMMA RecoverAdvances ==
  ASSUME ClockTypeOK, NEW n \in Nodes
  PROVE  /\ RecoveredStamp(n) \in Timestamp
         /\ Before(last[n], RecoveredStamp(n)) \/ RecoveredStamp(n).physical = last[n].physical
<1>1. last[n].physical \in Nat /\ last[n].logical \in 0..LogicalMax
  BY StampParts DEF ClockTypeOK
<1> QED
  BY <1>1, ClockAssumption DEF RecoveredStamp, Succ, Stamp, Before, Timestamp

\* What a step does to the stamps of every node, with the types it keeps.
LEMMA ClockStep ==
  ASSUME ClockTypeOK, ClockNext
  PROVE  /\ ClockTypeOK'
         /\ \A n \in Nodes :
              \/ last'[n] = last[n] \/ Before(last[n], last'[n])
              \/ last'[n] = RecoveredStamp(n) /\ last'[n].physical = last[n].physical
<1>1. ASSUME NEW n \in Nodes, NEW t \in Timestamp, last' = [last EXCEPT ![n] = t], wall' = wall,
             sent' \subseteq Timestamp
      PROVE  ClockTypeOK' /\ last'[n] = t /\ \A m \in Nodes \ {n} : last'[m] = last[m]
  BY <1>1 DEF ClockTypeOK
<1>2. PICK n \in Nodes :
        \/ \E t \in 0..MaxPhysical : WallMoves(n, t)
        \/ Now(n) \/ Send(n) \/ Recover(n)
        \/ \E remote \in sent : Recv(n, remote)
  BY DEF ClockNext
<1>3. ASSUME NEW t \in 0..MaxPhysical, WallMoves(n, t)
      PROVE  ClockTypeOK' /\ last' = last
  BY <1>3 DEF WallMoves, ClockTypeOK
<1>4. CASE Now(n) \/ Send(n)
  <2>1. sent' \subseteq Timestamp /\ wall' = wall /\ last' = [last EXCEPT ![n] = NowStamp(n)]
    BY <1>4, NowAdvances DEF Now, Send, ClockTypeOK
  <2> QED
    BY <1>1, <2>1, NowAdvances
<1>5. CASE Recover(n)
  <2>1. sent' \subseteq Timestamp /\ wall' = wall /\ last' = [last EXCEPT ![n] = RecoveredStamp(n)]
    BY <1>5 DEF Recover, ClockTypeOK
  <2> QED
    BY <1>1, <2>1, RecoverAdvances
<1>6. ASSUME NEW remote \in sent, Recv(n, remote)
      PROVE  /\ ClockTypeOK'
             /\ \A m \in Nodes : last'[m] = last[m] \/ Before(last[m], last'[m])
  <2>1. remote \in Timestamp
    BY DEF ClockTypeOK
  <2>2. sent' \subseteq Timestamp /\ wall' = wall /\ last' = [last EXCEPT ![n] = RecvStamp(n, remote)]
    BY <1>6 DEF Recv, ClockTypeOK
  <2>3. /\ RecvStamp(n, remote) \in Timestamp
        /\ RecvStamp(n, remote) = last[n] \/ Before(last[n], RecvStamp(n, remote))
    BY <2>1, RecvAdvances
  <2> QED
    BY <1>1, <2>2, <2>3
<1> QED
  BY <1>2, <1>3, <1>4, <1>5, <1>6

\* Stamps are pairs of a microsecond and a counter within its width, wherever
\* the wall clocks jump.
THEOREM ClockTypeCorrect == ClockSpec => []ClockTypeOK
<1>1. ClockInit => ClockTypeOK
  BY ClockAssumption DEF ClockInit, ClockTypeOK, Timestamp, Zero
<1>2. ClockTypeOK /\ [ClockNext]_clockVars => ClockTypeOK'
  BY ClockStep DEF ClockTypeOK, clockVars
<1> QED
  BY <1>1, <1>2, PTL DEF ClockSpec

\* The stamps of wacp-clock respect the order of events, on a node (now, send
\* and recv never go back, a restart at most within the microsecond) and
\* between nodes (a receipt is after its message up to the saturation of the
\* counter).
THEOREM ClockRespectsCausality == ClockSpec => CausalOrder
<1>1. ClockTypeOK /\ [ClockNext]_clockVars =>
        [\A n \in Nodes :
           \/ last'[n] = last[n] \/ Before(last[n], last'[n])
           \/ last'[n] = RecoveredStamp(n) /\ last'[n].physical = last[n].physical]_clockVars
  BY ClockStep
<1>2. ClockTypeOK /\ [ClockNext]_clockVars =>
        [\A n \in Nodes, t \in sent :
           (last'[n] = RecvStamp(n, t) /\ last' # last) =>
              \/ Before(t, last'[n])
              \/ t = last'[n] /\ t.logical = LogicalMax]_clockVars
  <2> SUFFICES ASSUME ClockTypeOK, NEW n \in Nodes, NEW t \in sent, last'[n] = RecvStamp(n, t)
               PROVE  \/ Before(t, last'[n])
                      \/ t = last'[n] /\ t.logical = LogicalMax
    OBVIOUS
  <2>1. t \in Timestamp
    BY DEF ClockTypeOK
  <2> QED
    BY <2>1, RecvAdvances
<1> QED
  BY <1>1, <1>2, ClockTypeCorrect, PTL DEF ClockSpec, CausalOrder, ClockAdvances, RecvAfterSend

-----------------------------------------------------------------------------
(* The checkpoint store and the workspace snapshots                        *)

\* A file is whole or torn.
FilesTyped ==
  /\ \A p \in DOMAIN blobs : blobs[p] \in {"whole", "torn"}
  /\ \A w \in DOMAIN wsSnap : wsSnap[w] \in {"whole", "torn"}

BlobsInv == FilesTyped /\ BlobsMatchMemory

\* Each call, and each crash, keeps the files whole or torn and the two stores
\* in agreement.
LEMMA BlobsStep ==
  ASSUME BlobsInv, BlobsNext
  PROVE  BlobsInv'
<1> USE DEF BlobsInv, FilesTyped, BlobsMatchMemory
<1>1. ASSUME NEW p \in Payloads, Store(p)
      PROVE  BlobsInv'
  <2>1. CASE Exists(p)
    BY <1>1, <2>1 DEF Store, Exists
  <2>2. CASE ~Exists(p)
    BY <1>1, <2>2 DEF Store, Exists, Written
  <2> QED
    BY <2>1, <2>2
<1>2. ASSUME NEW p \in Payloads, CrashInStore(p)
      PROVE  BlobsInv'
  BY <1>2 DEF CrashInStore, Exists, Written
<1>3. ASSUME NEW p \in Payloads, Read(p)
      PROVE  BlobsInv'
  BY <1>3 DEF Read
<1>4. ASSUME NEW p \in Payloads, Delete(p)
      PROVE  BlobsInv'
  BY <1>4 DEF Delete
<1>5. ASSUME NEW w \in SnapIds, WriteWorkspace(w) \/ CrashInWorkspace(w)
      PROVE  BlobsInv'
  BY <1>5 DEF WriteWorkspace, CrashInWorkspace, Written
<1>6. ASSUME NEW w \in SnapIds, ReadWorkspace(w) \/ DeleteWorkspace(w)
      PROVE  BlobsInv'
  BY <1>6 DEF ReadWorkspace, DeleteWorkspace
<1> QED
  BY <1>1, <1>2, <1>3, <1>4, <1>5, <1>6 DEF BlobsNext

\* The verification on read lets through only what was written to the end.
LEMMA ReadsWhole ==
  ASSUME FilesTyped, BlobsNext, blobRead' # blobRead, blobRead'.result = "payload"
  PROVE  \/ blobRead'.of \in DOMAIN blobs /\ blobs[blobRead'.of] = "whole"
         \/ blobRead'.of \in DOMAIN wsSnap /\ wsSnap[blobRead'.of] = "whole"
<1>1. ASSUME NEW p \in Payloads, Read(p)
      PROVE  p = blobRead'.of /\ p \in DOMAIN blobs /\ blobs[p] = "whole"
  BY <1>1 DEF Read, Verified, Exists, FilesTyped
<1>2. ASSUME NEW w \in SnapIds, ReadWorkspace(w)
      PROVE  w = blobRead'.of /\ w \in DOMAIN wsSnap /\ wsSnap[w] = "whole"
  BY <1>2 DEF ReadWorkspace, Verified, FilesTyped
<1> QED
  BY <1>1, <1>2 DEF BlobsNext, Store, CrashInStore, Delete, WriteWorkspace, CrashInWorkspace, DeleteWorkspace

\* The stores of fs_checkpoint.rs and fs_snapshot.rs are honest: after any
\* calls and crashes the files agree with the in-memory store up to torn ones,
\* and a torn file is never served.
THEOREM StoresAreHonest == BlobsSpec => StoreHonest
<1>1. BlobsInit => BlobsInv
  BY DEF BlobsInit, BlobsInv, FilesTyped, BlobsMatchMemory
<1>2. BlobsInv /\ [BlobsNext]_blobVars => BlobsInv'
  BY BlobsStep DEF BlobsInv, FilesTyped, BlobsMatchMemory, blobVars
<1>3. BlobsInv /\ [BlobsNext]_blobVars =>
        [blobRead' # blobRead /\ blobRead'.result = "payload" =>
           \/ blobRead'.of \in DOMAIN blobs /\ blobs[blobRead'.of] = "whole"
           \/ blobRead'.of \in DOMAIN wsSnap /\ wsSnap[blobRead'.of] = "whole"]_blobVars
  BY ReadsWhole DEF BlobsInv
<1>4. BlobsInv => BlobsMatchMemory
  BY DEF BlobsInv
<1> QED
  BY <1>1, <1>2, <1>3, <1>4, PTL DEF BlobsSpec, StoreHonest, ReadIsWhole

-----------------------------------------------------------------------------
(* The trail                                                               *)

-----------------------------------------------------------------------------
(* The invariant                                                           *)

\* A sequence of anything.
IsSeq(s) == \E S : s \in Seq(S)

\* m is the highest id of the files.
IsTop(files, m) == m \in DOMAIN files /\ \A i \in DOMAIN files : i <= m

Files(files) ==
  /\ files = [i \in DOMAIN files |-> files[i]]
  /\ DOMAIN files \subseteq Nat /\ IsFiniteSet(DOMAIN files)
  /\ \A i \in DOMAIN files : IsSeq(files[i])

\* The shape of the directories, whatever the files hold: the process writes
\* to the highest hot segment, and what has left is not above what is hot.
FilesOk ==
  /\ IsSeq(log) /\ muddled \in BOOLEAN /\ anchor \subseteq Nat
  /\ Files(segs) /\ Files(warm) /\ Files(cold)
  /\ \E m \in Nat : IsTop(segs, m)
  /\ proc.up \in BOOLEAN
  /\ proc.up => /\ DOMAIN proc = {"up", "active", "size", "seq", "head", "fouled"}
                /\ IsTop(segs, proc.active) /\ proc.fouled \in BOOLEAN
  /\ \A j \in DOMAIN warm \cup DOMAIN cold : ~IsTop(segs, j) /\ \A i \in DOMAIN segs : j <= i

\* Positions grow along a file, and from one file to another.
Grows(s) ==
  \A k, l \in 1..Len(s) : k < l /\ ~IsPartial(s[k]) /\ ~IsPartial(s[l]) => s[k].pos < s[l].pos

Precedes(s, t) ==
  \A k \in 1..Len(s), l \in 1..Len(t) : ~IsPartial(s[k]) /\ ~IsPartial(t[l]) => s[k].pos < t[l].pos

\* A hot file has half a frame only at the end of the trail, and not while the
\* process can append; a sealed one is not empty.
HotFiles(files, half) ==
  /\ \A i \in DOMAIN files : \A k \in 1..Len(files[i]) :
       IsPartial(files[i][k]) => IsTop(files, i) /\ k = Len(files[i]) /\ half
  /\ \A i \in DOMAIN files : ~IsTop(files, i) => files[i] # <<>>
  /\ \A i \in DOMAIN files : Grows(files[i])
  /\ \A i, j \in DOMAIN files : i < j => Precedes(files[i], files[j])

HotOk == HotFiles(segs, ~proc.up \/ proc.fouled)

\* Down with sealed segments and without the first one: no restart succeeds.
Stuck == ~proc.up /\ 0 \notin DOMAIN segs /\ \E i \in DOMAIN segs : ~IsTop(segs, i)

\* A file that left is complete and in order, and so are the small ones, which
\* are merged; a cold file under the name of a warm one is part of it.
Whole(w) == \A i \in DOMAIN w : Grows(w[i]) /\ \A k \in 1..Len(w[i]) : ~IsPartial(w[i][k])
Smalls(w) == {i \in DOMAIN w : Len(w[i]) < SmallFile}
InOrder(w) == \A i, j \in Smalls(w) : i < j => Precedes(w[i], w[j])
Copies(w, c) == \A i \in DOMAIN w \cap DOMAIN c : ToSet(c[i]) \subseteq ToSet(w[i])

\* What left precedes what is hot; only the first segment is in two tiers.
Apart(w, c, files) ==
  /\ \A j \in DOMAIN w, i \in DOMAIN files : j < i => Precedes(w[j], files[i])
  /\ \A i \in DOMAIN files \cap DOMAIN w : i = 0 /\ w[i] = files[i]
  /\ \A i \in DOMAIN files \cap DOMAIN c : i = 0 /\ c[i] = files[i]

MovedOk ==
  /\ Whole(warm) /\ InOrder(warm) /\ Copies(warm, cold)
  /\ ~Stuck => Apart(warm, cold, segs)

\* The frames an unbroken trail holds.
Entries(events) == [k \in 1..Len(events) |-> Frame(events[k], SubSeq(events, 1, k), k)]

\* The process knows the end of the trail.
KnowsEnd(mem, files, events) ==
  mem.up => /\ mem.seq = Len(events) /\ mem.head = events
            /\ ~mem.fouled => mem.size = Len(files[mem.active])

\* The index knows the places of the entries.
RowsOk(index, files, events) ==
  \A row \in index :
    /\ row.sequence \in 1..Len(events) /\ events[row.sequence] = row.event
    /\ row.segment \in DOMAIN files /\ row.offset \in Nat
    /\ row.offset + 1 \in 1..Len(files[row.segment])
    /\ ~IsPartial(files[row.segment][row.offset + 1])
    /\ files[row.segment][row.offset + 1].event = row.event

\* A snapshot is torn or the state of a prefix.
SnapsOk(states, events) ==
  /\ DOMAIN states \subseteq 0..Len(events)
  /\ \A n \in DOMAIN states : states[n] = Torn \/ states[n] = Replay(SubSeq(events, 1, n))

\* An unbroken trail whose segments are all hot is the log.
WholeOk ==
  /\ Concat(segs) = Entries(log) /\ KnowsEnd(proc, segs, log)
  /\ RowsOk(rows, segs, log) /\ SnapsOk(snaps, log)

StorageInv ==
  /\ FilesOk
  /\ ~muddled => HotOk /\ MovedOk /\ NoTierLosesEntries
  /\ ~muddled /\ AllHot => WholeOk
-----------------------------------------------------------------------------
(* Numbers and sequences                                                   *)

\* A non-empty set of natural numbers has a least element.
LEMMA LeastNumber ==
  ASSUME NEW T \in SUBSET Nat, T # {}
  PROVE  \E m \in T : \A n \in T : m <= n
<1>1. PICK F : F = {1..n : n \in T}
  OBVIOUS
<1>2. F \subseteq FiniteSubsetsOf(Nat)
  <2> SUFFICES ASSUME NEW n \in T PROVE 1..n \in FiniteSubsetsOf(Nat)
    BY <1>1
  <2>1. n \in Int /\ 1 \in Int
    OBVIOUS
  <2>2. IsFiniteSet(1..n)
    BY <2>1, FS_Interval
  <2> QED
    BY <2>2 DEF FiniteSubsetsOf
<1>3. F # {}
  BY <1>1
<1>4. PICK x \in F : \A y \in F : ~ (<<y, x>> \in StrictSubsetOrdering(Nat))
  BY <1>2, <1>3, FS_StrictSubsetOrderingWellFounded, WFMin
<1>5. PICK m \in T : x = 1..m
  BY <1>1
<1>6. ASSUME NEW n \in T, n < m PROVE FALSE
  <2>1. 1..n \in F /\ 1..n \subseteq 1..m /\ 1..n # 1..m
    BY <1>1, <1>6
  <2>2. 1..n \in SUBSET Nat /\ 1..m \in SUBSET Nat
    OBVIOUS
  <2>3. <<1..n, 1..m>> \in StrictSubsetOrdering(Nat)
    BY <2>1, <2>2 DEF StrictSubsetOrdering
  <2> QED
    BY <2>1, <2>3, <1>4, <1>5
<1> QED
  BY <1>6

\* A set of numbers with zero and with every successor has them all.
LEMMA SetInduction ==
  ASSUME NEW T, 0 \in T, \A n \in Nat : n \in T => n + 1 \in T
  PROVE  \A n \in Nat : n \in T
<1> SUFFICES ASSUME NEW k \in Nat, k \notin T PROVE FALSE
  OBVIOUS
<1>1. PICK U : U = {n \in Nat : n \notin T}
  OBVIOUS
<1>2. U \in SUBSET Nat /\ U # {}
  BY <1>1
<1>3. PICK m \in U : \A n \in U : m <= n
  BY <1>2, LeastNumber
<1>4. m \in Nat /\ m # 0 /\ m - 1 \in Nat /\ (m - 1) + 1 = m
  BY <1>1, <1>3
<1>5. m - 1 \in T
  BY <1>1, <1>3, <1>4
<1> QED
  BY <1>1, <1>3, <1>4, <1>5

\* A sequence is a function on 1..Len.
LEMMA SeqBasics ==
  ASSUME NEW s, IsSeq(s)
  PROVE  /\ Len(s) \in Nat /\ DOMAIN s = 1..Len(s)
         /\ s = [k \in 1..Len(s) |-> s[k]] /\ (s = <<>> <=> Len(s) = 0)
  BY DEF IsSeq

\* The empty sequence.
LEMMA EmptyIsSeq == IsSeq(<<>>) /\ Len(<<>>) = 0
<1>1. <<>> \in Seq({}) /\ Len(<<>>) = 0
  OBVIOUS
<1> QED
  BY <1>1 DEF IsSeq

\* A function on 1..n is a sequence.
LEMMA FunctionIsSeq ==
  ASSUME NEW n \in Nat, NEW s, DOMAIN s = 1..n, s = [k \in DOMAIN s |-> s[k]]
  PROVE  IsSeq(s) /\ Len(s) = n
<1>1. PICK S : S = {s[k] : k \in 1..n}
  OBVIOUS
<1>2. s \in [1..n -> S]
  BY <1>1
<1>3. s \in Seq(S) /\ Len(s) = n
  BY <1>2
<1> QED
  BY <1>3 DEF IsSeq

\* Append, element by element.
LEMMA AppendOk ==
  ASSUME NEW s, IsSeq(s), NEW x
  PROVE  /\ IsSeq(Append(s, x)) /\ Len(Append(s, x)) = Len(s) + 1
         /\ \A k \in 1..Len(s) : Append(s, x)[k] = s[k]
         /\ Append(s, x)[Len(s) + 1] = x
<1>1. PICK S : s \in Seq(S)
  BY DEF IsSeq
<1>2. PICK T : T = S \cup {x}
  OBVIOUS
<1>3. s \in Seq(T) /\ x \in T
  BY <1>1, <1>2
<1>4. Append(s, x) \in Seq(T)
  BY <1>3
<1> QED
  BY <1>3, <1>4 DEF IsSeq

\* Concatenation, element by element.
LEMMA CatOk ==
  ASSUME NEW s, IsSeq(s), NEW t, IsSeq(t)
  PROVE  /\ IsSeq(s \o t) /\ Len(s \o t) = Len(s) + Len(t)
         /\ \A k \in 1..Len(s) : (s \o t)[k] = s[k]
         /\ \A k \in 1..Len(t) : (s \o t)[Len(s) + k] = t[k]
<1>1. PICK S : s \in Seq(S)
  BY DEF IsSeq
<1>2. PICK T : t \in Seq(T)
  BY DEF IsSeq
<1>3. PICK U : U = S \cup T
  OBVIOUS
<1>4. s \in Seq(U) /\ t \in Seq(U)
  BY <1>1, <1>2, <1>3
<1>5. s \o t \in Seq(U) /\ Len(s \o t) = Len(s) + Len(t)
  BY <1>4
<1>6. \A k \in 1..Len(s) : (s \o t)[k] = s[k]
  BY <1>4
<1>7. ASSUME NEW k \in 1..Len(t) PROVE (s \o t)[Len(s) + k] = t[k]
  BY <1>4
<1> QED
  BY <1>5, <1>6, <1>7 DEF IsSeq

\* A prefix, element by element.
LEMMA PrefixOk ==
  ASSUME NEW s, IsSeq(s), NEW n \in 0..Len(s)
  PROVE  /\ IsSeq(SubSeq(s, 1, n)) /\ Len(SubSeq(s, 1, n)) = n
         /\ \A k \in 1..n : SubSeq(s, 1, n)[k] = s[k]
<1>1. PICK S : s \in Seq(S)
  BY DEF IsSeq
<1>2. Len(s) \in Nat /\ n \in Nat /\ n <= Len(s)
  BY <1>1
<1>3. SubSeq(s, 1, n) \in Seq(S) /\ Len(SubSeq(s, 1, n)) = n
  BY <1>1, <1>2
<1>4. \A k \in 1..n : SubSeq(s, 1, n)[k] = s[k]
  BY <1>1, <1>2
<1> QED
  BY <1>3, <1>4 DEF IsSeq

\* Sequences with the same elements are the same.
LEMMA SeqSame ==
  ASSUME NEW s, IsSeq(s), NEW t, IsSeq(t), Len(s) = Len(t), \A k \in 1..Len(s) : s[k] = t[k]
  PROVE  s = t
<1>1. s = [k \in 1..Len(s) |-> s[k]] /\ t = [k \in 1..Len(t) |-> t[k]]
  BY SeqBasics
<1> QED
  BY <1>1

\* The whole of a sequence as its prefix, and the next prefix.
LEMMA PrefixWhole ==
  ASSUME NEW s, IsSeq(s)
  PROVE  SubSeq(s, 1, Len(s)) = s
<1>1. Len(s) \in 0..Len(s)
  BY SeqBasics
<1>2. PICK t : t = SubSeq(s, 1, Len(s))
  OBVIOUS
<1>3. IsSeq(t) /\ Len(t) = Len(s) /\ \A k \in 1..Len(s) : t[k] = s[k]
  BY <1>1, <1>2, PrefixOk
<1>4. t = s
  BY <1>3, SeqSame
<1> QED
  BY <1>2, <1>4

-----------------------------------------------------------------------------
(* Scanning a segment                                                      *)

\* Frames are whole or half.
LEMMA PartialOrFrame ==
  /\ \A b : IsPartial(Partial(b))
  /\ \A e, h, p : /\ ~IsPartial(Frame(e, h, p)) /\ Frame(e, h, p).pos = p
                  /\ Frame(e, h, p).event = e /\ Frame(e, h, p).hash = h
  BY DEF IsPartial, Partial, Frame

\* Min of a non-empty set of numbers is its least element.
LEMMA MinOk ==
  ASSUME NEW S \in SUBSET Nat, S # {}
  PROVE  Min(S) \in S /\ \A n \in S : Min(S) <= n
  BY LeastNumber DEF Min

\* Max of a set of numbers with a greatest element is that element.
LEMMA MaxOk ==
  ASSUME NEW S \in SUBSET Nat, NEW m \in S, \A n \in S : n <= m
  PROVE  Max(S) = m
<1>1. \A n \in S : m >= n
  OBVIOUS
<1>2. Max(S) \in S /\ \A n \in S : Max(S) >= n
  BY <1>1 DEF Max
<1>3. Max(S) \in Nat /\ m \in Nat /\ m <= Max(S) /\ Max(S) <= m
  BY <1>2
<1> QED
  BY <1>3

\* The frames before the first half one are whole.
LEMMA WholeFramesOk ==
  ASSUME NEW f, IsSeq(f)
  PROVE  /\ WholeFrames(f) \in 0..Len(f)
         /\ \A k \in 1..WholeFrames(f) : ~IsPartial(f[k])
         /\ WholeFrames(f) < Len(f) => IsPartial(f[WholeFrames(f) + 1])
         /\ (\A k \in 1..Len(f) : ~IsPartial(f[k])) => WholeFrames(f) = Len(f)
<1>1. PICK n \in Nat : n = Len(f)
  BY SeqBasics
<1>2. PICK S : S = {i \in 1..n : IsPartial(f[i])}
  OBVIOUS
<1>3. WholeFrames(f) = IF S # {} THEN Min(S) - 1 ELSE n
  BY <1>1, <1>2 DEF WholeFrames
<1>4. CASE S = {}
  BY <1>1, <1>2, <1>3, <1>4
<1>5. CASE S # {}
  <2>1. S \in SUBSET Nat
    BY <1>2
  <2>2. Min(S) \in S /\ \A i \in S : Min(S) <= i
    BY <1>5, <2>1, MinOk
  <2>3. PICK m \in 1..n : m = Min(S) /\ IsPartial(f[m]) /\ \A i \in S : m <= i
    BY <1>2, <2>2
  <2>4. WholeFrames(f) = m - 1
    BY <1>3, <1>5, <2>3
  <2>5. \A k \in 1..(m - 1) : ~IsPartial(f[k])
    BY <1>2, <2>3
  <2> QED
    BY <1>1, <2>3, <2>4, <2>5
<1> QED
  BY <1>4, <1>5

\* What a scan returns is a sequence.
LEMMA ScanIsSeq ==
  ASSUME NEW f, IsSeq(f)
  PROVE  IsSeq(ScanSegment(f))
<1>1. IsSeq(SubSeq(f, 1, WholeFrames(f)))
  BY WholeFramesOk, PrefixOk
<1>2. IsSeq(<<Garbage>>)
  <2>1. <<Garbage>> \in Seq({Garbage})
    OBVIOUS
  <2> QED
    BY <2>1 DEF IsSeq
<1>3. IsSeq(IF Swallows(f) THEN <<Garbage>> ELSE <<>>)
  BY <1>2, EmptyIsSeq
<1> QED
  BY <1>1, <1>3, CatOk DEF ScanSegment

\* Half a frame only at the end: nothing is swallowed, the scan keeps the rest.
TailOnly(f) == \A k \in 1..Len(f) : IsPartial(f[k]) => k = Len(f)

\* A scan of a file with half a frame at most at its end gives the whole frames.
LEMMA ScanTail ==
  ASSUME NEW f, IsSeq(f), TailOnly(f)
  PROVE  /\ Len(ScanSegment(f)) \in Nat /\ Len(ScanSegment(f)) <= Len(f)
         /\ \A k \in 1..Len(ScanSegment(f)) : ScanSegment(f)[k] = f[k] /\ ~IsPartial(f[k])
         /\ \A k \in 1..Len(f) : ~IsPartial(f[k]) => k \in 1..Len(ScanSegment(f))
<1>1. PICK n \in 0..Len(f) : n = WholeFrames(f)
  BY WholeFramesOk
<1>2. /\ \A k \in 1..n : ~IsPartial(f[k])
      /\ n < Len(f) => IsPartial(f[n + 1])
      /\ Len(f) \in Nat
  BY <1>1, WholeFramesOk, SeqBasics
<1>3. n = Len(f) \/ n + 1 = Len(f)
  BY <1>2 DEF TailOnly
<1>4. ~Swallows(f)
  BY <1>1, <1>2, <1>3 DEF Swallows
<1>5. PICK p : p = SubSeq(f, 1, n)
  OBVIOUS
<1>6. IsSeq(p) /\ Len(p) = n /\ \A k \in 1..n : p[k] = f[k]
  BY <1>5, PrefixOk
<1>7. ScanSegment(f) = p \o <<>>
  BY <1>1, <1>4, <1>5 DEF ScanSegment
<1>8. PICK q : q = p \o <<>>
  OBVIOUS
<1>9. IsSeq(q) /\ Len(q) = n + 0 /\ \A k \in 1..n : q[k] = p[k]
  BY <1>6, <1>8, CatOk, EmptyIsSeq
<1>10. ScanSegment(f) = q /\ Len(q) = n /\ \A k \in 1..n : q[k] = f[k]
  BY <1>6, <1>7, <1>8, <1>9
<1>11. \A k \in 1..Len(f) : ~IsPartial(f[k]) => k \in 1..n
  BY <1>2, <1>3
<1> QED
  BY <1>2, <1>10, <1>11

\* A segment without half frames is scanned whole.
LEMMA ScanWhole ==
  ASSUME NEW f, IsSeq(f), \A k \in 1..Len(f) : ~IsPartial(f[k])
  PROVE  ScanSegment(f) = f
<1>1. TailOnly(f)
  BY DEF TailOnly
<1>2. PICK q : q = ScanSegment(f)
  OBVIOUS
<1>3. /\ IsSeq(q) /\ Len(q) \in Nat /\ Len(q) <= Len(f) /\ Len(f) \in Nat
      /\ \A k \in 1..Len(q) : q[k] = f[k]
      /\ \A k \in 1..Len(f) : k \in 1..Len(q)
  BY <1>1, <1>2, ScanTail, ScanIsSeq, SeqBasics
<1>4. Len(q) = Len(f)
  <2>1. CASE Len(f) = 0
    BY <2>1, <1>3
  <2>2. CASE Len(f) # 0
    <3>1. Len(f) \in 1..Len(f)
      BY <2>2, <1>3
    <3> QED
      BY <3>1, <1>3
  <2> QED
    BY <2>1, <2>2
<1>5. q = f
  BY <1>3, <1>4, SeqSame
<1> QED
  BY <1>2, <1>5

\* A half frame at the end adds nothing to the scan.
LEMMA ScanHalf ==
  ASSUME NEW f, IsSeq(f), \A k \in 1..Len(f) : ~IsPartial(f[k]), NEW b
  PROVE  ScanSegment(Append(f, Partial(b))) = f
<1>1. PICK g : g = Append(f, Partial(b))
  OBVIOUS
<1>2. /\ IsSeq(g) /\ Len(g) = Len(f) + 1 /\ Len(f) \in Nat
      /\ \A k \in 1..Len(f) : g[k] = f[k] /\ ~IsPartial(g[k])
      /\ IsPartial(g[Len(f) + 1])
  BY <1>1, AppendOk, SeqBasics, PartialOrFrame
<1>3. \A k \in 1..Len(g) : k \in 1..Len(f) \/ k = Len(g)
  BY <1>2
<1>4. TailOnly(g)
  BY <1>2, <1>3 DEF TailOnly
<1>5. PICK q : q = ScanSegment(g)
  OBVIOUS
<1>6. /\ IsSeq(q) /\ Len(q) \in Nat /\ Len(q) <= Len(f) + 1
      /\ \A k \in 1..Len(q) : q[k] = g[k] /\ ~IsPartial(g[k])
      /\ \A k \in 1..Len(g) : ~IsPartial(g[k]) => k \in 1..Len(q)
  BY <1>2, <1>4, <1>5, ScanTail, ScanIsSeq
<1>7. Len(q) # Len(f) + 1
  <2> SUFFICES ASSUME Len(q) = Len(f) + 1 PROVE FALSE
    OBVIOUS
  <2>1. Len(f) + 1 \in 1..Len(q)
    BY <1>2
  <2> QED
    BY <2>1, <1>2, <1>6
<1>8. Len(q) = Len(f)
  <2>1. CASE Len(f) = 0
    <3>1. PICK a \in Nat : a = Len(q)
      BY <1>6
    <3>2. a <= 0 + 1 /\ a # 0 + 1
      BY <3>1, <2>1, <1>6, <1>7
    <3>3. a = 0
      BY <3>2
    <3> QED
      BY <3>1, <3>3, <2>1
  <2>2. CASE Len(f) # 0
    <3>1. Len(f) \in 1..Len(f) /\ Len(f) \in 1..Len(g)
      BY <2>2, <1>2
    <3>2. Len(f) \in 1..Len(q)
      BY <3>1, <1>2, <1>6
    <3> QED
      BY <3>2, <1>2, <1>6, <1>7
  <2> QED
    BY <2>1, <2>2
<1>9. \A k \in 1..Len(q) : q[k] = f[k]
  BY <1>2, <1>6, <1>8
<1>10. q = f
  BY <1>6, <1>8, <1>9, SeqSame
<1> QED
  BY <1>1, <1>5, <1>10

-----------------------------------------------------------------------------
(* The entries of all segments                                             *)

\* An approximation of Below up to n.
UptoN(files, n, g) ==
  /\ g[0] = <<>>
  /\ \A k \in 1..n : g[k] = g[k - 1] \o Scanned(files, k - 1)

\* Two of them agree.
LEMMA UptoUnique ==
  ASSUME NEW files, NEW n \in Nat, NEW g, NEW h, UptoN(files, n, g), UptoN(files, n, h)
  PROVE  \A k \in 0..n : g[k] = h[k]
<1>1. PICK T : T = {k \in Nat : k <= n => g[k] = h[k]}
  OBVIOUS
<1>2. 0 \in T
  BY <1>1 DEF UptoN
<1>3. ASSUME NEW k \in Nat, k \in T PROVE k + 1 \in T
  <2> SUFFICES ASSUME k + 1 <= n PROVE g[k + 1] = h[k + 1]
    BY <1>1
  <2>1. g[k] = h[k] /\ k + 1 \in 1..n /\ (k + 1) - 1 = k
    BY <1>1, <1>3
  <2> QED
    BY <2>1 DEF UptoN
<1>4. \A k \in Nat : k \in T
  BY <1>2, <1>3, SetInduction
<1> QED
  BY <1>1, <1>4

\* There is one for every n.
LEMMA UptoExists ==
  ASSUME NEW files
  PROVE  \A n \in Nat : \E g : UptoN(files, n, g)
<1>1. PICK T : T = {n \in Nat : \E g : UptoN(files, n, g)}
  OBVIOUS
<1>2. 0 \in T
  <2>1. PICK g : g = [k \in {0} |-> <<>>]
    OBVIOUS
  <2>2. UptoN(files, 0, g)
    BY <2>1 DEF UptoN
  <2> QED
    BY <2>2, <1>1
<1>3. ASSUME NEW n \in Nat, n \in T PROVE n + 1 \in T
  <2>1. PICK g : UptoN(files, n, g)
    BY <1>1, <1>3
  <2>2. PICK h : h = [k \in 0..(n + 1) |-> IF k = n + 1 THEN g[n] \o Scanned(files, n) ELSE g[k]]
    OBVIOUS
  <2>3. h[0] = <<>> /\ h[n + 1] = g[n] \o Scanned(files, n) /\ \A k \in 0..n : h[k] = g[k]
    BY <2>1, <2>2 DEF UptoN
  <2>4. ASSUME NEW k \in 1..(n + 1) PROVE h[k] = h[k - 1] \o Scanned(files, k - 1)
    <3>1. CASE k = n + 1
      <4>1. k - 1 = n /\ n \in 0..n
        BY <3>1
      <4> QED
        BY <4>1, <3>1, <2>3
    <3>2. CASE k # n + 1
      <4>1. k \in 1..n /\ k \in 0..n /\ k - 1 \in 0..n
        BY <3>2
      <4> QED
        BY <4>1, <2>1, <2>3 DEF UptoN
    <3> QED
      BY <3>1, <3>2
  <2>5. UptoN(files, n + 1, h)
    BY <2>3, <2>4 DEF UptoN
  <2> QED
    BY <2>5, <1>1
<1>4. \A n \in Nat : n \in T
  BY <1>2, <1>3, SetInduction
<1> QED
  BY <1>1, <1>4

\* Below is what its definition says.
LEMMA BelowUnfolds ==
  ASSUME NEW files
  PROVE  /\ Below(files)[0] = <<>>
         /\ \A n \in Nat : Below(files)[n + 1] = Below(files)[n] \o Scanned(files, n)
<1>1. PICK a : a = [n \in Nat |-> CHOOSE g : UptoN(files, n, g)]
  OBVIOUS
<1>2. \A n \in Nat : UptoN(files, n, a[n])
  BY <1>1, UptoExists
<1>3. PICK f : f = [n \in Nat |-> a[n][n]]
  OBVIOUS
<1>4. f[0] = <<>>
  BY <1>2, <1>3 DEF UptoN
<1>5. ASSUME NEW n \in Nat, n # 0 PROVE f[n] = f[n - 1] \o Scanned(files, n - 1)
  <2>1. n - 1 \in Nat /\ n - 1 \in 0..(n - 1) /\ n \in 1..n
    BY <1>5
  <2>2. UptoN(files, n, a[n]) /\ UptoN(files, n - 1, a[n - 1])
    BY <2>1, <1>2
  <2>3. UptoN(files, n - 1, a[n])
    <3>1. 1..(n - 1) \subseteq 1..n
      BY <2>1
    <3> QED
      BY <3>1, <2>2 DEF UptoN
  <2>4. a[n][n - 1] = a[n - 1][n - 1]
    BY <2>1, <2>2, <2>3, UptoUnique
  <2>5. a[n][n] = a[n][n - 1] \o Scanned(files, n - 1)
    BY <2>1, <2>2 DEF UptoN
  <2> QED
    BY <2>1, <2>4, <2>5, <1>3
<1>6. f = [n \in Nat |-> IF n = 0 THEN <<>> ELSE f[n - 1] \o Scanned(files, n - 1)]
  <2>1. \A n \in Nat : f[n] = IF n = 0 THEN <<>> ELSE f[n - 1] \o Scanned(files, n - 1)
    BY <1>4, <1>5
  <2> QED
    BY <2>1, <1>3
<1>7. Below(files) = [n \in Nat |-> IF n = 0 THEN <<>> ELSE Below(files)[n - 1] \o Scanned(files, n - 1)]
  BY <1>6 DEF Below
<1>8. PICK u : u = Below(files)
  OBVIOUS
<1>9. u = [n \in Nat |-> IF n = 0 THEN <<>> ELSE u[n - 1] \o Scanned(files, n - 1)]
  BY <1>7, <1>8
<1>10. u[0] = <<>>
  BY <1>9
<1>11. ASSUME NEW n \in Nat PROVE u[n + 1] = u[n] \o Scanned(files, n)
  <2>1. n + 1 \in Nat /\ n + 1 # 0 /\ (n + 1) - 1 = n
    OBVIOUS
  <2>2. u[n + 1] = u[(n + 1) - 1] \o Scanned(files, (n + 1) - 1)
    BY <2>1, <1>9
  <2> QED
    BY <2>1, <2>2
<1> QED
  BY <1>8, <1>10, <1>11


\* What is below n depends on the segments below n.
LEMMA BelowAgrees ==
  ASSUME NEW files, NEW other, NEW m \in Nat,
         \A i \in 0..(m - 1) : Scanned(files, i) = Scanned(other, i)
  PROVE  Below(files)[m] = Below(other)[m]
<1>1. PICK T : T = {n \in Nat : n <= m => Below(files)[n] = Below(other)[n]}
  OBVIOUS
<1>2. 0 \in T
  BY <1>1, BelowUnfolds
<1>3. ASSUME NEW n \in Nat, n \in T PROVE n + 1 \in T
  <2> SUFFICES ASSUME n + 1 <= m PROVE Below(files)[n + 1] = Below(other)[n + 1]
    BY <1>1
  <2>1. n \in 0..(m - 1) /\ Below(files)[n] = Below(other)[n]
    BY <1>1, <1>3
  <2>2. /\ Below(files)[n + 1] = Below(files)[n] \o Scanned(files, n)
        /\ Below(other)[n + 1] = Below(other)[n] \o Scanned(other, n)
    BY BelowUnfolds
  <2>3. Scanned(files, n) = Scanned(other, n)
    BY <2>1
  <2> QED
    BY <2>1, <2>2, <2>3
<1>4. \A n \in Nat : n \in T
  BY <1>2, <1>3, SetInduction
<1> QED
  BY <1>1, <1>4

\* It is a sequence, and not empty once a segment below n has an entry.
LEMMA BelowIsSeq ==
  ASSUME NEW files, \A i \in DOMAIN files : IsSeq(files[i])
  PROVE  \A n \in Nat : IsSeq(Below(files)[n])
<1>1. PICK T : T = {n \in Nat : IsSeq(Below(files)[n])}
  OBVIOUS
<1>2. 0 \in T
  BY <1>1, BelowUnfolds, EmptyIsSeq
<1>3. ASSUME NEW n \in Nat, n \in T PROVE n + 1 \in T
  <2>1. IsSeq(Scanned(files, n))
    BY ScanIsSeq, EmptyIsSeq DEF Scanned
  <2>2. IsSeq(Below(files)[n])
    BY <1>1, <1>3
  <2>3. Below(files)[n + 1] = Below(files)[n] \o Scanned(files, n)
    BY BelowUnfolds
  <2>4. IsSeq(Below(files)[n + 1])
    BY <2>1, <2>2, <2>3, CatOk
  <2> QED
    BY <2>4, <1>1
<1>4. \A n \in Nat : n \in T
  BY <1>2, <1>3, SetInduction
<1> QED
  BY <1>1, <1>4

\* A segment with entries makes what lies below a higher one non-empty.
LEMMA BelowNotEmpty ==
  ASSUME NEW files, \A i \in DOMAIN files : IsSeq(files[i]),
         NEW i \in Nat, Scanned(files, i) # <<>>
  PROVE  \A n \in Nat : i < n => Len(Below(files)[n]) > 0
<1>1. PICK T : T = {n \in Nat : i < n => Len(Below(files)[n]) > 0}
  OBVIOUS
<1>2. 0 \in T
  BY <1>1
<1>3. ASSUME NEW n \in Nat, n \in T PROVE n + 1 \in T
  <2> SUFFICES ASSUME i < n + 1 PROVE Len(Below(files)[n + 1]) > 0
    BY <1>1
  <2>1. IsSeq(Scanned(files, n)) /\ IsSeq(Below(files)[n])
    BY ScanIsSeq, EmptyIsSeq, BelowIsSeq DEF Scanned
  <2>2. PICK a, b \in Nat : a = Len(Below(files)[n]) /\ b = Len(Scanned(files, n))
    BY <2>1, SeqBasics
  <2>3. Below(files)[n + 1] = Below(files)[n] \o Scanned(files, n)
    BY BelowUnfolds
  <2>4. Len(Below(files)[n + 1]) = a + b
    BY <2>1, <2>2, <2>3, CatOk
  <2>5. CASE i < n
    <3>1. a > 0
      BY <2>2, <2>5, <1>1, <1>3
    <3> QED
      BY <2>4, <3>1
  <2>6. CASE i = n
    <3>1. b # 0
      BY <2>1, <2>2, <2>6, SeqBasics
    <3> QED
      BY <2>4, <3>1
  <2> QED
    BY <2>5, <2>6
<1>4. \A n \in Nat : n \in T
  BY <1>2, <1>3, SetInduction
<1> QED
  BY <1>1, <1>4

\* All entries are those below the top and those of the top.
LEMMA ConcatTop ==
  ASSUME NEW files, Files(files), NEW m \in Nat, IsTop(files, m)
  PROVE  /\ Concat(files) = Below(files)[m] \o ScanSegment(files[m])
         /\ Max(DOMAIN files) = m
<1>1. Max(DOMAIN files) = m
  BY MaxOk DEF Files, IsTop
<1>2. Concat(files) = Below(files)[m + 1]
  BY <1>1 DEF Concat, IsTop
<1>3. Below(files)[m + 1] = Below(files)[m] \o Scanned(files, m)
  BY BelowUnfolds
<1>4. Scanned(files, m) = ScanSegment(files[m])
  BY DEF Scanned, IsTop
<1> QED
  BY <1>1, <1>2, <1>3, <1>4

\* A sealed segment with an entry: there are entries.
LEMMA ConcatNotEmpty ==
  ASSUME NEW files, Files(files), NEW m \in Nat, IsTop(files, m),
         NEW i \in DOMAIN files, ScanSegment(files[i]) # <<>>
  PROVE  Len(Concat(files)) > 0
<1>1. Max(DOMAIN files) = m
  BY MaxOk DEF Files, IsTop
<1>2. Concat(files) = Below(files)[m + 1]
  BY <1>1 DEF Concat, IsTop
<1>3. i \in Nat /\ i < m + 1 /\ m + 1 \in Nat
  BY DEF Files, IsTop
<1>4. Scanned(files, i) # <<>>
  BY DEF Scanned
<1> QED
  BY <1>2, <1>3, <1>4, BelowNotEmpty DEF Files


-----------------------------------------------------------------------------
(* Which files move and which are merged                                   *)

\* The oldest segments leave first, and the highest one never.
LEMMA ExcessOk ==
  ASSUME FilesOk
  PROVE  /\ HotExcess \subseteq DOMAIN segs
         /\ \A m \in HotExcess : ~IsTop(segs, m)
         /\ \A j \in HotExcess, i \in DOMAIN segs : i < j => i \in HotExcess
<1>1. PICK D : D = DOMAIN segs
  OBVIOUS
<1>2. D \subseteq Nat /\ IsFiniteSet(D)
  BY <1>1 DEF FilesOk, Files
<1>3. PICK n \in Nat : n = Cardinality(D)
  BY <1>2, FS_CardinalityType
<1>4. HotExcess = {i \in D : Cardinality({j \in D : j < i}) < n - HotLimit /\ \A a \in anchor : i < a}
  BY <1>1, <1>3 DEF HotExcess
<1>5. \A i \in D : IsFiniteSet({j \in D : j < i}) /\ Cardinality({j \in D : j < i}) \in Nat
  <2> SUFFICES ASSUME NEW i \in D
               PROVE  IsFiniteSet({j \in D : j < i}) /\ Cardinality({j \in D : j < i}) \in Nat
    OBVIOUS
  <2>1. {j \in D : j < i} \in SUBSET D
    OBVIOUS
  <2> QED
    BY <2>1, <1>2, FS_Subset, FS_CardinalityType
<1>6. ASSUME NEW m \in HotExcess, IsTop(segs, m) PROVE FALSE
  <2>1. m \in D /\ \A i \in D : i <= m
    BY <1>1, <1>6 DEF IsTop
  <2>2. {j \in D : j < m} = D \ {m}
    <3>1. \A j \in D : j < m <=> j # m
      BY <2>1, <1>2
    <3> QED
      BY <3>1
  <2>3. Cardinality(D \ {m}) = n - 1
    BY <2>1, <1>2, <1>3, FS_RemoveElement
  <2>4. Cardinality({j \in D : j < m}) < n - HotLimit
    BY <1>4
  <2> QED
    BY <2>2, <2>3, <2>4, TiersAssumption
<1>7. ASSUME NEW j \in HotExcess, NEW i \in D, i < j PROVE i \in HotExcess
  <2>1. j \in D /\ i \in Nat /\ j \in Nat
    BY <1>2, <1>4
  <2>2. PICK A : A = {x \in D : x < i}
    OBVIOUS
  <2>3. PICK B : B = {x \in D : x < j}
    OBVIOUS
  <2>4. A \in SUBSET B
    <3>1. \A x \in D : x < i => x < j
      BY <2>1, <1>2, <1>7
    <3> QED
      BY <3>1, <2>2, <2>3
  <2>5. IsFiniteSet(B) /\ Cardinality(A) \in Nat /\ Cardinality(B) \in Nat
    BY <2>1, <2>2, <2>3, <1>5
  <2>6. Cardinality(A) <= Cardinality(B)
    BY <2>4, <2>5, FS_Subset
  <2>7. Cardinality(B) < n - HotLimit /\ \A a \in anchor : j < a
    BY <2>3, <1>4
  <2>8. Cardinality(A) < n - HotLimit
    BY <2>5, <2>6, <2>7, TiersAssumption
  <2>9. \A a \in anchor : i < a
    BY <2>1, <2>7, <1>7 DEF FilesOk
  <2> QED
    BY <2>2, <2>8, <2>9, <1>4
<1> QED
  BY <1>1, <1>4, <1>6, <1>7

\* The rank of a small file grows with its id.
LEMMA RankGrows ==
  ASSUME FilesOk
  PROVE  /\ Small \subseteq DOMAIN warm /\ Small \subseteq Nat
         /\ \A i \in Small : Rank(i) \in Nat
         /\ \A i, j \in Small : i < j => Rank(i) < Rank(j)
<1>1. Small \in SUBSET DOMAIN warm /\ Small \subseteq Nat /\ IsFiniteSet(Small)
  BY FS_Subset DEF Small, FilesOk, Files
<1>2. ASSUME NEW i \in Small
      PROVE  IsFiniteSet({x \in Small : x < i}) /\ Cardinality({x \in Small : x < i}) \in Nat
  <2>1. {x \in Small : x < i} \in SUBSET Small
    OBVIOUS
  <2> QED
    BY <2>1, <1>1, FS_Subset, FS_CardinalityType
<1>3. ASSUME NEW i \in Small, NEW j \in Small, i < j PROVE Rank(i) < Rank(j)
  <2>1. PICK A : A = {x \in Small : x < i}
    OBVIOUS
  <2>2. PICK B : B = {x \in Small : x < j}
    OBVIOUS
  <2>3. A \in SUBSET B /\ i \in B /\ i \notin A
    BY <2>1, <2>2, <1>1, <1>3
  <2>4. IsFiniteSet(B) /\ Cardinality(A) \in Nat /\ Cardinality(B) \in Nat
    BY <2>1, <2>2, <1>2
  <2>5. Cardinality(A) <= Cardinality(B) /\ Cardinality(A) # Cardinality(B)
    BY <2>3, <2>4, FS_Subset
  <2> QED
    BY <2>1, <2>2, <2>4, <2>5 DEF Rank
<1> QED
  BY <1>1, <1>2, <1>3 DEF Rank

\* The lower files of the pairs and the higher ones.
Lowers == {p[1] : p \in Pairs}
Highers == {p[2] : p \in Pairs}

\* Every higher file is merged into one lower file, which stays; between the two
\* there is no other small one.
LEMMA PairsOk ==
  ASSUME FilesOk
  PROVE  /\ Lowers \subseteq Small /\ Highers \subseteq Small /\ Lowers \cap Highers = {}
         /\ \A i \in Lowers : /\ Higher(i) \in Highers /\ i < Higher(i)
                              /\ \A k \in Small : k <= i \/ Higher(i) <= k
         /\ \A j \in Highers : \E i \in Lowers : Higher(i) = j
<1>1. \A p \in Pairs : /\ p[1] \in Small /\ p[2] \in Small
                       /\ Rank(p[1]) % 2 = 0 /\ Rank(p[2]) = Rank(p[1]) + 1 /\ p = <<p[1], p[2]>>
  BY DEF Pairs
<1>2. \A i, j \in Small : Rank(i) % 2 = 0 /\ Rank(j) = Rank(i) + 1 => <<i, j>> \in Pairs
  BY DEF Pairs
<1>3. \A i, j \in Small : Rank(i) = Rank(j) => i = j
  BY RankGrows
<1>4. ASSUME NEW x, x \in Lowers, x \in Highers PROVE FALSE
  <2>1. PICK p \in Pairs : x = p[1]
    BY <1>4 DEF Lowers
  <2>2. PICK q \in Pairs : x = q[2]
    BY <1>4 DEF Highers
  <2>3. PICK a \in Nat : a = Rank(x) /\ a % 2 = 0
    BY <2>1, <1>1, RankGrows
  <2>4. PICK b \in Nat : b = Rank(q[1]) /\ b % 2 = 0 /\ a = b + 1
    BY <2>2, <2>3, <1>1, RankGrows
  <2> QED
    BY <2>3, <2>4
<1>5. ASSUME NEW p \in Pairs
      PROVE  Higher(p[1]) = p[2]
  <2>1. p[2] \in Small /\ <<p[1], p[2]>> \in Pairs
    BY <1>1
  <2>2. Higher(p[1]) \in Small /\ <<p[1], Higher(p[1])>> \in Pairs
    BY <2>1 DEF Higher
  <2>3. Rank(Higher(p[1])) = Rank(p[1]) + 1
    BY <2>2, <1>1
  <2> QED
    BY <2>1, <2>2, <2>3, <1>1, <1>3
<1>6. ASSUME NEW p \in Pairs
      PROVE  /\ p[1] < p[2]
             /\ \A k \in Small : k <= p[1] \/ p[2] <= k
  <2>1. PICK i, j \in Small : i = p[1] /\ j = p[2]
    BY <1>1
  <2>2. i \in Nat /\ j \in Nat /\ Rank(i) \in Nat /\ Rank(j) = Rank(i) + 1
    BY <2>1, <1>1, RankGrows
  <2>3. i < j
    <3>1. i # j
      BY <2>2
    <3>2. ~(j < i)
      <4> SUFFICES ASSUME j < i PROVE FALSE
        OBVIOUS
      <4>1. Rank(j) < Rank(i)
        BY RankGrows
      <4> QED
        BY <4>1, <2>2
    <3> QED
      BY <3>1, <3>2, <2>2
  <2>4. ASSUME NEW k \in Small, i < k, k < j PROVE FALSE
    <3>1. Rank(i) < Rank(k) /\ Rank(k) < Rank(j) /\ Rank(k) \in Nat
      BY <2>4, RankGrows
    <3> QED
      BY <3>1, <2>2
  <2>5. \A k \in Small : k \in Nat
    BY RankGrows
  <2>6. \A k \in Small : k <= i \/ j <= k
    BY <2>2, <2>4, <2>5
  <2> QED
    BY <2>1, <2>3, <2>6
<1>7. \A i \in Lowers : /\ Higher(i) \in Highers /\ i < Higher(i)
                        /\ \A k \in Small : k <= i \/ Higher(i) <= k
  <2> SUFFICES ASSUME NEW i \in Lowers
               PROVE  /\ Higher(i) \in Highers /\ i < Higher(i)
                      /\ \A k \in Small : k <= i \/ Higher(i) <= k
    OBVIOUS
  <2>1. PICK p \in Pairs : i = p[1]
    BY DEF Lowers
  <2>2. Higher(i) = p[2] /\ p[2] \in Highers
    BY <2>1, <1>5 DEF Highers
  <2> QED
    BY <2>1, <2>2, <1>6
<1>8. \A j \in Highers : \E i \in Lowers : Higher(i) = j
  BY <1>5 DEF Lowers, Highers
<1>9. Lowers \subseteq Small /\ Highers \subseteq Small
  BY <1>1 DEF Lowers, Highers
<1>10. Lowers \cap Highers = {}
  BY <1>4
<1> QED
  BY <1>7, <1>8, <1>9, <1>10


-----------------------------------------------------------------------------
(* What each step does to the files                                        *)

\* The files with a frame more at the end of one.
Grown(files, a, x) == [files EXCEPT ![a] = Append(@, x)]

\* A frame more at the end of a file.
LEMMA AppendShape ==
  ASSUME NEW files, Files(files), NEW a \in DOMAIN files, NEW x, NEW g, g = Grown(files, a, x)
  PROVE  /\ Files(g) /\ DOMAIN g = DOMAIN files /\ g[a] = Append(files[a], x)
         /\ \A i \in DOMAIN files : i # a => g[i] = files[i]
         /\ \A m : IsTop(g, m) <=> IsTop(files, m)
<1>1. DOMAIN g = DOMAIN files /\ g[a] = Append(files[a], x)
  BY DEF Grown
<1>2. \A i \in DOMAIN files : i # a => g[i] = files[i]
  BY DEF Grown
<1>3. IsSeq(files[a]) /\ IsSeq(g[a])
  BY <1>1, AppendOk DEF Files
<1>4. \A i \in DOMAIN g : IsSeq(g[i])
  BY <1>1, <1>2, <1>3 DEF Files
<1>5. g = [i \in DOMAIN g |-> g[i]]
  BY DEF Grown
<1>6. Files(g)
  BY <1>1, <1>4, <1>5 DEF Files
<1> QED
  BY <1>1, <1>2, <1>6 DEF IsTop

\* g is the files with the new empty one b above all others.
IsRotated(g, files, b) ==
  /\ Files(g) /\ DOMAIN g = DOMAIN files \cup {b} /\ g[b] = <<>>
  /\ \A i \in DOMAIN files : g[i] = files[i] /\ i < b
  /\ \A m : IsTop(g, m) <=> m = b

\* A new empty file above all others.
LEMMA RotateShape ==
  ASSUME NEW files, Files(files), NEW a \in Nat, IsTop(files, a),
         NEW b \in Nat, b = a + 1,
         NEW g, g = Put(files, b, <<>>)
  PROVE  IsRotated(g, files, b)
<1>1. DOMAIN g = DOMAIN files \cup {b} /\ g[b] = <<>>
  BY DEF Put, Over
<1>2. \A i \in DOMAIN files : i \in Nat /\ i < b
  BY DEF Files, IsTop
<1>3. \A i \in DOMAIN files : g[i] = files[i]
  <2> SUFFICES ASSUME NEW i \in DOMAIN files PROVE g[i] = files[i]
    OBVIOUS
  <2>1. i # b
    BY <1>2
  <2> QED
    BY <2>1 DEF Put, Over
<1>4. \A i \in DOMAIN g : IsSeq(g[i])
  BY <1>1, <1>3, EmptyIsSeq DEF Files
<1>5. g = [i \in DOMAIN g |-> g[i]]
  BY DEF Put, Over
<1>6. DOMAIN g \subseteq Nat /\ IsFiniteSet(DOMAIN g)
  BY <1>1, FS_AddElement DEF Files
<1>7. Files(g)
  BY <1>4, <1>5, <1>6 DEF Files
<1>8. \A m : IsTop(g, m) <=> m = b
  <2>1. IsTop(g, b)
    BY <1>1, <1>2 DEF IsTop
  <2>2. ASSUME NEW m, IsTop(g, m) PROVE m = b
    <3>1. m \in DOMAIN g /\ b <= m
      BY <1>1, <2>2 DEF IsTop
    <3>2. m \in DOMAIN files => m \in Nat /\ m < b
      BY <1>2
    <3> QED
      BY <3>1, <3>2, <1>1
  <2> QED
    BY <2>1, <2>2
<1> QED
  BY <1>1, <1>2, <1>3, <1>7, <1>8 DEF IsRotated

\* h is the files of f in S put over those of g.
IsOver(h, f, S, g) ==
  /\ Files(h) /\ DOMAIN h = (DOMAIN f \cap S) \cup DOMAIN g
  /\ \A i \in DOMAIN f \cap S : h[i] = f[i]
  /\ \A i \in DOMAIN g \ (DOMAIN f \cap S) : h[i] = g[i]

\* h is the files of f that are not in S.
IsWithout(h, f, S) ==
  Files(h) /\ DOMAIN h = DOMAIN f \ S /\ \A i \in DOMAIN f \ S : h[i] = f[i]

\* Files put over others.
LEMMA OverShape ==
  ASSUME NEW f, Files(f), NEW g, Files(g), NEW S, NEW h, h = Over(Only(f, S), g)
  PROVE  IsOver(h, f, S, g)
<1>1. DOMAIN h = (DOMAIN f \cap S) \cup DOMAIN g
  BY DEF Over, Only
<1>2. \A i \in DOMAIN f \cap S : h[i] = f[i]
  BY DEF Over, Only
<1>3. \A i \in DOMAIN g \ (DOMAIN f \cap S) : h[i] = g[i]
  BY DEF Over, Only
<1>4. h = [i \in DOMAIN h |-> h[i]]
  BY DEF Over
<1>5. \A i \in DOMAIN h : IsSeq(h[i])
  BY <1>1, <1>2, <1>3 DEF Files
<1>6. DOMAIN f \cap S \in SUBSET DOMAIN f /\ IsFiniteSet(DOMAIN f)
  BY DEF Files
<1>7. IsFiniteSet(DOMAIN f \cap S)
  BY <1>6, FS_Subset
<1>8. IsFiniteSet(DOMAIN h)
  <2>1. IsFiniteSet(DOMAIN g)
    BY DEF Files
  <2> QED
    BY <2>1, <1>1, <1>7, FS_Union
<1>9. DOMAIN h \subseteq Nat
  BY <1>1 DEF Files
<1> QED
  BY <1>1, <1>2, <1>3, <1>4, <1>5, <1>8, <1>9 DEF Files, IsOver

\* Files taken away.
LEMMA WithoutShape ==
  ASSUME NEW f, Files(f), NEW S, NEW h, h = Without(f, S)
  PROVE  IsWithout(h, f, S)
<1>1. DOMAIN h = DOMAIN f \ S /\ \A i \in DOMAIN f \ S : h[i] = f[i]
  BY DEF Without
<1>2. DOMAIN h \in SUBSET DOMAIN f /\ IsFiniteSet(DOMAIN f)
  BY <1>1 DEF Files
<1>3. IsFiniteSet(DOMAIN h)
  BY <1>2, FS_Subset
<1> QED
  BY <1>1, <1>2, <1>3 DEF Files, Without, IsWithout

\* What the merge leaves.
LEMMA MergeShape ==
  ASSUME FilesOk, MergeWarm
  PROVE  /\ Files(warm)' /\ DOMAIN warm' = DOMAIN warm \ Highers
         /\ \A i \in DOMAIN warm \ Highers : i \notin Lowers => warm'[i] = warm[i]
         /\ \A i \in Lowers : /\ i \in DOMAIN warm' /\ Higher(i) \in DOMAIN warm
                              /\ warm'[i] = warm[i] \o warm[Higher(i)]
         /\ segs' = segs /\ proc' = proc /\ log' = log /\ muddled' = muddled /\ cold' = cold
         /\ anchor' = anchor /\ deleted' = deleted /\ snaps' = snaps /\ rows' = rows /\ rec' = rec
<1>1. warm' = [i \in DOMAIN warm \ Highers |->
                 IF i \in Lowers THEN warm[i] \o warm[Higher(i)] ELSE warm[i]]
  BY DEF MergeWarm, Lowers, Highers, Combined
<1>2. DOMAIN warm' = DOMAIN warm \ Highers
  BY <1>1
<1>3. \A i \in Lowers : i \in DOMAIN warm' /\ i \in DOMAIN warm /\ Higher(i) \in DOMAIN warm
  BY <1>2, PairsOk, RankGrows
<1>4. \A i \in Lowers : warm'[i] = warm[i] \o warm[Higher(i)]
  BY <1>1, <1>2, <1>3
<1>5. \A i \in DOMAIN warm \ Highers : i \notin Lowers => warm'[i] = warm[i]
  BY <1>1
<1>6. \A i \in DOMAIN warm : IsSeq(warm[i])
  BY DEF FilesOk, Files
<1>7. \A i \in DOMAIN warm' : IsSeq(warm'[i])
  <2> SUFFICES ASSUME NEW i \in DOMAIN warm' PROVE IsSeq(warm'[i])
    OBVIOUS
  <2>1. CASE i \in Lowers
    <3>1. IsSeq(warm[i]) /\ IsSeq(warm[Higher(i)])
      BY <2>1, <1>3, <1>6
    <3>2. IsSeq(warm[i] \o warm[Higher(i)])
      BY <3>1, CatOk
    <3> QED
      BY <3>2, <2>1, <1>4
  <2>2. CASE i \notin Lowers
    BY <2>2, <1>2, <1>5, <1>6
  <2> QED
    BY <2>1, <2>2
<1>8. DOMAIN warm' \in SUBSET DOMAIN warm /\ DOMAIN warm \subseteq Nat /\ IsFiniteSet(DOMAIN warm)
  BY <1>2 DEF FilesOk, Files
<1>9. IsFiniteSet(DOMAIN warm') /\ DOMAIN warm' \subseteq Nat
  BY <1>8, FS_Subset
<1>10. warm' = [i \in DOMAIN warm' |-> warm'[i]]
  BY <1>1
<1>11. Files(warm)'
  BY <1>7, <1>9, <1>10 DEF Files
<1>12. /\ segs' = segs /\ proc' = proc /\ log' = log /\ muddled' = muddled /\ cold' = cold
       /\ anchor' = anchor /\ deleted' = deleted /\ snaps' = snaps /\ rows' = rows /\ rec' = rec
  BY DEF MergeWarm, trailVars
<1> QED
  BY <1>2, <1>3, <1>4, <1>5, <1>11, <1>12


\* The memory of a process that opened the files.
Opened(files, m) ==
  [up |-> TRUE, active |-> m, size |-> Len(files[m]), seq |-> Len(Concat(files)),
   head |-> IF Concat(files) = <<>> THEN Genesis ELSE Last(Concat(files)).hash, fouled |-> FALSE]

\* A restart truncates the highest segment, opens and recovers.
LEMMA RestartShape ==
  ASSUME FilesOk, NEW b, Restart(b), NEW m \in Nat, IsTop(segs, m)
  PROVE  /\ Files(segs)' /\ DOMAIN segs' = DOMAIN segs /\ segs'[m] = ScanSegment(segs[m])
         /\ \A i \in DOMAIN segs : i # m => segs'[i] = segs[i]
         /\ \A n : IsTop(segs', n) <=> IsTop(segs, n)
         /\ rec' = RecoverState(segs', Opened(segs', m), IF b THEN LatestSnapshot ELSE {})
         /\ proc' = (IF rec'.result = "ok" THEN Opened(segs', m) ELSE Down)
         /\ ~proc.up /\ log' = log /\ muddled' = muddled /\ snaps' = snaps /\ rows' = rows
<1>1. Max(DOMAIN segs) = m /\ m \in DOMAIN segs /\ DOMAIN segs # {}
  BY ConcatTop DEF FilesOk, IsTop
<1>2. PICK files : files = [segs EXCEPT ![m] = ScanSegment(@)]
  OBVIOUS
<1>3. RecoverFiles(segs) = files
  BY <1>1, <1>2 DEF RecoverFiles, TruncateTail
<1>4. /\ DOMAIN files = DOMAIN segs /\ files[m] = ScanSegment(segs[m])
      /\ \A i \in DOMAIN segs : i # m => files[i] = segs[i]
  BY <1>1, <1>2
<1>5. OpenFiles(files) = files
  BY <1>1, <1>4 DEF OpenFiles
<1>6. segs' = files
  BY <1>3, <1>5 DEF Restart
<1>7. \A i \in DOMAIN files : IsSeq(files[i])
  <2>1. IsSeq(files[m])
    BY <1>1, <1>4, ScanIsSeq DEF FilesOk, Files
  <2> QED
    BY <2>1, <1>4 DEF FilesOk, Files
<1>8. files = [i \in DOMAIN files |-> files[i]]
  BY <1>2
<1>9. Files(segs)'
  BY <1>4, <1>6, <1>7, <1>8 DEF FilesOk, Files
<1>10. \A n : IsTop(files, n) <=> IsTop(segs, n)
  BY <1>4 DEF IsTop
<1>11. Open(files) = Opened(files, m)
  BY <1>1, <1>4 DEF Open, Opened
<1>12. /\ rec' = RecoverState(files, Opened(files, m), IF b THEN LatestSnapshot ELSE {})
       /\ proc' = (IF rec'.result = "ok" THEN Opened(files, m) ELSE Down)
  BY <1>3, <1>5, <1>11 DEF Restart
<1>13. ~proc.up /\ log' = log /\ muddled' = muddled /\ snaps' = snaps /\ rows' = rows
  BY DEF Restart
<1> QED
  BY <1>4, <1>6, <1>9, <1>10, <1>12, <1>13

\* An append: the frame, or the half of it that got to the disk.
Appends(x) ==
  segs' = Grown(segs, proc.active, x) /\ proc.up /\ muddled' = (muddled \/ proc.fouled)

\* The entry of the event.
NewFrame(e) == Frame(e, ChainHash(proc.head, e), Len(log) + 1)

\* The steps of the trail, by what they do to the segments.
LEMMA TrailSteps ==
  ASSUME FilesOk, TrailNext
  PROVE  \/ /\ segs' = segs /\ log' = log /\ muddled' = muddled /\ rows' = rows
            /\ proc.up /\ (proc' = proc \/ proc' = Down)
            /\ \/ snaps' = snaps
               \/ snaps' = Put(snaps, proc.seq, Replay(log))
               \/ snaps' = Put(snaps, proc.seq, Torn)
         \/ \E b : /\ Appends(Partial(b)) /\ log' = log /\ rows' = rows /\ snaps' = snaps
                   /\ (proc' = [proc EXCEPT !.fouled = TRUE] \/ proc' = Down)
         \/ \E e : Appends(NewFrame(e)) /\ log' = Append(log, e) /\ proc' = Down
                   /\ rows' = rows /\ snaps' = snaps
         \/ \E e : DoAppend(e)
         \/ \E b : Restart(b)
<1>1. CASE \E e \in Event : DoAppend(e)
  BY <1>1
<1>2. CASE \E e \in Event : CrashAfterWrite(e)
  BY <1>2 DEF CrashAfterWrite, Crash, WrittenFiles, Appends, NewFrame, Grown
<1>3. CASE \E b \in BOOLEAN : AppendFails(b)
  BY <1>3 DEF AppendFails, Appends, Grown
<1>4. CASE \E b \in BOOLEAN : Restart(b)
  BY <1>4
<1>5. CASE CrashIdle
  BY <1>5 DEF CrashIdle, Crash
<1>6. CASE CrashInAppend
  BY <1>6 DEF CrashInAppend, Crash, Appends, Grown
<1>7. CASE WriteSnapshot
  BY <1>7 DEF WriteSnapshot
<1>8. CASE CrashInSnapshot
  BY <1>8 DEF CrashInSnapshot, Crash
<1> QED
  BY <1>1, <1>2, <1>3, <1>4, <1>5, <1>6, <1>7, <1>8 DEF TrailNext

\* A completed append: written, counted, and rotated when the segment is full.
LEMMA DoAppendShape ==
  ASSUME FilesOk, NEW e, DoAppend(e)
  PROVE  \E g :
           /\ g = Grown(segs, proc.active, NewFrame(e))
           /\ \/ segs' = g /\ proc'.active = proc.active /\ proc'.size = proc.size + 1
              \/ /\ segs' = Put(g, proc.active + 1, <<>>)
                 /\ proc'.active = proc.active + 1 /\ proc'.size = 0
           /\ DOMAIN proc' = DOMAIN proc /\ proc'.up = proc.up /\ proc'.fouled = proc.fouled
           /\ proc'.seq = proc.seq + 1 /\ proc'.head = Append(proc.head, e)
           /\ log' = Append(log, e) /\ muddled' = (muddled \/ proc.fouled) /\ proc.up /\ snaps' = snaps
           /\ \/ rows' = rows
              \/ rows' = rows \cup {[sequence |-> proc.seq + 1, segment |-> proc.active,
                                    offset |-> proc.size, event |-> e]}
<1>1. PICK g : g = Grown(segs, proc.active, NewFrame(e))
  OBVIOUS
<1>2. WrittenFiles(e) = g
  BY <1>1 DEF WrittenFiles, NewFrame, Grown
<1>3. PICK old : old = proc
  OBVIOUS
<1>4. DOMAIN old = {"up", "active", "size", "seq", "head", "fouled"}
  BY <1>3 DEF FilesOk, DoAppend
<1>5. PICK mem : mem = [old EXCEPT !.size = @ + 1, !.seq = @ + 1, !.head = ChainHash(@, e)]
  OBVIOUS
<1>6. /\ DOMAIN mem = DOMAIN old /\ mem.up = old.up /\ mem.active = old.active /\ mem.size = old.size + 1
      /\ mem.seq = old.seq + 1 /\ mem.head = Append(old.head, e) /\ mem.fouled = old.fouled
  BY <1>4, <1>5 DEF ChainHash
<1>7. PICK r : r = Rotated(g, mem)
  OBVIOUS
<1>8. /\ (segs' = g /\ proc' = mem) \/ (segs' = r.files /\ proc' = r.mem)
      /\ (rows' = rows \/ rows' = rows \cup {Receipt(old, e)})
      /\ log' = Append(log, e) /\ muddled' = (muddled \/ proc.fouled) /\ proc.up /\ snaps' = snaps
  BY <1>2, <1>3, <1>5, <1>7 DEF DoAppend
<1>9. r.files = Put(g, mem.active + 1, <<>>) /\ r.mem = [mem EXCEPT !.active = @ + 1, !.size = 0]
  BY <1>7 DEF Rotated
<1>10. /\ DOMAIN r.mem = DOMAIN mem /\ r.mem.up = mem.up /\ r.mem.active = mem.active + 1
       /\ r.mem.size = 0 /\ r.mem.seq = mem.seq /\ r.mem.head = mem.head /\ r.mem.fouled = mem.fouled
  BY <1>4, <1>6, <1>9
<1>11. Receipt(old, e) = [sequence |-> old.seq + 1, segment |-> old.active, offset |-> old.size, event |-> e]
  BY DEF Receipt
<1>12. \/ segs' = g /\ proc'.active = proc.active /\ proc'.size = proc.size + 1
       \/ /\ segs' = Put(g, proc.active + 1, <<>>)
          /\ proc'.active = proc.active + 1 /\ proc'.size = 0
  BY <1>3, <1>6, <1>8, <1>9, <1>10
<1>13. /\ DOMAIN proc' = DOMAIN proc /\ proc'.up = proc.up /\ proc'.fouled = proc.fouled
       /\ proc'.seq = proc.seq + 1 /\ proc'.head = Append(proc.head, e)
  BY <1>3, <1>6, <1>8, <1>10
<1> QED
  BY <1>1, <1>3, <1>8, <1>11, <1>12, <1>13
-----------------------------------------------------------------------------
(* The shape of the directories                                            *)

\* What left stays below what is hot when the hot files are the same ones.
LEMMA SameTops ==
  ASSUME FilesOk, Files(segs)', DOMAIN segs' = DOMAIN segs, warm' = warm, cold' = cold, anchor' = anchor,
         IsSeq(log'), muddled' \in BOOLEAN, proc'.up \in BOOLEAN,
         proc'.up => /\ DOMAIN proc' = {"up", "active", "size", "seq", "head", "fouled"}
                     /\ IsTop(segs, proc'.active) /\ proc'.fouled \in BOOLEAN
  PROVE  FilesOk'
<1>1. \A m : IsTop(segs', m) <=> IsTop(segs, m)
  BY DEF IsTop
<1>2. \E m \in Nat : IsTop(segs, m)
  BY DEF FilesOk
<1>3. \A j \in DOMAIN warm \cup DOMAIN cold : ~IsTop(segs, j) /\ \A i \in DOMAIN segs : j <= i
  BY DEF FilesOk
<1>4. Files(warm) /\ Files(cold) /\ anchor \subseteq Nat
  BY DEF FilesOk
<1> QED
  BY <1>1, <1>2, <1>3, <1>4 DEF FilesOk, Files

\* The steps of the trail keep the shape.
LEMMA FilesTrail ==
  ASSUME FilesOk, TrailNext, UNCHANGED tierVars
  PROVE  FilesOk'
<1>1. /\ warm' = warm /\ cold' = cold /\ anchor' = anchor
  BY DEF tierVars
<1>2. /\ IsSeq(log) /\ muddled \in BOOLEAN /\ Files(segs) /\ proc.up \in BOOLEAN
      /\ proc.up => /\ DOMAIN proc = {"up", "active", "size", "seq", "head", "fouled"}
                    /\ IsTop(segs, proc.active) /\ proc.fouled \in BOOLEAN
  BY DEF FilesOk
<1>3. Down.up = FALSE
  BY DEF Down
<1>4. CASE segs' = segs /\ log' = log /\ muddled' = muddled /\ (proc' = proc \/ proc' = Down)
  BY <1>1, <1>2, <1>3, <1>4, SameTops DEF Files
<1>5. ASSUME NEW x, Appends(x), IsSeq(log'),
             proc' = [proc EXCEPT !.fouled = TRUE] \/ proc' = Down
      PROVE  FilesOk'
  <2>1. proc.up /\ segs' = Grown(segs, proc.active, x) /\ muddled' = (muddled \/ proc.fouled)
    BY <1>5 DEF Appends
  <2>2. proc.active \in DOMAIN segs
    BY <1>2, <2>1 DEF IsTop
  <2>3. Files(segs') /\ DOMAIN segs' = DOMAIN segs
    BY <1>2, <2>1, <2>2, AppendShape
  <2>4. muddled' \in BOOLEAN
    BY <1>2, <2>1
  <2>5. \/ proc'.up = FALSE
        \/ DOMAIN proc' = DOMAIN proc /\ proc'.active = proc.active /\ proc'.fouled = TRUE /\ proc'.up = proc.up
    BY <1>2, <1>3, <1>5, <2>1
  <2>6. Files(segs)'
    BY <2>3 DEF Files
  <2> QED
    BY <1>1, <1>2, <1>5, <2>1, <2>3, <2>4, <2>5, <2>6, SameTops
<1>6. ASSUME NEW e, DoAppend(e)
      PROVE  FilesOk'
  <2>1. PICK g :
           /\ g = Grown(segs, proc.active, NewFrame(e))
           /\ \/ segs' = g /\ proc'.active = proc.active /\ proc'.size = proc.size + 1
              \/ /\ segs' = Put(g, proc.active + 1, <<>>)
                 /\ proc'.active = proc.active + 1 /\ proc'.size = 0
           /\ DOMAIN proc' = DOMAIN proc /\ proc'.up = proc.up /\ proc'.fouled = proc.fouled
           /\ log' = Append(log, e) /\ muddled' = (muddled \/ proc.fouled) /\ proc.up
    BY <1>6, DoAppendShape
  <2>2. proc.active \in DOMAIN segs /\ proc.active \in Nat
    BY <1>2, <2>1 DEF IsTop, Files
  <2>3. PICK a \in Nat : a = proc.active
    BY <2>2
  <2>4. Files(g) /\ DOMAIN g = DOMAIN segs /\ (\A m : IsTop(g, m) <=> IsTop(segs, m))
    <3>1. PICK x : x = NewFrame(e)
      OBVIOUS
    <3>2. Files(segs) /\ proc.active \in DOMAIN segs /\ g = Grown(segs, proc.active, x)
      BY <1>2, <2>1, <2>2, <3>1
    <3> QED
      BY <3>2, AppendShape
  <2>5. IsSeq(log') /\ muddled' \in BOOLEAN
    BY <1>2, <2>1, AppendOk
  <2>6. CASE segs' = g /\ proc'.active = proc.active
    <3>1. Files(segs)' /\ DOMAIN segs' = DOMAIN segs
      BY <2>4, <2>6 DEF Files
    <3> QED
      BY <1>1, <1>2, <2>1, <2>5, <2>6, <3>1, SameTops
  <2>7. CASE segs' = Put(g, a + 1, <<>>) /\ proc'.active = a + 1
    <3>1. IsTop(g, a)
      BY <1>2, <2>1, <2>3, <2>4
    <3>0. PICK b \in Nat : b = a + 1
      OBVIOUS
    <3>9. PICK h : h = Put(g, b, <<>>)
      OBVIOUS
    <3>10. IsRotated(h, g, b)
      <4>1. Files(g)
        BY <2>4
      <4> QED
        BY <3>0, <3>1, <3>9, <4>1, RotateShape
    <3>2. /\ Files(segs') /\ DOMAIN segs' = DOMAIN g \cup {a + 1}
          /\ \A m : IsTop(segs', m) <=> m = a + 1
      BY <2>7, <3>0, <3>9, <3>10 DEF IsRotated
    <3>3. \A j \in DOMAIN warm \cup DOMAIN cold : j <= a /\ j \in Nat
      BY <2>2, <2>3 DEF FilesOk, Files
    <3>4. \A j \in DOMAIN warm \cup DOMAIN cold : ~IsTop(segs', j) /\ \A i \in DOMAIN segs' : j <= i
      <4> SUFFICES ASSUME NEW j \in DOMAIN warm \cup DOMAIN cold
                   PROVE  j # a + 1 /\ j <= a + 1 /\ \A i \in DOMAIN segs : j <= i
        BY <2>4, <3>2
      <4>1. \A i \in DOMAIN segs : j <= i
        BY DEF FilesOk
      <4> QED
        BY <3>3, <4>1
    <3>5. a + 1 \in Nat /\ IsTop(segs', a + 1)
      BY <3>2
    <3>6. Files(warm) /\ Files(cold) /\ anchor \subseteq Nat
      BY DEF FilesOk
    <3>7. Files(segs)' /\ Files(warm)' /\ Files(cold)' /\ anchor' \subseteq Nat
      BY <1>1, <3>2, <3>6 DEF Files
    <3>8. /\ proc'.up \in BOOLEAN /\ proc'.fouled \in BOOLEAN /\ IsTop(segs', proc'.active)
          /\ DOMAIN proc' = {"up", "active", "size", "seq", "head", "fouled"}
      BY <1>2, <2>1, <2>7, <3>5
    <3> QED
      BY <1>1, <2>5, <3>4, <3>5, <3>7, <3>8 DEF FilesOk
  <2> QED
    BY <2>1, <2>3, <2>6, <2>7
<1>7. ASSUME NEW b, Restart(b)
      PROVE  FilesOk'
  <2>1. PICK m \in Nat : IsTop(segs, m)
    BY DEF FilesOk
  <2>2. /\ Files(segs)' /\ DOMAIN segs' = DOMAIN segs
        /\ proc' = Opened(segs', m) \/ proc' = Down
        /\ log' = log /\ muddled' = muddled
    BY <1>7, <2>1, RestartShape
  <2>3. \/ proc'.up = FALSE
        \/ /\ proc'.up = TRUE /\ proc'.active = m /\ proc'.fouled = FALSE
           /\ DOMAIN proc' = {"up", "active", "size", "seq", "head", "fouled"}
    BY <2>2, <1>3 DEF Opened
  <2> QED
    BY <1>1, <1>2, <2>1, <2>2, <2>3, SameTops
<1>8. ASSUME NEW e, Appends(NewFrame(e)), log' = Append(log, e), proc' = Down
      PROVE  FilesOk'
  <2>1. IsSeq(log')
    BY <1>2, <1>8, AppendOk
  <2> QED
    BY <1>5, <1>8, <2>1
<1>9. ASSUME NEW b, Appends(Partial(b)), log' = log,
             proc' = [proc EXCEPT !.fouled = TRUE] \/ proc' = Down
      PROVE  FilesOk'
  BY <1>2, <1>5, <1>9
<1> QED
  BY <1>4, <1>6, <1>7, <1>8, <1>9, TrailSteps

\* The part of a set of files that a transition has moved: downward closed and
\* without the highest file.
Movable(S) ==
  /\ S \subseteq DOMAIN segs /\ (\A m \in S : ~IsTop(segs, m))
  /\ \A j \in S, i \in DOMAIN segs : i < j => i \in S

\* A move of the oldest hot files, complete or stopped before the last removal.
MoveStep(S, D) ==
  /\ Movable(S) /\ D \subseteq S /\ (\A i \in S \ D : \A j \in S : j <= i)
  /\ warm' = Over(Only(segs, S), warm) /\ segs' = Without(segs, D)
  /\ cold' = cold /\ log' = log /\ muddled' = muddled /\ anchor' = anchor
  /\ rows' = rows /\ snaps' = snaps /\ deleted' = deleted /\ proc.up
  /\ (proc' = proc /\ D = S /\ S # {}) \/ (proc' = Down /\ S # {})

\* Both transitions out of the hot tier are such moves.
LEMMA MoveSteps ==
  ASSUME FilesOk, HotToWarm \/ \E i : CrashInHotToWarm(i)
  PROVE  \E S, D : MoveStep(S, D)
<1>1. CASE HotToWarm
  <2>1. Movable(HotExcess) /\ HotExcess # {}
    BY <1>1, ExcessOk DEF Movable, HotToWarm
  <2>2. MoveStep(HotExcess, HotExcess)
    BY <1>1, <2>1 DEF MoveStep, HotToWarm
  <2> QED
    BY <2>2
<1>2. ASSUME NEW n, CrashInHotToWarm(n)
      PROVE  \E S, D : MoveStep(S, D)
  <2>1. PICK D : D = {i \in HotExcess : i < n}
    OBVIOUS
  <2>2. PICK S : S = D \cup {n}
    OBVIOUS
  <2>3. n \in HotExcess /\ proc.up /\ proc' = Down
    BY <1>2 DEF CrashInHotToWarm, Crash
  <2>4. HotExcess \subseteq DOMAIN segs /\ DOMAIN segs \subseteq Nat
    BY ExcessOk DEF FilesOk, Files
  <2>5. \A j \in S, i \in DOMAIN segs : i < j => i \in S
    <3> SUFFICES ASSUME NEW j \in S, NEW i \in DOMAIN segs, i < j PROVE i \in S
      OBVIOUS
    <3>1. j \in HotExcess /\ j <= n /\ i \in Nat /\ j \in Nat /\ n \in Nat
      BY <2>1, <2>2, <2>3, <2>4
    <3>2. i \in HotExcess
      BY <3>1, ExcessOk
    <3> QED
      BY <2>1, <2>2, <3>1, <3>2
  <2>6. Movable(S)
    BY <2>1, <2>2, <2>3, <2>4, <2>5, ExcessOk DEF Movable
  <2>7. \A i \in S \ D : \A j \in S : j <= i
    BY <2>1, <2>2, <2>3, <2>4
  <2>8. warm' = Over(Only(segs, S), warm) /\ segs' = Without(segs, D)
    BY <1>2, <2>1, <2>2 DEF CrashInHotToWarm, PartialMove
  <2>9. /\ cold' = cold /\ log' = log /\ muddled' = muddled /\ anchor' = anchor
        /\ rows' = rows /\ snaps' = snaps /\ deleted' = deleted
    BY <1>2 DEF CrashInHotToWarm
  <2>10. MoveStep(S, D)
    BY <2>2, <2>3, <2>6, <2>7, <2>8, <2>9 DEF MoveStep
  <2> QED
    BY <2>10
<1> QED
  BY <1>1, <1>2

\* What a move does to the directories.
LEMMA MoveShape ==
  ASSUME FilesOk, NEW S, NEW D, MoveStep(S, D)
  PROVE  /\ Files(segs)' /\ Files(warm)' /\ S \subseteq DOMAIN segs /\ D \subseteq S
         /\ DOMAIN segs' = DOMAIN segs \ D /\ (\A i \in DOMAIN segs' : segs'[i] = segs[i])
         /\ DOMAIN warm' = S \cup DOMAIN warm
         /\ (\A i \in S : warm'[i] = segs[i]) /\ (\A i \in DOMAIN warm \ S : warm'[i] = warm[i])
         /\ \A m : IsTop(segs', m) <=> IsTop(segs, m)
<1>1. S \subseteq DOMAIN segs /\ D \subseteq S /\ Files(segs) /\ Files(warm)
  BY DEF FilesOk, MoveStep, Movable
<1>2. /\ Files(segs') /\ DOMAIN segs' = DOMAIN segs \ D
      /\ \A i \in DOMAIN segs \ D : segs'[i] = segs[i]
  <2>1. PICK h : h = Without(segs, D)
    OBVIOUS
  <2>2. IsWithout(h, segs, D)
    BY <1>1, <2>1, WithoutShape
  <2> QED
    BY <2>1, <2>2 DEF MoveStep, IsWithout
<1>3. /\ Files(warm') /\ DOMAIN warm' = (DOMAIN segs \cap S) \cup DOMAIN warm
      /\ \A i \in DOMAIN segs \cap S : warm'[i] = segs[i]
      /\ \A i \in DOMAIN warm \ (DOMAIN segs \cap S) : warm'[i] = warm[i]
  <2>1. PICK h : h = Over(Only(segs, S), warm)
    OBVIOUS
  <2>2. IsOver(h, segs, S, warm)
    BY <1>1, <2>1, OverShape
  <2> QED
    BY <2>1, <2>2 DEF MoveStep, IsOver
<1>4. PICK m \in Nat : IsTop(segs, m)
  BY DEF FilesOk
<1>5. m \notin D
  BY <1>1, <1>4 DEF MoveStep, Movable
<1>6. ASSUME NEW n, IsTop(segs', n) PROVE IsTop(segs, n)
  <2>1. n \in DOMAIN segs /\ m <= n /\ n <= m /\ n \in Nat
    BY <1>1, <1>2, <1>4, <1>5, <1>6 DEF IsTop, Files
  <2> QED
    BY <2>1, <1>4
<1>7. ASSUME NEW n, IsTop(segs, n) PROVE IsTop(segs', n)
  <2>1. n \notin D
    BY <1>1, <1>7 DEF MoveStep, Movable
  <2> QED
    BY <2>1, <1>2, <1>7 DEF IsTop
<1>8. Files(segs)' /\ Files(warm)'
  BY <1>2, <1>3 DEF Files
<1>9. DOMAIN warm' = S \cup DOMAIN warm /\ (\A i \in S : warm'[i] = segs[i])
      /\ (\A i \in DOMAIN warm \ S : warm'[i] = warm[i])
  <2>1. DOMAIN segs \cap S = S
    BY <1>1
  <2> QED
    BY <2>1, <1>3
<1> QED
  BY <1>1, <1>2, <1>6, <1>7, <1>8, <1>9

\* A move keeps the shape.
LEMMA FilesMove ==
  ASSUME FilesOk, NEW S, NEW D, MoveStep(S, D)
  PROVE  FilesOk'
<1>1. /\ Files(segs)' /\ Files(warm)' /\ S \subseteq DOMAIN segs /\ D \subseteq S
      /\ DOMAIN segs' = DOMAIN segs \ D
      /\ DOMAIN warm' = S \cup DOMAIN warm
      /\ \A m : IsTop(segs', m) <=> IsTop(segs, m)
  BY MoveShape
<1>2. /\ cold' = cold /\ log' = log /\ muddled' = muddled /\ anchor' = anchor
      /\ Movable(S) /\ (\A i \in S \ D : \A j \in S : j <= i)
      /\ proc' = proc \/ proc' = Down
  BY DEF MoveStep
<1>3. \A j \in DOMAIN warm' \cup DOMAIN cold' : ~IsTop(segs', j) /\ \A i \in DOMAIN segs' : j <= i
  <2> SUFFICES ASSUME NEW j \in S \cup DOMAIN warm \cup DOMAIN cold
               PROVE  ~IsTop(segs, j) /\ \A i \in DOMAIN segs \ D : j <= i
    BY <1>1, <1>2
  <2>1. CASE j \in DOMAIN warm \cup DOMAIN cold
    BY <2>1 DEF FilesOk
  <2>2. CASE j \in S
    <3>1. ~IsTop(segs, j)
      BY <2>2, <1>2 DEF Movable
    <3>2. ASSUME NEW i \in DOMAIN segs \ D PROVE j <= i
      <4>1. i \in Nat /\ j \in Nat
        BY <1>1, <2>2 DEF FilesOk, Files
      <4>2. i < j => i \in S
        BY <1>2, <2>2 DEF Movable
      <4>3. i \in S => j <= i
        BY <1>2, <2>2
      <4> QED
        BY <4>1, <4>2, <4>3
    <3> QED
      BY <3>1, <3>2
  <2> QED
    BY <2>1, <2>2
<1>4. Down.up = FALSE
  BY DEF Down
<1>5. /\ IsSeq(log) /\ muddled \in BOOLEAN /\ anchor \subseteq Nat /\ Files(cold)
      /\ \E m \in Nat : IsTop(segs, m)
      /\ proc.up \in BOOLEAN
      /\ proc.up => /\ DOMAIN proc = {"up", "active", "size", "seq", "head", "fouled"}
                    /\ IsTop(segs, proc.active) /\ proc.fouled \in BOOLEAN
  BY DEF FilesOk
<1>6. Files(cold)'
  BY <1>2, <1>5 DEF Files
<1>7. /\ proc'.up \in BOOLEAN
      /\ proc'.up => /\ DOMAIN proc' = {"up", "active", "size", "seq", "head", "fouled"}
                     /\ IsTop(segs', proc'.active) /\ proc'.fouled \in BOOLEAN
  BY <1>1, <1>2, <1>4, <1>5
<1>8. \E m \in Nat : IsTop(segs', m)
  BY <1>1, <1>5
<1> QED
  BY <1>1, <1>2, <1>3, <1>5, <1>6, <1>7, <1>8 DEF FilesOk

\* What the later tiers do leaves the hot one alone.
LEMMA FilesTiers ==
  ASSUME FilesOk, segs' = segs, proc' = proc, log' = log, muddled' = muddled,
         anchor' \subseteq Nat, Files(warm)', Files(cold)',
         DOMAIN warm' \subseteq DOMAIN warm, DOMAIN cold' \subseteq DOMAIN cold \cup DOMAIN warm
  PROVE  FilesOk'
<1>1. Files(segs)'
  BY DEF FilesOk, Files
<1>2. \A m : IsTop(segs', m) <=> IsTop(segs, m)
  BY DEF IsTop
<1>3. \A j \in DOMAIN warm' \cup DOMAIN cold' : ~IsTop(segs', j) /\ \A i \in DOMAIN segs' : j <= i
  BY <1>2 DEF FilesOk
<1> QED
  BY <1>1, <1>2, <1>3 DEF FilesOk

\* What a move to the cold tier does, and a cleanup there.
LEMMA ColdShape ==
  ASSUME FilesOk
  PROVE  /\ WarmToCold =>
              /\ Files(warm)' /\ Files(cold)'
              /\ DOMAIN warm' = DOMAIN warm \ OldWarm /\ OldWarm \subseteq DOMAIN warm
              /\ DOMAIN cold' = OldWarm \cup DOMAIN cold
              /\ (\A i \in DOMAIN warm' : warm'[i] = warm[i])
              /\ (\A i \in OldWarm : cold'[i] = warm[i])
              /\ (\A i \in DOMAIN cold \ OldWarm : cold'[i] = cold[i])
              /\ deleted' = deleted
         /\ CleanupCold =>
              /\ Files(cold)' /\ warm' = warm /\ DOMAIN cold' \subseteq DOMAIN cold
              /\ (\A i \in DOMAIN cold' : cold'[i] = cold[i])
              /\ deleted' = deleted \cup Frames(Only(cold, DOMAIN cold \ DOMAIN cold'))
<1>1. Files(warm) /\ Files(cold) /\ OldWarm \subseteq DOMAIN warm
  BY DEF FilesOk, OldWarm
<1>2. ASSUME WarmToCold
      PROVE  /\ Files(warm)' /\ Files(cold)'
             /\ DOMAIN warm' = DOMAIN warm \ OldWarm
             /\ DOMAIN cold' = OldWarm \cup DOMAIN cold
             /\ (\A i \in DOMAIN warm' : warm'[i] = warm[i])
             /\ (\A i \in OldWarm : cold'[i] = warm[i])
             /\ (\A i \in DOMAIN cold \ OldWarm : cold'[i] = cold[i])
             /\ deleted' = deleted
  <2>1. /\ cold' = Over(Only(warm, OldWarm), cold) /\ warm' = Without(warm, OldWarm)
        /\ deleted' = deleted
    BY <1>2 DEF WarmToCold
  <2>2. /\ Files(warm') /\ DOMAIN warm' = DOMAIN warm \ OldWarm
        /\ \A i \in DOMAIN warm \ OldWarm : warm'[i] = warm[i]
    <3>1. PICK h : h = Without(warm, OldWarm)
      OBVIOUS
    <3>2. IsWithout(h, warm, OldWarm)
      BY <1>1, <3>1, WithoutShape
    <3> QED
      BY <2>1, <3>1, <3>2 DEF IsWithout
  <2>3. /\ Files(cold') /\ DOMAIN cold' = (DOMAIN warm \cap OldWarm) \cup DOMAIN cold
        /\ \A i \in DOMAIN warm \cap OldWarm : cold'[i] = warm[i]
        /\ \A i \in DOMAIN cold \ (DOMAIN warm \cap OldWarm) : cold'[i] = cold[i]
    <3>1. PICK h : h = Over(Only(warm, OldWarm), cold)
      OBVIOUS
    <3>2. IsOver(h, warm, OldWarm, cold)
      BY <1>1, <3>1, OverShape
    <3> QED
      BY <2>1, <3>1, <3>2 DEF IsOver
  <2>4. DOMAIN warm \cap OldWarm = OldWarm
    BY <1>1
  <2>5. Files(warm)' /\ Files(cold)'
    BY <2>2, <2>3 DEF Files
  <2> QED
    BY <2>1, <2>2, <2>3, <2>4, <2>5
<1>3. ASSUME CleanupCold
      PROVE  /\ Files(cold)' /\ warm' = warm /\ DOMAIN cold' \subseteq DOMAIN cold
             /\ (\A i \in DOMAIN cold' : cold'[i] = cold[i])
             /\ deleted' = deleted \cup Frames(Only(cold, DOMAIN cold \ DOMAIN cold'))
  <2>1. PICK old : old = DOMAIN cold \cap aged
    OBVIOUS
  <2>2. /\ deleted' = deleted \cup Frames(Only(cold, old)) /\ cold' = Without(cold, old) /\ warm' = warm
    BY <1>3, <2>1 DEF CleanupCold
  <2>3. /\ Files(cold') /\ DOMAIN cold' = DOMAIN cold \ old
        /\ \A i \in DOMAIN cold \ old : cold'[i] = cold[i]
    <3>1. PICK h : h = Without(cold, old)
      OBVIOUS
    <3>2. IsWithout(h, cold, old)
      BY <1>1, <3>1, WithoutShape
    <3> QED
      BY <2>2, <3>1, <3>2 DEF IsWithout
  <2>4. old = DOMAIN cold \ DOMAIN cold'
    BY <2>1, <2>3
  <2>5. Files(cold)'
    BY <2>3 DEF Files
  <2> QED
    BY <2>2, <2>3, <2>4, <2>5
<1> QED
  BY <1>1, <1>2, <1>3

\* Every step keeps the shape.
LEMMA FilesNext ==
  ASSUME FilesOk, TiersNext
  PROVE  FilesOk'
<1>1. CASE TrailNext /\ UNCHANGED tierVars
  BY <1>1, FilesTrail
<1>2. CASE \E n \in 1..MaxLog : SetAnchor(n)
  <2>1. PICK n \in 1..MaxLog : SetAnchor(n)
    BY <1>2
  <2>2. anchor' \subseteq Nat
    BY <2>1 DEF SetAnchor
  <2>3. segs' = segs /\ proc' = proc /\ log' = log /\ muddled' = muddled /\ warm' = warm /\ cold' = cold
    BY <2>1 DEF SetAnchor, trailVars
  <2>4. Files(warm)' /\ Files(cold)'
    BY <2>3 DEF FilesOk, Files
  <2> QED
    BY <2>2, <2>3, <2>4, FilesTiers
<1>3. CASE \E i \in 0..MaxLog : Age(i)
  <2>1. /\ segs' = segs /\ proc' = proc /\ log' = log /\ muddled' = muddled /\ warm' = warm /\ cold' = cold
        /\ anchor' = anchor
    BY <1>3 DEF Age, trailVars
  <2>2. Files(warm)' /\ Files(cold)' /\ anchor' \subseteq Nat
    BY <2>1 DEF FilesOk, Files
  <2> QED
    BY <2>1, <2>2, FilesTiers
<1>4. CASE HotToWarm \/ \E i : CrashInHotToWarm(i)
  BY <1>4, MoveSteps, FilesMove
<1>5. CASE WarmToCold
  <2>1. segs' = segs /\ proc' = proc /\ log' = log /\ muddled' = muddled /\ anchor' = anchor
    BY <1>5 DEF WarmToCold, trailVars
  <2>2. /\ Files(warm)' /\ Files(cold)' /\ DOMAIN warm' \subseteq DOMAIN warm
        /\ DOMAIN cold' \subseteq DOMAIN cold \cup DOMAIN warm
    BY <1>5, ColdShape
  <2>3. anchor' \subseteq Nat
    BY <2>1 DEF FilesOk
  <2> QED
    BY <2>1, <2>2, <2>3, FilesTiers
<1>6. CASE CleanupCold
  <2>1. segs' = segs /\ proc' = proc /\ log' = log /\ muddled' = muddled /\ anchor' = anchor
    BY <1>6 DEF CleanupCold, trailVars
  <2>2. /\ warm' = warm /\ Files(cold)' /\ DOMAIN cold' \subseteq DOMAIN cold
    BY <1>6, ColdShape
  <2>3. anchor' \subseteq Nat /\ Files(warm)'
    BY <2>1, <2>2 DEF FilesOk, Files
  <2> QED
    BY <2>1, <2>2, <2>3, FilesTiers
<1>7. CASE MergeWarm
  <2>1. /\ Files(warm)' /\ DOMAIN warm' = DOMAIN warm \ Highers
        /\ segs' = segs /\ proc' = proc /\ log' = log /\ muddled' = muddled /\ cold' = cold
        /\ anchor' = anchor
    BY <1>7, MergeShape
  <2>2. Files(cold)' /\ anchor' \subseteq Nat
    BY <2>1 DEF FilesOk, Files
  <2> QED
    BY <2>1, <2>2, FilesTiers
<1> QED
  BY <1>1, <1>2, <1>3, <1>4, <1>5, <1>6, <1>7 DEF TiersNext
-----------------------------------------------------------------------------
(* The frames the tiers hold                                               *)

Held == Frames(segs) \cup Frames(warm) \cup Frames(cold) \cup deleted
Positions(F) == {f.pos : f \in {g \in F : ~IsPartial(g)}}

\* Where a frame is.
LEMMA InFrames ==
  ASSUME NEW files, Files(files), NEW f
  PROVE  f \in Frames(files) <=> \E i \in DOMAIN files : \E k \in 1..Len(files[i]) : f = files[i][k]
<1>1. \A i \in DOMAIN files : DOMAIN files[i] = 1..Len(files[i])
  BY SeqBasics DEF Files
<1>2. \A i \in DOMAIN files : f \in ToSet(files[i]) <=> \E k \in 1..Len(files[i]) : f = files[i][k]
  BY <1>1 DEF ToSet
<1> QED
  BY <1>2 DEF Frames

\* The same complete frames have the same positions.
LEMMA PositionsSame ==
  ASSUME NEW F, NEW G, \A f : ~IsPartial(f) => (f \in F <=> f \in G)
  PROVE  Positions(F) = Positions(G)
<1>1. {g \in F : ~IsPartial(g)} = {g \in G : ~IsPartial(g)}
  OBVIOUS
<1> QED
  BY <1>1 DEF Positions

\* The positions of the frames in the hot and the warm files.
LEMMA PositionBounds ==
  ASSUME FilesOk, NoTierLosesEntries, ~muddled
  PROVE  /\ Len(log) \in Nat
         /\ \A i \in DOMAIN segs : \A k \in 1..Len(segs[i]) :
              ~IsPartial(segs[i][k]) => segs[i][k].pos \in 1..Len(log)
         /\ \A i \in DOMAIN warm : \A k \in 1..Len(warm[i]) :
              ~IsPartial(warm[i][k]) => warm[i][k].pos \in 1..Len(log)
<1>1. Len(log) \in Nat
  BY SeqBasics DEF FilesOk
<1>2. Positions(Held) = 1..Len(log)
  BY DEF NoTierLosesEntries, Held, Positions
<1>3. \A f \in Held : ~IsPartial(f) => f.pos \in 1..Len(log)
  BY <1>2 DEF Positions
<1>4. Files(segs) /\ Files(warm)
  BY DEF FilesOk
<1>5. ASSUME NEW i \in DOMAIN segs, NEW k \in 1..Len(segs[i])
      PROVE  segs[i][k] \in Held
  <2>1. PICK f : f = segs[i][k]
    OBVIOUS
  <2>2. f \in Frames(segs)
    BY <2>1, <1>4, InFrames
  <2> QED
    BY <2>1, <2>2 DEF Held
<1>6. ASSUME NEW i \in DOMAIN warm, NEW k \in 1..Len(warm[i])
      PROVE  warm[i][k] \in Held
  <2>1. PICK f : f = warm[i][k]
    OBVIOUS
  <2>2. f \in Frames(warm)
    BY <2>1, <1>4, InFrames
  <2> QED
    BY <2>1, <2>2 DEF Held
<1> QED
  BY <1>1, <1>3, <1>5, <1>6
-----------------------------------------------------------------------------
(* The hot files                                                           *)

\* Positions grow along a file with a frame more, and half a frame has none.
LEMMA GrowsAppend ==
  ASSUME NEW s, IsSeq(s), Grows(s), NEW x,
         ~IsPartial(x) => \A k \in 1..Len(s) : ~IsPartial(s[k]) => s[k].pos < x.pos
  PROVE  Grows(Append(s, x))
<1>1. PICK t : t = Append(s, x)
  OBVIOUS
<1>2. Len(s) \in Nat
  BY SeqBasics
<1>3. Len(t) = Len(s) + 1 /\ (\A k \in 1..Len(s) : t[k] = s[k]) /\ t[Len(s) + 1] = x
  BY <1>1, AppendOk
<1>4. ASSUME NEW k \in 1..Len(t), NEW l \in 1..Len(t), k < l, ~IsPartial(t[k]), ~IsPartial(t[l])
      PROVE  t[k].pos < t[l].pos
  <2>1. k \in 1..Len(s)
    BY <1>2, <1>3, <1>4
  <2>2. CASE l \in 1..Len(s)
    BY <2>1, <2>2, <1>3, <1>4 DEF Grows
  <2>3. CASE l = Len(s) + 1
    BY <2>1, <2>3, <1>3, <1>4
  <2> QED
    BY <1>2, <1>3, <2>2, <2>3
<1> QED
  BY <1>1, <1>4 DEF Grows

\* And from one file to another.
LEMMA PrecedesAppend ==
  ASSUME NEW r, IsSeq(r), NEW s, IsSeq(s), Precedes(r, s), NEW x,
         ~IsPartial(x) => \A k \in 1..Len(r) : ~IsPartial(r[k]) => r[k].pos < x.pos
  PROVE  Precedes(r, Append(s, x))
<1>1. PICK t : t = Append(s, x)
  OBVIOUS
<1>2. Len(s) \in Nat
  BY SeqBasics
<1>3. Len(t) = Len(s) + 1 /\ (\A k \in 1..Len(s) : t[k] = s[k]) /\ t[Len(s) + 1] = x
  BY <1>1, AppendOk
<1>4. ASSUME NEW k \in 1..Len(r), NEW l \in 1..Len(t), ~IsPartial(r[k]), ~IsPartial(t[l])
      PROVE  r[k].pos < t[l].pos
  <2>2. CASE l \in 1..Len(s)
    BY <2>2, <1>3, <1>4 DEF Precedes
  <2>3. CASE l = Len(s) + 1
    BY <2>3, <1>3, <1>4
  <2> QED
    BY <1>2, <1>3, <2>2, <2>3
<1> QED
  BY <1>1, <1>4 DEF Precedes

\* An append to the highest file: half a frame, or one with the next position.
LEMMA HotGrown ==
  ASSUME NEW files, Files(files), HotFiles(files, FALSE), NEW a, IsTop(files, a),
         NEW x, NEW g, g = Grown(files, a, x),
         ~IsPartial(x) => \A i \in DOMAIN files : \A k \in 1..Len(files[i]) :
                            ~IsPartial(files[i][k]) => files[i][k].pos < x.pos
  PROVE  HotFiles(g, IsPartial(x))
<1>1. a \in DOMAIN files
  BY DEF IsTop
<1>2. /\ Files(g) /\ DOMAIN g = DOMAIN files /\ g[a] = Append(files[a], x)
      /\ \A i \in DOMAIN files : i # a => g[i] = files[i]
      /\ \A m : IsTop(g, m) <=> IsTop(files, m)
  BY <1>1, AppendShape
<1>3. \A i \in DOMAIN files : IsSeq(files[i]) /\ i \in Nat
  BY DEF Files
<1>4. \A i \in DOMAIN files : \A k \in 1..Len(files[i]) : ~IsPartial(files[i][k])
  BY DEF HotFiles
<1>5. PICK s : s = files[a]
  OBVIOUS
<1>6. PICK t : t = Append(s, x)
  OBVIOUS
<1>7. /\ IsSeq(s) /\ Len(s) \in Nat /\ Len(t) = Len(s) + 1 /\ IsSeq(t)
      /\ (\A k \in 1..Len(s) : t[k] = s[k]) /\ t[Len(s) + 1] = x
  BY <1>1, <1>3, <1>5, <1>6, AppendOk, SeqBasics
<1>8. g[a] = t
  BY <1>2, <1>5, <1>6
<1>9. ASSUME NEW i \in DOMAIN g, NEW k \in 1..Len(g[i]), IsPartial(g[i][k])
      PROVE  IsTop(g, i) /\ k = Len(g[i]) /\ IsPartial(x)
  <2>1. i = a
    BY <1>2, <1>4, <1>9
  <2>2. k \notin 1..Len(s)
    BY <1>1, <1>4, <1>5, <1>7, <1>8, <1>9, <2>1
  <2>3. k = Len(s) + 1
    BY <1>7, <1>8, <1>9, <2>1, <2>2
  <2> QED
    BY <1>2, <1>7, <1>8, <1>9, <2>1, <2>3
<1>10. \A i \in DOMAIN g : ~IsTop(g, i) => g[i] # <<>>
  <2> SUFFICES ASSUME NEW i \in DOMAIN g, ~IsTop(g, i) PROVE g[i] # <<>>
    OBVIOUS
  <2>1. i # a /\ ~IsTop(files, i)
    BY <1>2
  <2> QED
    BY <2>1, <1>2 DEF HotFiles
<1>11. \A k \in 1..Len(s) : ~IsPartial(x) /\ ~IsPartial(s[k]) => s[k].pos < x.pos
  BY <1>1, <1>5
<1>12. Grows(t)
  <2>1. Grows(s)
    BY <1>1, <1>5 DEF HotFiles
  <2> QED
    BY <2>1, <1>6, <1>7, <1>11, GrowsAppend
<1>13. \A i \in DOMAIN g : Grows(g[i])
  BY <1>2, <1>8, <1>12 DEF HotFiles
<1>14. ASSUME NEW i \in DOMAIN g, NEW j \in DOMAIN g, i < j
       PROVE  Precedes(g[i], g[j])
  <2>1. i # a /\ g[i] = files[i]
    BY <1>2, <1>3, <1>14 DEF IsTop
  <2>2. Precedes(files[i], files[j])
    BY <1>2, <1>14 DEF HotFiles
  <2>3. CASE j # a
    BY <2>1, <2>2, <2>3, <1>2
  <2>4. CASE j = a
    <3>1. PICK r : r = files[i]
      OBVIOUS
    <3>2. IsSeq(r) /\ Precedes(r, s)
      BY <1>2, <1>3, <1>5, <2>2, <2>4, <3>1
    <3>3. \A k \in 1..Len(r) : ~IsPartial(x) /\ ~IsPartial(r[k]) => r[k].pos < x.pos
      BY <1>2, <3>1
    <3>4. Precedes(r, t)
      BY <1>6, <1>7, <3>2, <3>3, PrecedesAppend
    <3> QED
      BY <1>8, <2>1, <2>4, <3>1, <3>4
  <2> QED
    BY <2>3, <2>4
<1> QED
  BY <1>9, <1>10, <1>13, <1>14 DEF HotFiles

\* Where no half frame is allowed there is none, so one may be allowed.
LEMMA HotWeaker ==
  ASSUME NEW files, NEW half, NEW other, HotFiles(files, half), half => other
  PROVE  HotFiles(files, other)
BY DEF HotFiles

\* A sealed file and a new empty one.
LEMMA HotRotated ==
  ASSUME NEW files, Files(files), HotFiles(files, FALSE), NEW a \in Nat, IsTop(files, a), files[a] # <<>>,
         NEW b \in Nat, b = a + 1, NEW g, g = Put(files, b, <<>>)
  PROVE  HotFiles(g, FALSE)
<1>1. /\ Files(g) /\ DOMAIN g = DOMAIN files \cup {b} /\ g[b] = <<>>
      /\ \A i \in DOMAIN files : g[i] = files[i] /\ i < b
      /\ \A m : IsTop(g, m) <=> m = b
  <2>1. IsRotated(g, files, b)
    BY RotateShape
  <2> QED
    BY <2>1 DEF IsRotated
<1>2. Len(<<>>) = 0
  BY EmptyIsSeq
<1>3. \A k \in 1..Len(<<>>) : FALSE
  BY <1>2
<1>4. Grows(<<>>) /\ \A s : Precedes(s, <<>>)
  BY <1>3 DEF Grows, Precedes
<1>5. \A i \in DOMAIN g : \A k \in 1..Len(g[i]) : ~IsPartial(g[i][k])
  BY <1>1, <1>3 DEF HotFiles
<1>6. \A i \in DOMAIN g : ~IsTop(g, i) => g[i] # <<>>
  <2> SUFFICES ASSUME NEW i \in DOMAIN files PROVE files[i] # <<>>
    BY <1>1
  <2>1. CASE IsTop(files, i)
    <3>1. i = a
      BY <2>1 DEF IsTop, Files
    <3> QED
      BY <3>1
  <2> QED
    BY <2>1 DEF HotFiles
<1>7. \A i \in DOMAIN g : Grows(g[i])
  BY <1>1, <1>4 DEF HotFiles
<1>8. ASSUME NEW i \in DOMAIN g, NEW j \in DOMAIN g, i < j PROVE Precedes(g[i], g[j])
  <2>1. CASE j = b
    BY <2>1, <1>1, <1>4
  <2>2. CASE j # b
    <3>1. j \in DOMAIN files /\ j < b /\ j \in Nat
      BY <2>2, <1>1 DEF Files
    <3>2. i # b
      BY <3>1, <1>8
    <3> QED
      BY <1>1, <1>8, <3>1, <3>2 DEF HotFiles
  <2> QED
    BY <2>1, <2>2
<1> QED
  BY <1>5, <1>6, <1>7, <1>8 DEF HotFiles

\* The truncation of the highest file.
LEMMA HotScanned ==
  ASSUME NEW files, Files(files), NEW half, HotFiles(files, half), NEW m, IsTop(files, m),
         NEW g, DOMAIN g = DOMAIN files, g[m] = ScanSegment(files[m]),
         \A i \in DOMAIN files : i # m => g[i] = files[i],
         \A n : IsTop(g, n) <=> IsTop(files, n)
  PROVE  HotFiles(g, FALSE)
<1>1. m \in DOMAIN files
  BY DEF IsTop
<1>2. PICK s : s = files[m]
  OBVIOUS
<1>3. PICK t : t = ScanSegment(s)
  OBVIOUS
<1>4. IsSeq(s) /\ TailOnly(s)
  BY <1>1, <1>2 DEF Files, HotFiles, TailOnly
<1>5. Len(s) \in Nat
  BY <1>4, SeqBasics
<1>6. /\ Len(t) \in Nat /\ Len(t) <= Len(s)
      /\ \A k \in 1..Len(t) : t[k] = s[k] /\ ~IsPartial(s[k])
  BY <1>3, <1>4, ScanTail
<1>7. \A k \in 1..Len(t) : k \in 1..Len(s)
  BY <1>5, <1>6
<1>8. g[m] = t
  BY <1>2, <1>3
<1>9. \A i \in DOMAIN g : i # m => ~IsTop(files, i)
  BY DEF IsTop, Files
<1>10. \A i \in DOMAIN g : \A k \in 1..Len(g[i]) : ~IsPartial(g[i][k])
  BY <1>6, <1>8, <1>9 DEF HotFiles
<1>11. \A i \in DOMAIN g : ~IsTop(g, i) => g[i] # <<>>
  BY DEF HotFiles
<1>12. Grows(t)
  <2>1. Grows(s)
    BY <1>1, <1>2 DEF HotFiles
  <2> QED
    BY <2>1, <1>6, <1>7 DEF Grows
<1>13. \A i \in DOMAIN g : Grows(g[i])
  BY <1>8, <1>12 DEF HotFiles
<1>14. ASSUME NEW i \in DOMAIN g, NEW j \in DOMAIN g, i < j PROVE Precedes(g[i], g[j])
  <2>1. Precedes(files[i], files[j])
    BY <1>14 DEF HotFiles
  <2>2. i # m
    BY <1>1, <1>14 DEF IsTop, Files
  <2>3. CASE j = m
    <3>1. PICK r : r = files[i]
      OBVIOUS
    <3>2. Precedes(r, s)
      BY <2>1, <2>3, <1>2, <3>1
    <3>3. Precedes(r, t)
      BY <3>2, <1>6, <1>7 DEF Precedes
    <3> QED
      BY <3>1, <3>3, <2>2, <2>3, <1>8
  <2> QED
    BY <2>1, <2>2, <2>3
<1> QED
  BY <1>10, <1>11, <1>13, <1>14 DEF HotFiles

\* The hot files that stay.
LEMMA HotLeft ==
  ASSUME NEW files, NEW half, HotFiles(files, half), NEW g, DOMAIN g \subseteq DOMAIN files,
         \A i \in DOMAIN g : g[i] = files[i], \A n : IsTop(g, n) <=> IsTop(files, n)
  PROVE  HotFiles(g, half)
<1>1. \A i \in DOMAIN g : \A k \in 1..Len(g[i]) : IsPartial(g[i][k]) => IsTop(g, i) /\ k = Len(g[i]) /\ half
  BY DEF HotFiles
<1>2. \A i \in DOMAIN g : ~IsTop(g, i) => g[i] # <<>>
  BY DEF HotFiles
<1>3. \A i \in DOMAIN g : Grows(g[i])
  BY DEF HotFiles
<1>4. \A i, j \in DOMAIN g : i < j => Precedes(g[i], g[j])
  BY DEF HotFiles
<1> QED
  BY <1>1, <1>2, <1>3, <1>4 DEF HotFiles

\* The files a completed append leaves, before the rotation if there is one.
LEMMA HotWritten ==
  ASSUME FilesOk, HotOk, NoTierLosesEntries, ~muddled, proc.up, ~proc.fouled,
         NEW e, NEW g, g = Grown(segs, proc.active, NewFrame(e))
  PROVE  HotFiles(g, FALSE)
<1>1. PICK x : x = NewFrame(e)
  OBVIOUS
<1>2. ~IsPartial(x) /\ x.pos = Len(log) + 1
  BY <1>1, PartialOrFrame DEF NewFrame
<1>3. \A i \in DOMAIN segs : \A k \in 1..Len(segs[i]) : ~IsPartial(segs[i][k]) => segs[i][k].pos < x.pos
  BY <1>2, PositionBounds
<1>4. HotFiles(segs, FALSE)
  BY HotWeaker DEF HotOk
<1>5. Files(segs) /\ IsTop(segs, proc.active)
  BY DEF FilesOk
<1>6. PICK a : a = proc.active
  OBVIOUS
<1>7. g = Grown(segs, a, x) /\ IsTop(segs, a)
  BY <1>1, <1>5, <1>6
<1>8. HotFiles(g, IsPartial(x))
  BY <1>2, <1>3, <1>4, <1>5, <1>7, HotGrown
<1> QED
  BY <1>2, <1>8 DEF HotFiles

\* Every step of a trail that is not muddled keeps the hot files.
LEMMA HotNext ==
  ASSUME FilesOk, HotOk, NoTierLosesEntries, ~muddled, TiersNext, ~muddled'
  PROVE  HotOk'
<1>1. Files(segs) /\ (proc.up => IsTop(segs, proc.active)) /\ proc.up \in BOOLEAN /\ Down.up = FALSE
  BY DEF FilesOk, Down
<1>2. ASSUME NEW half, HotFiles(segs', half), half => ~proc'.up \/ proc'.fouled
      PROVE  HotOk'
  BY <1>2 DEF HotOk, HotFiles
<1>3. CASE segs' = segs /\ (proc' = proc \/ proc' = Down)
  <2>1. HotFiles(segs', ~proc.up \/ proc.fouled)
    BY <1>3 DEF HotOk
  <2> QED
    BY <1>1, <1>2, <1>3, <2>1
<1>4. ASSUME NEW b, Appends(Partial(b)), proc' = [proc EXCEPT !.fouled = TRUE] \/ proc' = Down
      PROVE  HotOk'
  <2>1. PICK x : x = Partial(b)
    OBVIOUS
  <2>2. IsPartial(x)
    BY <2>1, PartialOrFrame
  <2>3. segs' = Grown(segs, proc.active, x) /\ proc.up /\ ~proc.fouled
    BY <1>4, <2>1 DEF Appends
  <2>4. HotFiles(segs, FALSE) /\ IsTop(segs, proc.active)
    BY <1>1, <2>3, HotWeaker DEF HotOk
  <2>5. PICK a : a = proc.active
    OBVIOUS
  <2>6. PICK g : g = Grown(segs, a, x)
    OBVIOUS
  <2>7. HotFiles(g, IsPartial(x))
    BY <1>1, <2>2, <2>4, <2>5, <2>6, HotGrown
  <2>8. ~proc'.up \/ proc'.fouled
    <3>1. DOMAIN proc = {"up", "active", "size", "seq", "head", "fouled"}
      BY <2>3 DEF FilesOk
    <3> QED
      BY <3>1, <1>1, <1>4
  <2> QED
    BY <1>2, <2>3, <2>5, <2>6, <2>7, <2>8
<1>5. ASSUME NEW e, Appends(NewFrame(e)), proc' = Down
      PROVE  HotOk'
  <2>1. proc.up /\ ~proc.fouled /\ segs' = Grown(segs, proc.active, NewFrame(e))
    BY <1>5 DEF Appends
  <2>2. HotFiles(segs', FALSE)
    BY <2>1, HotWritten
  <2> QED
    BY <1>2, <2>2
<1>6. ASSUME NEW e, DoAppend(e)
      PROVE  HotOk'
  <2>1. PICK g :
           /\ g = Grown(segs, proc.active, NewFrame(e))
           /\ \/ segs' = g
              \/ segs' = Put(g, proc.active + 1, <<>>)
           /\ muddled' = (muddled \/ proc.fouled) /\ proc.up
    BY <1>6, DoAppendShape
  <2>2. ~proc.fouled
    BY <2>1
  <2>3. HotFiles(g, FALSE)
    BY <2>1, <2>2, HotWritten
  <2>4. CASE segs' = g
    BY <1>2, <2>3, <2>4
  <2>5. CASE segs' = Put(g, proc.active + 1, <<>>)
    <3>1. proc.active \in DOMAIN segs /\ proc.active \in Nat
      BY <1>1, <2>1 DEF IsTop, Files
    <3>2. PICK a \in Nat : a = proc.active
      BY <3>1
    <3>3. PICK b \in Nat : b = a + 1
      OBVIOUS
    <3>4. PICK h : h = Put(g, b, <<>>)
      OBVIOUS
    <3>5. PICK x : x = NewFrame(e)
      OBVIOUS
    <3>6. g = Grown(segs, a, x) /\ a \in DOMAIN segs
      BY <2>1, <3>1, <3>2, <3>5
    <3>7. /\ Files(g) /\ g[a] = Append(segs[a], x)
          /\ \A m : IsTop(g, m) <=> IsTop(segs, m)
      BY <1>1, <3>6, AppendShape
    <3>8. IsTop(g, a)
      BY <1>1, <2>1, <3>2, <3>7
    <3>9. IsSeq(segs[a])
      BY <1>1, <3>6 DEF Files
    <3>10. g[a] # <<>>
      BY <3>7, <3>9, AppendOk, SeqBasics
    <3>11. HotFiles(h, FALSE)
      BY <2>3, <3>3, <3>4, <3>7, <3>8, <3>10, HotRotated
    <3> QED
      BY <1>2, <2>5, <3>2, <3>3, <3>4, <3>11
  <2> QED
    BY <2>1, <2>4, <2>5
<1>7. ASSUME NEW b, Restart(b)
      PROVE  HotOk'
  <2>1. PICK m \in Nat : IsTop(segs, m)
    BY DEF FilesOk
  <2>2. /\ DOMAIN segs' = DOMAIN segs /\ segs'[m] = ScanSegment(segs[m])
        /\ \A i \in DOMAIN segs : i # m => segs'[i] = segs[i]
        /\ \A n : IsTop(segs', n) <=> IsTop(segs, n)
    BY <1>7, <2>1, RestartShape
  <2>3. PICK half : HotFiles(segs, half)
    BY DEF HotOk
  <2>4. HotFiles(segs', FALSE)
    BY <1>1, <2>1, <2>2, <2>3, HotScanned
  <2> QED
    BY <1>2, <2>4
<1>8. CASE HotToWarm \/ \E i : CrashInHotToWarm(i)
  <2>1. PICK S, D : MoveStep(S, D)
    BY <1>8, MoveSteps
  <2>2. /\ DOMAIN segs' \subseteq DOMAIN segs /\ (\A i \in DOMAIN segs' : segs'[i] = segs[i])
        /\ \A m : IsTop(segs', m) <=> IsTop(segs, m)
    BY <2>1, MoveShape
  <2>3. HotFiles(segs', ~proc.up \/ proc.fouled)
    BY <2>2, HotLeft DEF HotOk
  <2>4. proc' = proc \/ proc' = Down
    BY <2>1 DEF MoveStep
  <2> QED
    BY <1>1, <1>2, <2>3, <2>4
<1>9. CASE (\E n \in 1..MaxLog : SetAnchor(n)) \/ \E i \in 0..MaxLog : Age(i)
  BY <1>3, <1>9 DEF SetAnchor, Age, trailVars
<1>10. CASE WarmToCold \/ CleanupCold \/ MergeWarm
  BY <1>3, <1>10 DEF WarmToCold, CleanupCold, MergeWarm, trailVars
<1>11. CASE TrailNext
  BY <1>3, <1>4, <1>5, <1>6, <1>7, <1>11, TrailSteps
<1> QED
  BY <1>8, <1>9, <1>10, <1>11 DEF TiersNext
-----------------------------------------------------------------------------
(* Nothing leaves the tiers                                                *)

\* The frames held after a step.
HeldNext == Frames(segs') \cup Frames(warm') \cup Frames(cold') \cup deleted'

\* The statement, by the positions held.
LEMMA LosesByPositions ==
  /\ NoTierLosesEntries <=> (~muddled => Positions(Held) = 1..Len(log))
  /\ NoTierLosesEntries' <=> (~muddled' => Positions(HeldNext) = 1..Len(log'))
<1>1. NoTierLosesEntries <=> (~muddled => Positions(Held) = 1..Len(log))
  BY DEF NoTierLosesEntries, Positions, Held
<1>2. NoTierLosesEntries' <=> (~muddled' => Positions(HeldNext) = 1..Len(log'))
  BY DEF NoTierLosesEntries, Positions, HeldNext, Frames
<1> QED
  BY <1>1, <1>2

\* The same complete frames as before.
LEMMA HeldSame ==
  ASSUME NoTierLosesEntries, ~muddled, log' = log,
         \A f : ~IsPartial(f) => (f \in HeldNext <=> f \in Held)
  PROVE  NoTierLosesEntries'
<1>1. PICK F : F = HeldNext
  OBVIOUS
<1>2. PICK G : G = Held
  OBVIOUS
<1>3. \A f : ~IsPartial(f) => (f \in F <=> f \in G)
  BY <1>1, <1>2
<1>4. Positions(F) = Positions(G)
  BY <1>3, PositionsSame
<1> QED
  BY <1>1, <1>2, <1>4, LosesByPositions

\* One complete frame more, with the next position.
LEMMA HeldMore ==
  ASSUME FilesOk, NoTierLosesEntries, ~muddled, NEW e, log' = Append(log, e),
         NEW x, ~IsPartial(x), x.pos = Len(log) + 1,
         \A f : ~IsPartial(f) => (f \in HeldNext <=> f \in Held \/ f = x)
  PROVE  NoTierLosesEntries'
<1>1. PICK F : F = HeldNext
  OBVIOUS
<1>2. PICK G : G = Held
  OBVIOUS
<1>3. PICK n \in Nat : n = Len(log)
  BY SeqBasics DEF FilesOk
<1>4. Len(log') = n + 1
  BY <1>3, AppendOk DEF FilesOk
<1>5. Positions(G) = 1..n
  BY <1>2, <1>3, LosesByPositions
<1>6. \A f : ~IsPartial(f) => (f \in F <=> f \in G \/ f = x)
  BY <1>1, <1>2
<1>7. \A p : p \in Positions(F) <=> p \in Positions(G) \/ p = x.pos
  <2>1. \A p : p \in Positions(F) <=> \E f \in F : ~IsPartial(f) /\ p = f.pos
    BY DEF Positions
  <2>2. \A p : p \in Positions(G) <=> \E f \in G : ~IsPartial(f) /\ p = f.pos
    BY DEF Positions
  <2> QED
    BY <2>1, <2>2, <1>6
<1>8. \A p : p \in 1..(n + 1) <=> p \in 1..n \/ p = n + 1
  BY <1>3
<1>9. Positions(F) = 1..(n + 1)
  BY <1>3, <1>5, <1>7, <1>8
<1> QED
  BY <1>1, <1>4, <1>9, LosesByPositions

\* The frames after an append to a file.
LEMMA FramesGrown ==
  ASSUME NEW files, Files(files), NEW a \in DOMAIN files, NEW x, NEW g, g = Grown(files, a, x), NEW f
  PROVE  f \in Frames(g) <=> f \in Frames(files) \/ f = x
<1>1. /\ Files(g) /\ DOMAIN g = DOMAIN files /\ g[a] = Append(files[a], x)
      /\ \A i \in DOMAIN files : i # a => g[i] = files[i]
  BY AppendShape
<1>2. PICK s : s = files[a]
  OBVIOUS
<1>3. IsSeq(s) /\ Len(s) \in Nat
  BY <1>2, SeqBasics DEF Files
<1>4. PICK t : t = Append(s, x)
  OBVIOUS
<1>5. /\ Len(t) = Len(s) + 1
      /\ (\A k \in 1..Len(s) : t[k] = s[k]) /\ t[Len(s) + 1] = x
  BY <1>3, <1>4, AppendOk
<1>6. g[a] = t
  BY <1>1, <1>2, <1>4
<1>7. f \in Frames(g) <=> \E i \in DOMAIN g : \E k \in 1..Len(g[i]) : f = g[i][k]
  BY <1>1, InFrames
<1>8. f \in Frames(files) <=> \E i \in DOMAIN files : \E k \in 1..Len(files[i]) : f = files[i][k]
  BY InFrames
<1>9. ASSUME f \in Frames(g) PROVE f \in Frames(files) \/ f = x
  <2>1. PICK i \in DOMAIN g : \E k \in 1..Len(g[i]) : f = g[i][k]
    BY <1>7, <1>9
  <2>2. PICK k \in 1..Len(g[i]) : f = g[i][k]
    BY <2>1
  <2>3. CASE i # a
    BY <1>1, <1>8, <2>2, <2>3
  <2>4. CASE i = a /\ k \in 1..Len(s)
    BY <1>2, <1>5, <1>6, <1>8, <2>2, <2>4
  <2>5. CASE i = a /\ k = Len(s) + 1
    BY <1>5, <1>6, <2>2, <2>5
  <2> QED
    BY <1>3, <1>5, <1>6, <2>3, <2>4, <2>5
<1>10. ASSUME f \in Frames(files) PROVE f \in Frames(g)
  <2>1. PICK i \in DOMAIN files : \E k \in 1..Len(files[i]) : f = files[i][k]
    BY <1>8, <1>10
  <2>2. PICK k \in 1..Len(files[i]) : f = files[i][k]
    BY <2>1
  <2>3. CASE i # a
    BY <1>1, <1>7, <2>2, <2>3
  <2>4. CASE i = a
    <3>1. k \in 1..Len(t) /\ f = t[k]
      BY <1>2, <1>3, <1>5, <2>2, <2>4
    <3> QED
      BY <3>1, <1>1, <1>6, <1>7
  <2> QED
    BY <2>3, <2>4
<1>11. ASSUME f = x PROVE f \in Frames(g)
  <2>1. Len(s) + 1 \in 1..Len(t) /\ f = t[Len(s) + 1]
    BY <1>3, <1>5, <1>11
  <2> QED
    BY <2>1, <1>1, <1>6, <1>7
<1> QED
  BY <1>9, <1>10, <1>11

\* A new empty file has none.
LEMMA FramesRotated ==
  ASSUME NEW files, Files(files), NEW a \in Nat, IsTop(files, a), NEW b \in Nat, b = a + 1,
         NEW g, g = Put(files, b, <<>>), NEW f
  PROVE  f \in Frames(g) <=> f \in Frames(files)
<1>1. /\ Files(g) /\ DOMAIN g = DOMAIN files \cup {b} /\ g[b] = <<>>
      /\ \A i \in DOMAIN files : g[i] = files[i] /\ i < b
      /\ \A m : IsTop(g, m) <=> m = b
  <2>1. IsRotated(g, files, b)
    BY RotateShape
  <2> QED
    BY <2>1 DEF IsRotated
<1>2. \A k \in 1..Len(<<>>) : FALSE
  BY EmptyIsSeq
<1>3. f \in Frames(g) <=> \E i \in DOMAIN g : \E k \in 1..Len(g[i]) : f = g[i][k]
  BY <1>1, InFrames
<1>4. f \in Frames(files) <=> \E i \in DOMAIN files : \E k \in 1..Len(files[i]) : f = files[i][k]
  BY InFrames
<1> QED
  BY <1>1, <1>2, <1>3, <1>4

\* The truncation drops no complete frame.
LEMMA FramesScanned ==
  ASSUME NEW files, Files(files), NEW half, HotFiles(files, half), NEW m, IsTop(files, m),
         NEW g, Files(g), DOMAIN g = DOMAIN files, g[m] = ScanSegment(files[m]),
         \A i \in DOMAIN files : i # m => g[i] = files[i], NEW f, ~IsPartial(f)
  PROVE  f \in Frames(g) <=> f \in Frames(files)
<1>1. m \in DOMAIN files
  BY DEF IsTop
<1>2. PICK s : s = files[m]
  OBVIOUS
<1>3. PICK t : t = ScanSegment(s)
  OBVIOUS
<1>4. IsSeq(s) /\ TailOnly(s)
  BY <1>1, <1>2 DEF Files, HotFiles, TailOnly
<1>5. Len(s) \in Nat
  BY <1>4, SeqBasics
<1>6. /\ Len(t) \in Nat /\ Len(t) <= Len(s)
      /\ \A k \in 1..Len(t) : t[k] = s[k]
      /\ \A k \in 1..Len(s) : ~IsPartial(s[k]) => k \in 1..Len(t)
  BY <1>3, <1>4, ScanTail
<1>7. \A k \in 1..Len(t) : k \in 1..Len(s)
  BY <1>5, <1>6
<1>8. g[m] = t
  BY <1>2, <1>3
<1>9. f \in Frames(g) <=> \E i \in DOMAIN g : \E k \in 1..Len(g[i]) : f = g[i][k]
  BY InFrames
<1>10. f \in Frames(files) <=> \E i \in DOMAIN files : \E k \in 1..Len(files[i]) : f = files[i][k]
  BY InFrames
<1>11. ASSUME f \in Frames(g) PROVE f \in Frames(files)
  <2>1. PICK i \in DOMAIN g : \E k \in 1..Len(g[i]) : f = g[i][k]
    BY <1>9, <1>11
  <2>2. CASE i = m
    BY <2>1, <2>2, <1>2, <1>6, <1>7, <1>8, <1>10
  <2> QED
    BY <2>1, <2>2, <1>10
<1>12. ASSUME f \in Frames(files) PROVE f \in Frames(g)
  <2>1. PICK i \in DOMAIN files : \E k \in 1..Len(files[i]) : f = files[i][k]
    BY <1>10, <1>12
  <2>2. CASE i = m
    BY <2>1, <2>2, <1>2, <1>6, <1>8, <1>9
  <2> QED
    BY <2>1, <2>2, <1>9
<1> QED
  BY <1>11, <1>12

\* A move out of the hot tier: a copy that is overwritten has the same content.
LEMMA FramesMove ==
  ASSUME FilesOk, MovedOk, NEW S, NEW D, MoveStep(S, D), NEW f
  PROVE  f \in Frames(segs') \cup Frames(warm') <=> f \in Frames(segs) \cup Frames(warm)
<1>1. /\ Files(segs)' /\ Files(warm)' /\ S \subseteq DOMAIN segs /\ D \subseteq S
      /\ DOMAIN segs' = DOMAIN segs \ D /\ (\A i \in DOMAIN segs' : segs'[i] = segs[i])
      /\ DOMAIN warm' = S \cup DOMAIN warm
      /\ (\A i \in S : warm'[i] = segs[i]) /\ (\A i \in DOMAIN warm \ S : warm'[i] = warm[i])
  BY MoveShape
<1>2. Files(segs') /\ Files(warm') /\ Files(segs) /\ Files(warm)
  BY <1>1 DEF FilesOk, Files
<1>3. ~Stuck
  BY DEF Stuck, MoveStep
<1>4. \A i \in DOMAIN segs \cap DOMAIN warm : warm[i] = segs[i]
  BY <1>3 DEF MovedOk, Apart
<1>5. f \in Frames(segs') <=> \E i \in DOMAIN segs' : \E k \in 1..Len(segs'[i]) : f = segs'[i][k]
  BY <1>2, InFrames
<1>6. f \in Frames(warm') <=> \E i \in DOMAIN warm' : \E k \in 1..Len(warm'[i]) : f = warm'[i][k]
  BY <1>2, InFrames
<1>7. f \in Frames(segs) <=> \E i \in DOMAIN segs : \E k \in 1..Len(segs[i]) : f = segs[i][k]
  BY <1>2, InFrames
<1>8. f \in Frames(warm) <=> \E i \in DOMAIN warm : \E k \in 1..Len(warm[i]) : f = warm[i][k]
  BY <1>2, InFrames
<1>9. f \in Frames(segs') => f \in Frames(segs)
  BY <1>1, <1>5, <1>7
<1>10. ASSUME f \in Frames(warm') PROVE f \in Frames(segs) \/ f \in Frames(warm)
  <2>1. PICK i \in DOMAIN warm' : \E k \in 1..Len(warm'[i]) : f = warm'[i][k]
    BY <1>6, <1>10
  <2>2. CASE i \in S
    BY <2>1, <2>2, <1>1, <1>7
  <2>3. CASE i \in DOMAIN warm \ S
    BY <2>1, <2>3, <1>1, <1>8
  <2> QED
    BY <1>1, <2>2, <2>3
<1>11. ASSUME f \in Frames(segs) PROVE f \in Frames(segs') \/ f \in Frames(warm')
  <2>1. PICK i \in DOMAIN segs : \E k \in 1..Len(segs[i]) : f = segs[i][k]
    BY <1>7, <1>11
  <2>2. CASE i \in D
    BY <2>1, <2>2, <1>1, <1>6
  <2>3. CASE i \notin D
    BY <2>1, <2>3, <1>1, <1>5
  <2> QED
    BY <2>2, <2>3
<1>12. ASSUME f \in Frames(warm) PROVE f \in Frames(warm')
  <2>1. PICK i \in DOMAIN warm : \E k \in 1..Len(warm[i]) : f = warm[i][k]
    BY <1>8, <1>12
  <2>2. warm'[i] = warm[i] /\ i \in DOMAIN warm'
    BY <1>1, <1>4
  <2> QED
    BY <2>1, <2>2, <1>6
<1> QED
  BY <1>9, <1>10, <1>11, <1>12

\* A move to the cold tier: what it overwrites there is in the moved file.
LEMMA FramesCold ==
  ASSUME FilesOk, MovedOk, WarmToCold, NEW f
  PROVE  f \in Frames(warm') \cup Frames(cold') <=> f \in Frames(warm) \cup Frames(cold)
<1>1. /\ Files(warm)' /\ Files(cold)'
      /\ DOMAIN warm' = DOMAIN warm \ OldWarm /\ OldWarm \subseteq DOMAIN warm
      /\ DOMAIN cold' = OldWarm \cup DOMAIN cold
      /\ (\A i \in DOMAIN warm' : warm'[i] = warm[i])
      /\ (\A i \in OldWarm : cold'[i] = warm[i])
      /\ (\A i \in DOMAIN cold \ OldWarm : cold'[i] = cold[i])
  BY ColdShape
<1>2. Files(cold') /\ Files(warm') /\ Files(cold) /\ Files(warm)
  BY <1>1 DEF FilesOk, Files
<1>3. \A i \in DOMAIN warm \cap DOMAIN cold : ToSet(cold[i]) \subseteq ToSet(warm[i])
  BY DEF MovedOk, Copies
<1>4. \A g : g \in Frames(warm) <=> \E i \in DOMAIN warm : g \in ToSet(warm[i])
  BY DEF Frames
<1>5. \A g : g \in Frames(cold) <=> \E i \in DOMAIN cold : g \in ToSet(cold[i])
  BY DEF Frames
<1>6. \A g : g \in Frames(warm') <=> \E i \in DOMAIN warm' : g \in ToSet(warm'[i])
  BY DEF Frames
<1>7. \A g : g \in Frames(cold') <=> \E i \in DOMAIN cold' : g \in ToSet(cold'[i])
  BY DEF Frames
<1>8. f \in Frames(warm') => f \in Frames(warm)
  BY <1>1, <1>4, <1>6
<1>9. ASSUME f \in Frames(cold') PROVE f \in Frames(cold) \/ f \in Frames(warm)
  <2>1. PICK i \in DOMAIN cold' : f \in ToSet(cold'[i])
    BY <1>7, <1>9
  <2>2. CASE i \in OldWarm
    BY <2>1, <2>2, <1>1, <1>4
  <2>3. CASE i \in DOMAIN cold \ OldWarm
    BY <2>1, <2>3, <1>1, <1>5
  <2> QED
    BY <1>1, <2>2, <2>3
<1>10. ASSUME f \in Frames(warm) PROVE f \in Frames(cold') \/ f \in Frames(warm')
  <2>1. PICK i \in DOMAIN warm : f \in ToSet(warm[i])
    BY <1>4, <1>10
  <2>2. CASE i \in OldWarm
    BY <2>1, <2>2, <1>1, <1>7
  <2>3. CASE i \notin OldWarm
    BY <2>1, <2>3, <1>1, <1>6
  <2> QED
    BY <2>2, <2>3
<1>11. ASSUME f \in Frames(cold) PROVE f \in Frames(cold')
  <2>1. PICK i \in DOMAIN cold : f \in ToSet(cold[i])
    BY <1>5, <1>11
  <2>2. CASE i \in OldWarm
    BY <2>1, <2>2, <1>1, <1>3, <1>7
  <2>3. CASE i \notin OldWarm
    BY <2>1, <2>3, <1>1, <1>7
  <2> QED
    BY <2>2, <2>3
<1> QED
  BY <1>8, <1>9, <1>10, <1>11

\* What retention deletes is remembered.
LEMMA FramesCleanup ==
  ASSUME FilesOk, CleanupCold, NEW f
  PROVE  f \in Frames(cold') \cup deleted' <=> f \in Frames(cold) \cup deleted
<1>1. /\ DOMAIN cold' \subseteq DOMAIN cold
      /\ (\A i \in DOMAIN cold' : cold'[i] = cold[i])
      /\ deleted' = deleted \cup Frames(Only(cold, DOMAIN cold \ DOMAIN cold'))
  BY ColdShape
<1>2. PICK gone : gone = Only(cold, DOMAIN cold \ DOMAIN cold')
  OBVIOUS
<1>3. DOMAIN gone = DOMAIN cold \ DOMAIN cold' /\ \A i \in DOMAIN gone : gone[i] = cold[i]
  BY <1>2 DEF Only
<1>4. \A g : g \in Frames(gone) <=> \E i \in DOMAIN gone : g \in ToSet(gone[i])
  BY DEF Frames
<1>5. \A g : g \in Frames(cold) <=> \E i \in DOMAIN cold : g \in ToSet(cold[i])
  BY DEF Frames
<1>6. \A g : g \in Frames(cold') <=> \E i \in DOMAIN cold' : g \in ToSet(cold'[i])
  BY DEF Frames
<1>7. f \in Frames(cold) <=> f \in Frames(cold') \/ f \in Frames(gone)
  <2>1. ASSUME f \in Frames(cold) PROVE f \in Frames(cold') \/ f \in Frames(gone)
    <3>1. PICK i \in DOMAIN cold : f \in ToSet(cold[i])
      BY <2>1, <1>5
    <3>2. CASE i \in DOMAIN cold'
      BY <3>1, <3>2, <1>1, <1>6
    <3>3. CASE i \notin DOMAIN cold'
      BY <3>1, <3>3, <1>3, <1>4
    <3> QED
      BY <3>2, <3>3
  <2>2. f \in Frames(cold') => f \in Frames(cold)
    BY <1>1, <1>5, <1>6
  <2>3. f \in Frames(gone) => f \in Frames(cold)
    BY <1>3, <1>4, <1>5
  <2> QED
    BY <2>1, <2>2, <2>3
<1>8. deleted' = deleted \cup Frames(gone)
  BY <1>1, <1>2
<1> QED
  BY <1>7, <1>8

\* Where the frames of a merged file come from.
LEMMA CatFrames ==
  ASSUME NEW s, IsSeq(s), NEW t, IsSeq(t), NEW f
  PROVE  f \in ToSet(s \o t) <=> f \in ToSet(s) \/ f \in ToSet(t)
<1>1. PICK u : u = s \o t
  OBVIOUS
<1>2. /\ IsSeq(u) /\ Len(u) = Len(s) + Len(t)
      /\ (\A k \in 1..Len(s) : u[k] = s[k])
      /\ (\A k \in 1..Len(t) : u[Len(s) + k] = t[k])
  BY <1>1, CatOk
<1>3. /\ Len(s) \in Nat /\ DOMAIN s = 1..Len(s) /\ Len(t) \in Nat /\ DOMAIN t = 1..Len(t)
      /\ DOMAIN u = 1..Len(u)
  BY <1>2, SeqBasics
<1>4. ASSUME NEW k \in 1..Len(u), f = u[k] PROVE f \in ToSet(s) \/ f \in ToSet(t)
  <2>1. CASE k \in 1..Len(s)
    BY <2>1, <1>2, <1>3, <1>4 DEF ToSet
  <2>2. CASE k \notin 1..Len(s)
    <3>1. PICK l \in 1..Len(t) : k = Len(s) + l
      <4>1. k - Len(s) \in 1..Len(t) /\ k = Len(s) + (k - Len(s))
        BY <1>2, <1>3, <2>2
      <4> QED
        BY <4>1
    <3> QED
      BY <3>1, <1>2, <1>3, <1>4 DEF ToSet
  <2> QED
    BY <2>1, <2>2
<1>5. ASSUME NEW k \in 1..Len(s), f = s[k] PROVE f \in ToSet(u)
  <2>1. k \in 1..Len(u) /\ f = u[k]
    BY <1>2, <1>3, <1>5
  <2> QED
    BY <2>1, <1>3 DEF ToSet
<1>6. ASSUME NEW k \in 1..Len(t), f = t[k] PROVE f \in ToSet(u)
  <2>1. Len(s) + k \in 1..Len(u) /\ f = u[Len(s) + k]
    BY <1>2, <1>3, <1>6
  <2> QED
    BY <2>1, <1>3 DEF ToSet
<1> QED
  BY <1>1, <1>3, <1>4, <1>5, <1>6 DEF ToSet

\* A merge keeps the frames.
LEMMA FramesMerge ==
  ASSUME FilesOk, MergeWarm, NEW f
  PROVE  f \in Frames(warm') <=> f \in Frames(warm)
<1>1. /\ DOMAIN warm' = DOMAIN warm \ Highers
      /\ \A i \in DOMAIN warm \ Highers : i \notin Lowers => warm'[i] = warm[i]
      /\ \A i \in Lowers : /\ i \in DOMAIN warm' /\ Higher(i) \in DOMAIN warm
                           /\ warm'[i] = warm[i] \o warm[Higher(i)]
  BY MergeShape
<1>2. \A j \in Highers : \E i \in Lowers : Higher(i) = j
  BY PairsOk
<1>3. \A i \in DOMAIN warm : IsSeq(warm[i])
  BY DEF FilesOk, Files
<1>4. ASSUME NEW i \in Lowers
      PROVE  f \in ToSet(warm'[i]) <=> f \in ToSet(warm[i]) \/ f \in ToSet(warm[Higher(i)])
  <2>1. i \in DOMAIN warm /\ Higher(i) \in DOMAIN warm
    BY <1>1
  <2>2. PICK s : s = warm[i]
    OBVIOUS
  <2>3. PICK t : t = warm[Higher(i)]
    OBVIOUS
  <2>4. IsSeq(s) /\ IsSeq(t)
    BY <1>3, <2>1, <2>2, <2>3
  <2>5. f \in ToSet(s \o t) <=> f \in ToSet(s) \/ f \in ToSet(t)
    BY <2>4, CatFrames
  <2> QED
    BY <1>1, <2>2, <2>3, <2>5
<1>5. f \in Frames(warm) <=> \E i \in DOMAIN warm : f \in ToSet(warm[i])
  BY DEF Frames
<1>6. f \in Frames(warm') <=> \E i \in DOMAIN warm' : f \in ToSet(warm'[i])
  BY DEF Frames
<1>7. ASSUME f \in Frames(warm') PROVE f \in Frames(warm)
  <2>1. PICK i \in DOMAIN warm' : f \in ToSet(warm'[i])
    BY <1>6, <1>7
  <2>2. CASE i \in Lowers
    BY <2>1, <2>2, <1>1, <1>4, <1>5
  <2>3. CASE i \notin Lowers
    BY <2>1, <2>3, <1>1, <1>5
  <2> QED
    BY <2>2, <2>3
<1>8. ASSUME f \in Frames(warm) PROVE f \in Frames(warm')
  <2>1. PICK i \in DOMAIN warm : f \in ToSet(warm[i])
    BY <1>5, <1>8
  <2>2. CASE i \in Lowers
    BY <2>1, <2>2, <1>1, <1>4, <1>6
  <2>3. CASE i \in Highers
    BY <2>1, <2>3, <1>1, <1>2, <1>4, <1>6
  <2>4. CASE i \notin Lowers /\ i \notin Highers
    BY <2>1, <2>4, <1>1, <1>6
  <2> QED
    BY <2>2, <2>3, <2>4
<1> QED
  BY <1>7, <1>8

\* Every step of a trail that is not muddled keeps what was written.
LEMMA PositionsNext ==
  ASSUME FilesOk, HotOk, MovedOk, NoTierLosesEntries, ~muddled, TiersNext, ~muddled'
  PROVE  NoTierLosesEntries'
<1>1. Files(segs) /\ (proc.up => IsTop(segs, proc.active))
  BY DEF FilesOk
<1>2. CASE TrailNext /\ UNCHANGED tierVars
  <2>1. warm' = warm /\ cold' = cold /\ deleted' = deleted
    BY <1>2 DEF tierVars
  <2>2. CASE segs' = segs /\ log' = log
    <3>1. HeldNext = Held
      BY <2>1, <2>2 DEF HeldNext, Held
    <3> QED
      BY <2>2, <3>1, HeldSame
  <2>3. ASSUME NEW b, Appends(Partial(b)), log' = log
        PROVE  NoTierLosesEntries'
    <3>1. PICK x : x = Partial(b)
      OBVIOUS
    <3>2. IsPartial(x) /\ segs' = Grown(segs, proc.active, x) /\ proc.up
      BY <2>3, <3>1, PartialOrFrame DEF Appends
    <3>3. PICK a : a = proc.active
      OBVIOUS
    <3>4. PICK g : g = Grown(segs, a, x)
      OBVIOUS
    <3>5. a \in DOMAIN segs
      BY <1>1, <3>2, <3>3 DEF IsTop
    <3>6. \A f : f \in Frames(g) <=> f \in Frames(segs) \/ f = x
      BY <1>1, <3>4, <3>5, FramesGrown
    <3>7. \A f : ~IsPartial(f) => (f \in HeldNext <=> f \in Held)
      BY <2>1, <3>2, <3>3, <3>4, <3>6 DEF HeldNext, Held
    <3> QED
      BY <2>3, <3>7, HeldSame
  <2>4. ASSUME NEW e, NEW g, g = Grown(segs, proc.active, NewFrame(e)), proc.up, log' = Append(log, e),
               \A f : f \in Frames(segs') <=> f \in Frames(g)
        PROVE  NoTierLosesEntries'
    <3>1. PICK x : x = NewFrame(e)
      OBVIOUS
    <3>2. ~IsPartial(x) /\ x.pos = Len(log) + 1
      BY <3>1, PartialOrFrame DEF NewFrame
    <3>3. PICK a : a = proc.active
      OBVIOUS
    <3>4. g = Grown(segs, a, x)
      BY <2>4, <3>1, <3>3
    <3>5. a \in DOMAIN segs
      BY <1>1, <2>4, <3>3 DEF IsTop
    <3>6. \A f : f \in Frames(g) <=> f \in Frames(segs) \/ f = x
      BY <1>1, <3>4, <3>5, FramesGrown
    <3>7. \A f : ~IsPartial(f) => (f \in HeldNext <=> f \in Held \/ f = x)
      BY <2>1, <2>4, <3>6 DEF HeldNext, Held
    <3> QED
      BY <2>4, <3>2, <3>7, HeldMore
  <2>5. ASSUME NEW e, Appends(NewFrame(e)), log' = Append(log, e)
        PROVE  NoTierLosesEntries'
    <3>1. proc.up /\ segs' = Grown(segs, proc.active, NewFrame(e))
      BY <2>5 DEF Appends
    <3>2. PICK g : g = Grown(segs, proc.active, NewFrame(e))
      OBVIOUS
    <3>3. \A f : f \in Frames(segs') <=> f \in Frames(g)
      BY <3>1, <3>2
    <3> QED
      BY <2>4, <2>5, <3>1, <3>2, <3>3
  <2>6. ASSUME NEW e, DoAppend(e)
        PROVE  NoTierLosesEntries'
    <3>1. PICK g :
             /\ g = Grown(segs, proc.active, NewFrame(e))
             /\ \/ segs' = g
                \/ segs' = Put(g, proc.active + 1, <<>>)
             /\ log' = Append(log, e) /\ proc.up
      BY <2>6, DoAppendShape
    <3>2. \A f : f \in Frames(segs') <=> f \in Frames(g)
      <4>1. CASE segs' = g
        BY <4>1
      <4>2. CASE segs' = Put(g, proc.active + 1, <<>>)
        <5>1. proc.active \in DOMAIN segs /\ proc.active \in Nat
          BY <1>1, <3>1 DEF IsTop, Files
        <5>2. PICK a \in Nat : a = proc.active
          BY <5>1
        <5>3. PICK b \in Nat : b = a + 1
          OBVIOUS
        <5>4. PICK h : h = Put(g, b, <<>>)
          OBVIOUS
        <5>5. PICK x : x = NewFrame(e)
          OBVIOUS
        <5>6. g = Grown(segs, a, x) /\ a \in DOMAIN segs
          BY <3>1, <5>1, <5>2, <5>5
        <5>7. Files(g) /\ \A m : IsTop(g, m) <=> IsTop(segs, m)
          BY <1>1, <5>6, AppendShape
        <5>8. IsTop(g, a)
          BY <1>1, <3>1, <5>2, <5>7
        <5>9. \A f : f \in Frames(h) <=> f \in Frames(g)
          BY <5>3, <5>4, <5>7, <5>8, FramesRotated
        <5> QED
          BY <4>2, <5>2, <5>3, <5>4, <5>9
      <4> QED
        BY <3>1, <4>1, <4>2
    <3> QED
      BY <2>4, <3>1, <3>2
  <2>7. ASSUME NEW b, Restart(b)
        PROVE  NoTierLosesEntries'
    <3>1. PICK m \in Nat : IsTop(segs, m)
      BY DEF FilesOk
    <3>2. /\ Files(segs)' /\ DOMAIN segs' = DOMAIN segs /\ segs'[m] = ScanSegment(segs[m])
          /\ \A i \in DOMAIN segs : i # m => segs'[i] = segs[i]
          /\ log' = log
      BY <2>7, <3>1, RestartShape
    <3>3. Files(segs')
      BY <3>2 DEF Files
    <3>4. PICK half : HotFiles(segs, half)
      BY DEF HotOk
    <3>5. \A f : ~IsPartial(f) => (f \in Frames(segs') <=> f \in Frames(segs))
      BY <1>1, <3>1, <3>2, <3>3, <3>4, FramesScanned
    <3>6. \A f : ~IsPartial(f) => (f \in HeldNext <=> f \in Held)
      BY <2>1, <3>5 DEF HeldNext, Held
    <3> QED
      BY <3>2, <3>6, HeldSame
  <2> QED
    BY <1>2, <2>2, <2>3, <2>5, <2>6, <2>7, TrailSteps
<1>3. CASE (\E n \in 1..MaxLog : SetAnchor(n)) \/ \E i \in 0..MaxLog : Age(i)
  <2>1. segs' = segs /\ warm' = warm /\ cold' = cold /\ deleted' = deleted /\ log' = log
    BY <1>3 DEF SetAnchor, Age, trailVars
  <2>2. HeldNext = Held
    BY <2>1 DEF HeldNext, Held
  <2> QED
    BY <2>1, <2>2, HeldSame
<1>4. CASE HotToWarm \/ \E i : CrashInHotToWarm(i)
  <2>1. PICK S, D : MoveStep(S, D)
    BY <1>4, MoveSteps
  <2>2. cold' = cold /\ deleted' = deleted /\ log' = log
    BY <2>1 DEF MoveStep
  <2>3. \A f : f \in Frames(segs') \cup Frames(warm') <=> f \in Frames(segs) \cup Frames(warm)
    BY <2>1, FramesMove
  <2>4. \A f : f \in HeldNext <=> f \in Held
    BY <2>2, <2>3 DEF HeldNext, Held
  <2> QED
    BY <2>2, <2>4, HeldSame
<1>5. CASE WarmToCold
  <2>1. segs' = segs /\ deleted' = deleted /\ log' = log
    BY <1>5 DEF WarmToCold, trailVars
  <2>2. \A f : f \in Frames(warm') \cup Frames(cold') <=> f \in Frames(warm) \cup Frames(cold)
    BY <1>5, FramesCold
  <2>3. \A f : f \in HeldNext <=> f \in Held
    BY <2>1, <2>2 DEF HeldNext, Held
  <2> QED
    BY <2>1, <2>3, HeldSame
<1>6. CASE CleanupCold
  <2>1. segs' = segs /\ warm' = warm /\ log' = log
    BY <1>6 DEF CleanupCold, trailVars
  <2>2. \A f : f \in Frames(cold') \cup deleted' <=> f \in Frames(cold) \cup deleted
    BY <1>6, FramesCleanup
  <2>3. \A f : f \in HeldNext <=> f \in Held
    BY <2>1, <2>2 DEF HeldNext, Held
  <2> QED
    BY <2>1, <2>3, HeldSame
<1>7. CASE MergeWarm
  <2>1. segs' = segs /\ cold' = cold /\ deleted' = deleted /\ log' = log
    BY <1>7 DEF MergeWarm, trailVars
  <2>2. \A f : f \in Frames(warm') <=> f \in Frames(warm)
    BY <1>7, FramesMerge
  <2>3. \A f : f \in HeldNext <=> f \in Held
    BY <2>1, <2>2 DEF HeldNext, Held
  <2> QED
    BY <2>1, <2>3, HeldSame
<1> QED
  BY <1>2, <1>3, <1>4, <1>5, <1>6, <1>7 DEF TiersNext
-----------------------------------------------------------------------------
(* The files that left                                                     *)

\* The statement about the files after a step.
LEMMA MovedParts ==
  ASSUME Whole(warm'), InOrder(warm'), Copies(warm', cold'), ~Stuck' => Apart(warm', cold', segs')
  PROVE  MovedOk'
<1>1. Whole(warm)' /\ InOrder(warm)' /\ Copies(warm, cold)'
  BY DEF Whole, InOrder, Copies, Smalls, Grows, Precedes, ToSet
<1>2. ~Stuck' => Apart(warm, cold, segs)'
  BY DEF Apart, Precedes
<1> QED
  BY <1>1, <1>2 DEF MovedOk

\* A trail that cannot be restarted stays so.
LEMMA StuckStays ==
  ASSUME FilesOk, HotOk, Stuck, NEW b, Restart(b)
  PROVE  Stuck'
<1>1. PICK m \in Nat : IsTop(segs, m)
  BY DEF FilesOk
<1>2. /\ Files(segs)' /\ DOMAIN segs' = DOMAIN segs
      /\ \A i \in DOMAIN segs : i # m => segs'[i] = segs[i]
      /\ \A n : IsTop(segs', n) <=> IsTop(segs, n)
      /\ rec' = RecoverState(segs', Opened(segs', m), IF b THEN LatestSnapshot ELSE {})
      /\ proc' = (IF rec'.result = "ok" THEN Opened(segs', m) ELSE Down)
  BY <1>1, RestartShape
<1>3. Files(segs')
  BY <1>2 DEF Files
<1>4. PICK i \in DOMAIN segs : ~IsTop(segs, i)
  BY DEF Stuck
<1>5. i # m /\ segs'[i] = segs[i] /\ segs[i] # <<>> /\ \A k \in 1..Len(segs[i]) : ~IsPartial(segs[i][k])
  BY <1>1, <1>2, <1>4 DEF HotOk, HotFiles
<1>6. ScanSegment(segs'[i]) # <<>>
  <2>1. PICK s : s = segs[i]
    OBVIOUS
  <2>2. IsSeq(s) /\ \A k \in 1..Len(s) : ~IsPartial(s[k])
    BY <1>4, <1>5, <2>1 DEF FilesOk, Files
  <2>3. ScanSegment(s) = s
    BY <2>2, ScanWhole
  <2> QED
    BY <1>5, <2>1, <2>3
<1>7. Len(Concat(segs')) > 0
  <2>1. PICK files : files = segs'
    OBVIOUS
  <2>2. Files(files) /\ IsTop(files, m) /\ i \in DOMAIN files /\ ScanSegment(files[i]) # <<>>
    BY <1>1, <1>2, <1>3, <1>4, <1>6, <2>1
  <2>3. Len(Concat(files)) > 0
    BY <2>2, ConcatNotEmpty
  <2> QED
    BY <2>1, <2>3
<1>8. PICK mem : mem = Opened(segs', m)
  OBVIOUS
<1>9. mem.seq = Len(Concat(segs')) /\ mem.active = m
  BY <1>8 DEF Opened
<1>10. ~Collectable(segs', mem)
  <2>1. 0 \in 0..m /\ 0 \notin DOMAIN segs'
    BY <1>2 DEF Stuck
  <2> QED
    BY <1>9, <2>1 DEF Collectable
<1>11. mem.seq # 0
  BY <1>7, <1>9
<1>12. PICK snap : snap = (IF b THEN LatestSnapshot ELSE {})
  OBVIOUS
<1>13. rec' = Refused("missing")
  <2>1. RecoverState(segs', mem, snap) = Refused("missing")
    BY <1>10, <1>11 DEF RecoverState
  <2> QED
    BY <1>2, <1>8, <1>12, <2>1
<1>14. rec'.result = "missing"
  BY <1>13 DEF Refused
<1>15. proc'.up = FALSE
  BY <1>2, <1>14 DEF Down
<1>16. 0 \notin DOMAIN segs' /\ i \in DOMAIN segs' /\ ~IsTop(segs', i)
  BY <1>2, <1>4 DEF Stuck
<1> QED
  BY <1>15, <1>16 DEF Stuck, IsTop

\* A step that only changes the highest hot file, or adds one above it.
LEMMA ApartTop ==
  ASSUME FilesOk, Apart(warm, cold, segs), NEW g,
         \A i \in DOMAIN g : \/ i \in DOMAIN segs /\ (~IsTop(segs, i) => g[i] = segs[i])
                             \/ \A n \in DOMAIN segs : n < i,
         \A i \in DOMAIN g, j \in DOMAIN warm : j < i => Precedes(warm[j], g[i])
  PROVE  Apart(warm, cold, g)
<1>1. PICK m \in Nat : IsTop(segs, m)
  BY DEF FilesOk
<1>2. \A j \in DOMAIN warm \cup DOMAIN cold : j \in Nat /\ j <= m /\ ~IsTop(segs, j)
  BY <1>1 DEF FilesOk, Files, IsTop
<1>3. ASSUME NEW i \in DOMAIN g, i \in DOMAIN warm \cup DOMAIN cold
      PROVE  i \in DOMAIN segs /\ g[i] = segs[i]
  <2>1. ~ m < i
    BY <1>2, <1>3
  <2>2. m \in DOMAIN segs
    BY <1>1 DEF IsTop
  <2> QED
    BY <1>2, <1>3, <2>1, <2>2
<1>4. \A i \in DOMAIN g \cap DOMAIN warm : i = 0 /\ warm[i] = g[i]
  BY <1>3 DEF Apart
<1>5. \A i \in DOMAIN g \cap DOMAIN cold : i = 0 /\ cold[i] = g[i]
  BY <1>3 DEF Apart
<1> QED
  BY <1>4, <1>5 DEF Apart

\* An append leaves what left where it is.
LEMMA ApartGrown ==
  ASSUME FilesOk, Apart(warm, cold, segs), NEW a, IsTop(segs, a), NEW x, NEW g, g = Grown(segs, a, x),
         ~IsPartial(x) => \A i \in DOMAIN warm : \A k \in 1..Len(warm[i]) :
                            ~IsPartial(warm[i][k]) => warm[i][k].pos < x.pos
  PROVE  Apart(warm, cold, g)
<1>1. Files(segs) /\ a \in DOMAIN segs
  BY DEF FilesOk, IsTop
<1>2. /\ DOMAIN g = DOMAIN segs /\ g[a] = Append(segs[a], x)
      /\ \A i \in DOMAIN segs : i # a => g[i] = segs[i]
  BY <1>1, AppendShape
<1>3. \A i \in DOMAIN g : i \in DOMAIN segs /\ (~IsTop(segs, i) => g[i] = segs[i])
  BY <1>2
<1>4. ASSUME NEW i \in DOMAIN g, NEW j \in DOMAIN warm, j < i
      PROVE  Precedes(warm[j], g[i])
  <2>1. Precedes(warm[j], segs[i])
    BY <1>2, <1>4 DEF Apart
  <2>2. CASE i # a
    BY <2>1, <2>2, <1>2
  <2>3. CASE i = a
    <3>1. PICK r : r = warm[j]
      OBVIOUS
    <3>2. PICK s : s = segs[a]
      OBVIOUS
    <3>3. IsSeq(r) /\ IsSeq(s) /\ Precedes(r, s)
      BY <1>1, <2>1, <2>3, <3>1, <3>2 DEF FilesOk, Files
    <3>4. ~IsPartial(x) => \A k \in 1..Len(r) : ~IsPartial(r[k]) => r[k].pos < x.pos
      BY <3>1
    <3>5. Precedes(r, Append(s, x))
      BY <3>3, <3>4, PrecedesAppend
    <3> QED
      BY <1>2, <2>3, <3>1, <3>2, <3>5
  <2> QED
    BY <2>2, <2>3
<1> QED
  BY <1>3, <1>4, ApartTop

\* The steps of the trail leave what left where it is.
LEMMA MovedTrail ==
  ASSUME FilesOk, HotOk, MovedOk, NoTierLosesEntries, ~muddled, TrailNext, UNCHANGED tierVars
  PROVE  MovedOk'
<1>1. warm' = warm /\ cold' = cold
  BY DEF tierVars
<1>2. ASSUME ~Stuck' => Apart(warm, cold, segs')
      PROVE  MovedOk'
  <2>1. Whole(warm) /\ InOrder(warm) /\ Copies(warm, cold)
    BY DEF MovedOk
  <2> QED
    BY <1>1, <1>2, <2>1, MovedParts
<1>3. Files(segs) /\ (proc.up => IsTop(segs, proc.active))
  BY DEF FilesOk
<1>4. proc.up => Apart(warm, cold, segs)
  BY DEF MovedOk, Stuck
<1>5. ASSUME NEW e, proc.up, NEW g, g = Grown(segs, proc.active, NewFrame(e))
      PROVE  Apart(warm, cold, g)
  <2>1. PICK x : x = NewFrame(e)
    OBVIOUS
  <2>2. ~IsPartial(x) /\ x.pos = Len(log) + 1
    BY <2>1, PartialOrFrame DEF NewFrame
  <2>3. \A i \in DOMAIN warm : \A k \in 1..Len(warm[i]) : ~IsPartial(warm[i][k]) => warm[i][k].pos < x.pos
    BY <2>2, PositionBounds
  <2>4. PICK a : a = proc.active
    OBVIOUS
  <2>5. IsTop(segs, a) /\ g = Grown(segs, a, x) /\ Apart(warm, cold, segs)
    BY <1>3, <1>4, <1>5, <2>1, <2>4
  <2> QED
    BY <2>3, <2>5, ApartGrown
<1>6. CASE segs' = segs /\ proc.up
  BY <1>2, <1>4, <1>6
<1>7. ASSUME NEW b, Appends(Partial(b))
      PROVE  MovedOk'
  <2>1. PICK x : x = Partial(b)
    OBVIOUS
  <2>2. IsPartial(x) /\ segs' = Grown(segs, proc.active, x) /\ proc.up
    BY <1>7, <2>1, PartialOrFrame DEF Appends
  <2>3. PICK a : a = proc.active
    OBVIOUS
  <2>4. PICK g : g = Grown(segs, a, x)
    OBVIOUS
  <2>5. IsTop(segs, a) /\ Apart(warm, cold, segs)
    BY <1>3, <1>4, <2>2, <2>3
  <2>6. Apart(warm, cold, g)
    BY <2>2, <2>4, <2>5, ApartGrown
  <2> QED
    BY <1>2, <2>2, <2>3, <2>4, <2>6
<1>8. ASSUME NEW e, Appends(NewFrame(e))
      PROVE  MovedOk'
  BY <1>2, <1>5, <1>8 DEF Appends
<1>9. ASSUME NEW e, DoAppend(e)
      PROVE  MovedOk'
  <2>1. PICK g :
           /\ g = Grown(segs, proc.active, NewFrame(e))
           /\ \/ segs' = g
              \/ segs' = Put(g, proc.active + 1, <<>>)
           /\ proc.up
    BY <1>9, DoAppendShape
  <2>2. Apart(warm, cold, g)
    BY <1>5, <2>1
  <2>3. CASE segs' = g
    BY <1>2, <2>2, <2>3
  <2>4. CASE segs' = Put(g, proc.active + 1, <<>>)
    <3>1. proc.active \in DOMAIN segs /\ proc.active \in Nat
      BY <1>3, <2>1 DEF IsTop, Files
    <3>2. PICK a \in Nat : a = proc.active
      BY <3>1
    <3>3. PICK b \in Nat : b = a + 1
      OBVIOUS
    <3>4. PICK h : h = Put(g, b, <<>>)
      OBVIOUS
    <3>5. PICK x : x = NewFrame(e)
      OBVIOUS
    <3>6. g = Grown(segs, a, x) /\ a \in DOMAIN segs
      BY <2>1, <3>1, <3>2, <3>5
    <3>7. /\ Files(g) /\ DOMAIN g = DOMAIN segs /\ (\A i \in DOMAIN segs : i # a => g[i] = segs[i])
          /\ \A m : IsTop(g, m) <=> IsTop(segs, m)
      BY <1>3, <3>6, AppendShape
    <3>8. IsTop(g, a) /\ IsTop(segs, a)
      BY <1>3, <2>1, <3>2, <3>7
    <3>9. IsRotated(h, g, b)
      BY <3>3, <3>4, <3>7, <3>8, RotateShape
    <3>10. \A i \in DOMAIN h : \/ i \in DOMAIN segs /\ (~IsTop(segs, i) => h[i] = segs[i])
                               \/ \A n \in DOMAIN segs : n < i
      BY <3>7, <3>8, <3>9 DEF IsRotated
    <3>11. \A k \in 1..Len(<<>>) : FALSE
      BY EmptyIsSeq
    <3>12. \A s : Precedes(s, <<>>)
      BY <3>11 DEF Precedes
    <3>13. \A i \in DOMAIN h, j \in DOMAIN warm : j < i => Precedes(warm[j], h[i])
      BY <2>2, <3>9, <3>12 DEF IsRotated, Apart
    <3>14. Apart(warm, cold, h)
      BY <1>4, <2>1, <3>10, <3>13, ApartTop
    <3> QED
      BY <1>2, <2>4, <3>2, <3>3, <3>4, <3>14
  <2> QED
    BY <2>1, <2>3, <2>4
<1>10. ASSUME NEW b, Restart(b)
       PROVE  MovedOk'
  <2>1. PICK m \in Nat : IsTop(segs, m)
    BY DEF FilesOk
  <2>2. /\ DOMAIN segs' = DOMAIN segs /\ segs'[m] = ScanSegment(segs[m])
        /\ \A i \in DOMAIN segs : i # m => segs'[i] = segs[i]
    BY <1>10, <2>1, RestartShape
  <2> SUFFICES ASSUME ~Stuck' PROVE Apart(warm, cold, segs')
    BY <1>2
  <2>3. Apart(warm, cold, segs)
    BY <1>10, StuckStays DEF MovedOk
  <2>4. PICK s : s = segs[m]
    OBVIOUS
  <2>5. m \in DOMAIN segs /\ IsSeq(s) /\ TailOnly(s)
    BY <2>1, <2>4 DEF FilesOk, Files, IsTop, HotOk, HotFiles, TailOnly
  <2>6. Len(s) \in Nat
    BY <2>5, SeqBasics
  <2>7. PICK t : t = ScanSegment(s)
    OBVIOUS
  <2>8. Len(t) \in Nat /\ Len(t) <= Len(s) /\ \A k \in 1..Len(t) : t[k] = s[k]
    BY <2>5, <2>7, ScanTail
  <2>9. \A k \in 1..Len(t) : k \in 1..Len(s)
    BY <2>6, <2>8
  <2>10. \A r : Precedes(r, s) => Precedes(r, t)
    BY <2>8, <2>9 DEF Precedes
  <2>11. PICK g : g = segs'
    OBVIOUS
  <2>12. DOMAIN g = DOMAIN segs /\ g[m] = t /\ \A i \in DOMAIN segs : i # m => g[i] = segs[i]
    BY <2>2, <2>4, <2>7, <2>11
  <2>13. \A i \in DOMAIN g : i \in DOMAIN segs /\ (~IsTop(segs, i) => g[i] = segs[i])
    BY <2>1, <2>12
  <2>14. \A i \in DOMAIN g, j \in DOMAIN warm : j < i => Precedes(warm[j], g[i])
    <3> SUFFICES ASSUME NEW i \in DOMAIN g, NEW j \in DOMAIN warm, j < i PROVE Precedes(warm[j], g[i])
      OBVIOUS
    <3>1. Precedes(warm[j], segs[i])
      BY <2>3, <2>12 DEF Apart
    <3>2. CASE i = m
      BY <3>1, <3>2, <2>4, <2>10, <2>12
    <3> QED
      BY <3>1, <3>2, <2>12
  <2>15. Apart(warm, cold, g)
    BY <2>3, <2>13, <2>14, ApartTop
  <2> QED
    BY <2>11, <2>15
<1> QED
  BY <1>6, <1>7, <1>8, <1>9, <1>10, TrailSteps

\* A move out of the hot tier.
LEMMA MovedMove ==
  ASSUME FilesOk, HotOk, MovedOk, NEW S, NEW D, MoveStep(S, D)
  PROVE  MovedOk'
<1>1. /\ S \subseteq DOMAIN segs /\ D \subseteq S
      /\ DOMAIN segs' = DOMAIN segs \ D /\ (\A i \in DOMAIN segs' : segs'[i] = segs[i])
      /\ DOMAIN warm' = S \cup DOMAIN warm
      /\ (\A i \in S : warm'[i] = segs[i]) /\ (\A i \in DOMAIN warm \ S : warm'[i] = warm[i])
      /\ \A m : IsTop(segs', m) <=> IsTop(segs, m)
  BY MoveShape
<1>2. /\ cold' = cold /\ Movable(S) /\ (\A i \in S \ D : \A j \in S : j <= i)
      /\ (D = S \/ proc' = Down) /\ ~Stuck
  BY DEF MoveStep, Stuck
<1>3. Apart(warm, cold, segs) /\ Whole(warm) /\ InOrder(warm) /\ Copies(warm, cold)
  BY <1>2 DEF MovedOk
<1>4. /\ \A j \in DOMAIN warm, i \in DOMAIN segs : j < i => Precedes(warm[j], segs[i])
      /\ \A i \in DOMAIN segs \cap DOMAIN warm : i = 0 /\ warm[i] = segs[i]
      /\ \A i \in DOMAIN segs \cap DOMAIN cold : i = 0 /\ cold[i] = segs[i]
  BY <1>3 DEF Apart
<1>5. DOMAIN segs \subseteq Nat /\ DOMAIN warm \subseteq Nat
      /\ \A j \in DOMAIN warm : \A i \in DOMAIN segs : j <= i
  BY DEF FilesOk, Files
<1>6. /\ \A i \in DOMAIN segs : Grows(segs[i])
      /\ \A i, j \in DOMAIN segs : i < j => Precedes(segs[i], segs[j])
      /\ \A i \in S : \A k \in 1..Len(segs[i]) : ~IsPartial(segs[i][k])
  BY <1>1, <1>2 DEF HotOk, HotFiles, Movable
<1>7. Whole(warm')
  <2>1. \A i \in S : Grows(warm'[i]) /\ \A k \in 1..Len(warm'[i]) : ~IsPartial(warm'[i][k])
    BY <1>1, <1>6
  <2>2. \A i \in DOMAIN warm \ S : Grows(warm'[i]) /\ \A k \in 1..Len(warm'[i]) : ~IsPartial(warm'[i][k])
    BY <1>1, <1>3 DEF Whole
  <2> QED
    BY <1>1, <2>1, <2>2 DEF Whole
<1>8. InOrder(warm')
  <2> SUFFICES ASSUME NEW i \in Smalls(warm'), NEW j \in Smalls(warm'), i < j
               PROVE  Precedes(warm'[i], warm'[j])
    BY DEF InOrder
  <2>1. i \in DOMAIN warm' /\ Len(warm'[i]) < SmallFile /\ j \in DOMAIN warm' /\ Len(warm'[j]) < SmallFile
    BY DEF Smalls
  <2>2. CASE i \in S /\ j \in S
    BY <2>2, <1>1, <1>6
  <2>3. CASE i \in DOMAIN warm \ S /\ j \in S
    BY <2>3, <1>1, <1>4
  <2>4. CASE i \in S /\ j \in DOMAIN warm \ S
    BY <2>4, <1>1, <1>5
  <2>5. CASE i \in DOMAIN warm \ S /\ j \in DOMAIN warm \ S
    <3>1. warm'[i] = warm[i] /\ warm'[j] = warm[j]
      BY <2>5, <1>1
    <3>2. i \in Smalls(warm) /\ j \in Smalls(warm)
      BY <2>1, <2>5, <3>1 DEF Smalls
    <3> QED
      BY <3>1, <3>2, <1>3 DEF InOrder
  <2> QED
    BY <1>1, <2>1, <2>2, <2>3, <2>4, <2>5
<1>9. Copies(warm', cold')
  <2> SUFFICES ASSUME NEW i \in DOMAIN warm' \cap DOMAIN cold
               PROVE  ToSet(cold[i]) \subseteq ToSet(warm'[i])
    BY <1>2 DEF Copies
  <2>1. CASE i \in S
    <3>1. cold[i] = warm'[i]
      BY <2>1, <1>1, <1>4
    <3> QED
      BY <3>1
  <2>2. CASE i \in DOMAIN warm \ S
    <3>1. warm'[i] = warm[i]
      BY <2>2, <1>1
    <3> QED
      BY <2>2, <3>1, <1>3 DEF Copies
  <2> QED
    BY <1>1, <2>1, <2>2
<1>10. ASSUME ~Stuck' PROVE Apart(warm', cold', segs')
  <2>1. ASSUME NEW j \in DOMAIN warm', NEW i \in DOMAIN segs', j < i
        PROVE  Precedes(warm'[j], segs'[i])
    <3>1. segs'[i] = segs[i] /\ i \in DOMAIN segs
      BY <1>1
    <3>2. CASE j \in S
      BY <2>1, <3>1, <3>2, <1>1, <1>6
    <3>3. CASE j \in DOMAIN warm \ S
      BY <2>1, <3>1, <3>3, <1>1, <1>4
    <3> QED
      BY <1>1, <3>2, <3>3
  <2>2. ASSUME NEW i \in DOMAIN segs', i \in DOMAIN warm'
        PROVE  i = 0 /\ warm'[i] = segs'[i]
    <3>1. segs'[i] = segs[i] /\ i \in DOMAIN segs /\ i \notin D
      BY <1>1
    <3>2. CASE i \in S
      <4>1. proc' = Down
        BY <1>2, <3>1, <3>2
      <4>2. ~proc'.up
        BY <4>1 DEF Down
      <4>3. ~IsTop(segs', i)
        BY <1>1, <1>2, <3>2 DEF Movable
      <4>4. 0 \in DOMAIN segs'
        BY <1>10, <2>2, <4>2, <4>3 DEF Stuck, IsTop
      <4>5. 0 \in DOMAIN segs /\ 0 \notin D /\ i \in Nat
        BY <1>1, <1>5, <3>1, <4>4
      <4>6. 0 < i => 0 \in S
        BY <1>2, <3>2, <4>5 DEF Movable
      <4>7. 0 \in S => i <= 0
        BY <1>2, <3>2, <4>5
      <4>8. i = 0
        BY <4>5, <4>6, <4>7
      <4> QED
        BY <4>8, <1>1, <3>1, <3>2
    <3>3. CASE i \in DOMAIN warm \ S
      BY <3>1, <3>3, <1>1, <1>4
    <3> QED
      BY <1>1, <2>2, <3>2, <3>3
  <2>3. \A i \in DOMAIN segs' \cap DOMAIN cold' : i = 0 /\ cold'[i] = segs'[i]
    BY <1>1, <1>2, <1>4
  <2> QED
    BY <2>1, <2>2, <2>3 DEF Apart
<1> QED
  BY <1>7, <1>8, <1>9, <1>10, MovedParts

\* Two files, one after the other.
LEMMA GrowsCat ==
  ASSUME NEW s, IsSeq(s), NEW t, IsSeq(t), Grows(s), Grows(t), Precedes(s, t)
  PROVE  Grows(s \o t)
<1>1. PICK u : u = s \o t
  OBVIOUS
<1>2. /\ Len(u) = Len(s) + Len(t)
      /\ (\A k \in 1..Len(s) : u[k] = s[k])
      /\ (\A k \in 1..Len(t) : u[Len(s) + k] = t[k])
  BY <1>1, CatOk
<1>3. Len(s) \in Nat /\ Len(t) \in Nat
  BY SeqBasics
<1>4. ASSUME NEW k \in 1..Len(u)
      PROVE  k \in 1..Len(s) \/ \E p \in 1..Len(t) : k = Len(s) + p
  <2>1. CASE k \notin 1..Len(s)
    <3>1. k - Len(s) \in 1..Len(t) /\ k = Len(s) + (k - Len(s))
      BY <1>2, <1>3, <2>1
    <3> QED
      BY <3>1
  <2> QED
    BY <2>1
<1>5. ASSUME NEW k \in 1..Len(u), NEW l \in 1..Len(u), k < l, ~IsPartial(u[k]), ~IsPartial(u[l])
      PROVE  u[k].pos < u[l].pos
  <2>1. CASE k \in 1..Len(s) /\ l \in 1..Len(s)
    BY <2>1, <1>2, <1>5 DEF Grows
  <2>2. CASE k \in 1..Len(s) /\ l \notin 1..Len(s)
    <3>1. PICK q \in 1..Len(t) : l = Len(s) + q
      BY <2>2, <1>4
    <3> QED
      BY <3>1, <2>2, <1>2, <1>5 DEF Precedes
  <2>3. CASE k \notin 1..Len(s)
    <3>1. PICK p \in 1..Len(t) : k = Len(s) + p
      BY <2>3, <1>4
    <3>2. l \notin 1..Len(s)
      BY <2>3, <1>3, <1>5
    <3>3. PICK q \in 1..Len(t) : l = Len(s) + q
      BY <3>2, <1>4
    <3>4. p < q
      BY <1>3, <1>5, <3>1, <3>3
    <3> QED
      BY <3>1, <3>3, <3>4, <1>2, <1>5 DEF Grows
  <2> QED
    BY <2>1, <2>2, <2>3
<1> QED
  BY <1>1, <1>5 DEF Grows

\* A file precedes two files, and two files precede one, part by part.
LEMMA PrecedesCat ==
  ASSUME NEW s, IsSeq(s), NEW t, IsSeq(t), NEW r
  PROVE  /\ Precedes(s, r) /\ Precedes(t, r) => Precedes(s \o t, r)
         /\ Precedes(r, s) /\ Precedes(r, t) => Precedes(r, s \o t)
<1>1. PICK u : u = s \o t
  OBVIOUS
<1>2. /\ Len(u) = Len(s) + Len(t)
      /\ (\A k \in 1..Len(s) : u[k] = s[k])
      /\ (\A k \in 1..Len(t) : u[Len(s) + k] = t[k])
  BY <1>1, CatOk
<1>3. Len(s) \in Nat /\ Len(t) \in Nat
  BY SeqBasics
<1>4. ASSUME NEW k \in 1..Len(u)
      PROVE  (\E p \in 1..Len(s) : u[k] = s[p]) \/ (\E p \in 1..Len(t) : u[k] = t[p])
  <2>1. CASE k \in 1..Len(s)
    BY <2>1, <1>2
  <2>2. CASE k \notin 1..Len(s)
    <3>1. k - Len(s) \in 1..Len(t) /\ k = Len(s) + (k - Len(s))
      BY <1>2, <1>3, <2>2
    <3> QED
      BY <3>1, <1>2
  <2> QED
    BY <2>1, <2>2
<1>5. Precedes(s, r) /\ Precedes(t, r) => Precedes(u, r)
  BY <1>4 DEF Precedes
<1>6. Precedes(r, s) /\ Precedes(r, t) => Precedes(r, u)
  BY <1>4 DEF Precedes
<1> QED
  BY <1>1, <1>5, <1>6

\* A merge.
LEMMA MovedMerge ==
  ASSUME FilesOk, MovedOk, MergeWarm
  PROVE  MovedOk'
<1>1. /\ DOMAIN warm' = DOMAIN warm \ Highers
      /\ \A i \in DOMAIN warm \ Highers : i \notin Lowers => warm'[i] = warm[i]
      /\ \A i \in Lowers : /\ i \in DOMAIN warm' /\ Higher(i) \in DOMAIN warm
                           /\ warm'[i] = warm[i] \o warm[Higher(i)]
      /\ segs' = segs /\ proc' = proc /\ cold' = cold
  BY MergeShape
<1>2. /\ Lowers \subseteq Small /\ Highers \subseteq Small /\ Lowers \cap Highers = {}
      /\ \A i \in Lowers : /\ Higher(i) \in Highers /\ i < Higher(i)
                           /\ \A k \in Small : k <= i \/ Higher(i) <= k
  BY PairsOk
<1>3. Small = Smalls(warm)
  BY DEF Small, Smalls
<1>4. \A i \in DOMAIN warm : IsSeq(warm[i]) /\ i \in Nat
  BY DEF FilesOk, Files
<1>5. /\ \A i \in DOMAIN warm : Grows(warm[i]) /\ \A k \in 1..Len(warm[i]) : ~IsPartial(warm[i][k])
      /\ \A i, j \in Small : i < j => Precedes(warm[i], warm[j])
      /\ \A i \in DOMAIN warm \cap DOMAIN cold : ToSet(cold[i]) \subseteq ToSet(warm[i])
  BY <1>3 DEF MovedOk, Whole, InOrder, Copies
<1>6. Small \subseteq DOMAIN warm
  BY DEF Small
<1>7. ASSUME NEW i \in Lowers
      PROVE  /\ i \in DOMAIN warm /\ Higher(i) \in Small /\ Higher(i) \in DOMAIN warm /\ i < Higher(i)
             /\ IsSeq(warm[i]) /\ IsSeq(warm[Higher(i)]) /\ i \in Nat /\ Higher(i) \in Nat
             /\ Grows(warm'[i]) /\ \A k \in 1..Len(warm'[i]) : ~IsPartial(warm'[i][k])
  <2>1. /\ i \in DOMAIN warm /\ Higher(i) \in DOMAIN warm /\ i \in Small /\ Higher(i) \in Small
        /\ i < Higher(i)
    BY <1>1, <1>2, <1>6
  <2>2. PICK s : s = warm[i]
    OBVIOUS
  <2>3. PICK t : t = warm[Higher(i)]
    OBVIOUS
  <2>4. /\ IsSeq(s) /\ IsSeq(t) /\ Grows(s) /\ Grows(t) /\ Precedes(s, t)
    BY <1>4, <1>5, <2>1, <2>2, <2>3
  <2>5. Grows(s \o t)
    BY <2>4, GrowsCat
  <2>6. \A k \in 1..Len(s \o t) : ~IsPartial((s \o t)[k])
    <3>1. PICK u : u = s \o t
      OBVIOUS
    <3>2. /\ IsSeq(u) /\ \A f : f \in ToSet(u) <=> f \in ToSet(s) \/ f \in ToSet(t)
      BY <2>4, <3>1, CatOk, CatFrames
    <3>3. DOMAIN u = 1..Len(u) /\ DOMAIN s = 1..Len(s) /\ DOMAIN t = 1..Len(t)
      BY <2>4, <3>2, SeqBasics
    <3>4. \A f \in ToSet(s) : ~IsPartial(f)
      BY <1>5, <2>1, <2>2, <3>3 DEF ToSet
    <3>5. \A f \in ToSet(t) : ~IsPartial(f)
      BY <1>5, <2>1, <2>3, <3>3 DEF ToSet
    <3>6. \A k \in 1..Len(u) : u[k] \in ToSet(u)
      BY <3>3 DEF ToSet
    <3> QED
      BY <3>1, <3>2, <3>4, <3>5, <3>6
  <2>7. warm'[i] = s \o t
    BY <1>1, <2>2, <2>3
  <2> QED
    BY <1>4, <2>1, <2>2, <2>3, <2>4, <2>5, <2>6, <2>7
<1>8. Whole(warm')
  <2> SUFFICES ASSUME NEW i \in DOMAIN warm'
               PROVE  Grows(warm'[i]) /\ \A k \in 1..Len(warm'[i]) : ~IsPartial(warm'[i][k])
    BY DEF Whole
  <2>1. CASE i \in Lowers
    BY <2>1, <1>7
  <2>2. CASE i \notin Lowers
    BY <2>2, <1>1, <1>5
  <2> QED
    BY <2>1, <2>2
<1>9. ASSUME NEW i \in DOMAIN warm', NEW r, Precedes(warm[i], r),
             i \in Lowers => Precedes(warm[Higher(i)], r)
      PROVE  Precedes(warm'[i], r)
  <2>1. CASE i \in Lowers
    <3>1. PICK s : s = warm[i]
      OBVIOUS
    <3>2. PICK t : t = warm[Higher(i)]
      OBVIOUS
    <3>3. IsSeq(s) /\ IsSeq(t) /\ Precedes(s, r) /\ Precedes(t, r)
      BY <1>7, <1>9, <2>1, <3>1, <3>2
    <3>4. Precedes(s \o t, r)
      BY <3>3, PrecedesCat
    <3> QED
      BY <1>1, <2>1, <3>1, <3>2, <3>4
  <2>2. CASE i \notin Lowers
    BY <2>2, <1>1, <1>9
  <2> QED
    BY <2>1, <2>2
<1>10. ASSUME NEW j \in DOMAIN warm', NEW r, Precedes(r, warm[j]),
              j \in Lowers => Precedes(r, warm[Higher(j)])
       PROVE  Precedes(r, warm'[j])
  <2>1. CASE j \in Lowers
    <3>1. PICK s : s = warm[j]
      OBVIOUS
    <3>2. PICK t : t = warm[Higher(j)]
      OBVIOUS
    <3>3. IsSeq(s) /\ IsSeq(t) /\ Precedes(r, s) /\ Precedes(r, t)
      BY <1>7, <1>10, <2>1, <3>1, <3>2
    <3>4. Precedes(r, s \o t)
      BY <3>3, PrecedesCat
    <3> QED
      BY <1>1, <2>1, <3>1, <3>2, <3>4
  <2>2. CASE j \notin Lowers
    BY <2>2, <1>1, <1>10
  <2> QED
    BY <2>1, <2>2
<1>11. \A i \in Smalls(warm') : i \in Small /\ i \in DOMAIN warm' /\ i \notin Highers
  <2> SUFFICES ASSUME NEW i \in Smalls(warm') PROVE i \in Small /\ i \in DOMAIN warm' /\ i \notin Highers
    OBVIOUS
  <2>1. i \in DOMAIN warm' /\ Len(warm'[i]) < SmallFile
    BY DEF Smalls
  <2>2. CASE i \in Lowers
    BY <2>1, <2>2, <1>1, <1>2
  <2>3. CASE i \notin Lowers
    BY <2>1, <2>3, <1>1 DEF Small
  <2> QED
    BY <1>1, <2>1, <2>2, <2>3
<1>12. InOrder(warm')
  <2> SUFFICES ASSUME NEW i \in Smalls(warm'), NEW j \in Smalls(warm'), i < j
               PROVE  Precedes(warm'[i], warm'[j])
    BY DEF InOrder
  <2>1. /\ i \in Small /\ i \in DOMAIN warm' /\ j \in Small /\ j \in DOMAIN warm' /\ j \notin Highers
        /\ i \in Nat /\ j \in Nat
    BY <1>4, <1>6, <1>11
  <2>2. ASSUME NEW p \in Small, p < j PROVE Precedes(warm[p], warm'[j])
    <3>1. PICK r : r = warm[p]
      OBVIOUS
    <3>2. Precedes(r, warm[j])
      BY <1>5, <2>1, <2>2, <3>1
    <3>3. j \in Lowers => Precedes(r, warm[Higher(j)])
      <4> SUFFICES ASSUME j \in Lowers PROVE Precedes(r, warm[Higher(j)])
        OBVIOUS
      <4>1. p < Higher(j) /\ Higher(j) \in Small
        BY <1>4, <1>6, <1>7, <2>2
      <4> QED
        BY <4>1, <1>5, <3>1
    <3>4. Precedes(r, warm'[j])
      BY <1>10, <2>1, <3>2, <3>3
    <3> QED
      BY <3>1, <3>4
  <2>3. i \in Lowers => Higher(i) \in Small /\ Higher(i) < j
    <3> SUFFICES ASSUME i \in Lowers PROVE Higher(i) \in Small /\ Higher(i) < j
      OBVIOUS
    <3>1. Higher(i) \in Highers /\ Higher(i) <= j /\ Higher(i) \in Nat /\ Higher(i) \in Small
      BY <1>2, <1>7, <2>1
    <3> QED
      BY <3>1, <2>1
  <2>4. PICK r : r = warm'[j]
    OBVIOUS
  <2>5. Precedes(warm[i], r) /\ (i \in Lowers => Precedes(warm[Higher(i)], r))
    BY <2>1, <2>2, <2>3, <2>4
  <2> QED
    BY <1>9, <2>1, <2>4, <2>5
<1>13. Copies(warm', cold')
  <2> SUFFICES ASSUME NEW i \in DOMAIN warm' \cap DOMAIN cold
               PROVE  ToSet(cold[i]) \subseteq ToSet(warm'[i])
    BY <1>1 DEF Copies
  <2>1. ToSet(cold[i]) \subseteq ToSet(warm[i])
    BY <1>1, <1>5
  <2>2. CASE i \in Lowers
    <3>1. PICK s : s = warm[i]
      OBVIOUS
    <3>2. PICK t : t = warm[Higher(i)]
      OBVIOUS
    <3>3. IsSeq(s) /\ IsSeq(t)
      BY <1>7, <2>2, <3>1, <3>2
    <3>4. \A f : f \in ToSet(s \o t) <=> f \in ToSet(s) \/ f \in ToSet(t)
      BY <3>3, CatFrames
    <3>5. warm'[i] = s \o t
      BY <1>1, <2>2, <3>1, <3>2
    <3> QED
      BY <2>1, <3>1, <3>4, <3>5
  <2>3. CASE i \notin Lowers
    BY <2>1, <2>3, <1>1
  <2> QED
    BY <2>2, <2>3
<1>14. ASSUME ~Stuck' PROVE Apart(warm', cold', segs')
  <2>1. ~Stuck
    BY <1>1, <1>14 DEF Stuck, IsTop
  <2>2. /\ \A j \in DOMAIN warm, i \in DOMAIN segs : j < i => Precedes(warm[j], segs[i])
        /\ \A i \in DOMAIN segs \cap DOMAIN warm : i = 0 /\ warm[i] = segs[i]
        /\ \A i \in DOMAIN segs \cap DOMAIN cold : i = 0 /\ cold[i] = segs[i]
    BY <2>1 DEF MovedOk, Apart
  <2>3. \A j \in DOMAIN warm : \A i \in DOMAIN segs : j <= i /\ i \in Nat
    BY DEF FilesOk, Files
  <2>4. ASSUME NEW j \in DOMAIN warm', NEW i \in DOMAIN segs, j < i
        PROVE  Precedes(warm'[j], segs[i])
    <3>1. Precedes(warm[j], segs[i])
      BY <1>1, <2>2, <2>4
    <3>2. j \in Lowers => Precedes(warm[Higher(j)], segs[i])
      <4> SUFFICES ASSUME j \in Lowers PROVE Precedes(warm[Higher(j)], segs[i])
        OBVIOUS
      <4>1. Higher(j) \in DOMAIN warm /\ j < Higher(j) /\ j \in Nat /\ Higher(j) \in Nat /\ Higher(j) <= i /\ i \in Nat
        BY <1>7, <2>3
      <4>2. Higher(j) # i
        BY <2>2, <4>1
      <4>3. Higher(j) < i
        BY <4>1, <4>2
      <4> QED
        BY <2>2, <4>1, <4>3
    <3> QED
      BY <1>9, <3>1, <3>2
  <2>5. ASSUME NEW i \in DOMAIN segs, i \in DOMAIN warm'
        PROVE  i = 0 /\ warm'[i] = segs[i]
    <3>1. i \in DOMAIN warm /\ i = 0 /\ warm[i] = segs[i]
      BY <1>1, <2>2, <2>5
    <3>2. i \notin Lowers
      <4> SUFFICES ASSUME i \in Lowers PROVE FALSE
        OBVIOUS
      <4>1. Higher(i) \in DOMAIN warm /\ i < Higher(i) /\ Higher(i) \in Nat
        BY <1>7
      <4>2. Higher(i) <= i
        BY <2>3, <4>1
      <4> QED
        BY <3>1, <4>1, <4>2
    <3> QED
      BY <1>1, <2>5, <3>1, <3>2
  <2> QED
    BY <1>1, <2>2, <2>4, <2>5 DEF Apart
<1> QED
  BY <1>8, <1>12, <1>13, <1>14, MovedParts

\* What the cold tier does.
LEMMA MovedCold ==
  ASSUME FilesOk, MovedOk, WarmToCold \/ CleanupCold
  PROVE  MovedOk'
<1>1. segs' = segs /\ proc' = proc
  BY DEF WarmToCold, CleanupCold, trailVars
<1>2. Stuck' <=> Stuck
  BY <1>1 DEF Stuck, IsTop
<1>3. Whole(warm) /\ InOrder(warm) /\ Copies(warm, cold) /\ (~Stuck => Apart(warm, cold, segs))
  BY DEF MovedOk
<1>4. CASE CleanupCold
  <2>1. warm' = warm /\ DOMAIN cold' \subseteq DOMAIN cold /\ \A i \in DOMAIN cold' : cold'[i] = cold[i]
    BY <1>4, ColdShape
  <2>2. Copies(warm', cold')
    BY <1>3, <2>1 DEF Copies
  <2>3. ~Stuck => Apart(warm', cold', segs')
    BY <1>1, <1>3, <2>1 DEF Apart
  <2> QED
    BY <1>2, <1>3, <2>1, <2>2, <2>3, MovedParts
<1>5. CASE WarmToCold
  <2>1. /\ DOMAIN warm' = DOMAIN warm \ OldWarm /\ OldWarm \subseteq DOMAIN warm
        /\ DOMAIN cold' = OldWarm \cup DOMAIN cold
        /\ (\A i \in DOMAIN warm' : warm'[i] = warm[i])
        /\ (\A i \in OldWarm : cold'[i] = warm[i])
        /\ (\A i \in DOMAIN cold \ OldWarm : cold'[i] = cold[i])
    BY <1>5, ColdShape
  <2>2. Whole(warm')
    BY <1>3, <2>1 DEF Whole
  <2>3. InOrder(warm')
    <3>1. \A i \in Smalls(warm') : i \in Smalls(warm) /\ warm'[i] = warm[i]
      BY <2>1 DEF Smalls
    <3> QED
      BY <1>3, <3>1 DEF InOrder
  <2>4. Copies(warm', cold')
    BY <1>3, <2>1 DEF Copies
  <2>5. ASSUME ~Stuck PROVE Apart(warm', cold', segs')
    <3>1. /\ \A j \in DOMAIN warm, i \in DOMAIN segs : j < i => Precedes(warm[j], segs[i])
          /\ \A i \in DOMAIN segs \cap DOMAIN warm : i = 0 /\ warm[i] = segs[i]
          /\ \A i \in DOMAIN segs \cap DOMAIN cold : i = 0 /\ cold[i] = segs[i]
      BY <1>3, <2>5 DEF Apart
    <3>2. \A j \in DOMAIN warm', i \in DOMAIN segs : j < i => Precedes(warm'[j], segs[i])
      BY <2>1, <3>1
    <3>3. \A i \in DOMAIN segs \cap DOMAIN warm' : i = 0 /\ warm'[i] = segs[i]
      BY <2>1, <3>1
    <3>4. \A i \in DOMAIN segs \cap DOMAIN cold' : i = 0 /\ cold'[i] = segs[i]
      BY <2>1, <3>1
    <3> QED
      BY <1>1, <3>2, <3>3, <3>4 DEF Apart
  <2> QED
    BY <1>2, <2>2, <2>3, <2>4, <2>5, MovedParts
<1> QED
  BY <1>4, <1>5

\* Every step of a trail that is not muddled keeps the files that left.
LEMMA MovedNext ==
  ASSUME FilesOk, HotOk, MovedOk, NoTierLosesEntries, ~muddled, TiersNext
  PROVE  MovedOk'
<1>1. CASE (\E n \in 1..MaxLog : SetAnchor(n)) \/ \E i \in 0..MaxLog : Age(i)
  <2>1. segs' = segs /\ proc' = proc /\ warm' = warm /\ cold' = cold
    BY <1>1 DEF SetAnchor, Age, trailVars
  <2>2. Stuck' <=> Stuck
    BY <2>1 DEF Stuck, IsTop
  <2>3. Whole(warm) /\ InOrder(warm) /\ Copies(warm, cold) /\ (~Stuck => Apart(warm, cold, segs))
    BY DEF MovedOk
  <2> QED
    BY <2>1, <2>2, <2>3, MovedParts
<1>2. CASE HotToWarm \/ \E i : CrashInHotToWarm(i)
  BY <1>2, MoveSteps, MovedMove
<1> QED
  BY <1>1, <1>2, MovedTrail, MovedMerge, MovedCold DEF TiersNext
-----------------------------------------------------------------------------
(* Trails whose segments are all hot                                       *)

\* All hot: every id up to the highest is there.
LEMMA AllHotIs ==
  ASSUME FilesOk, NEW m \in Nat, IsTop(segs, m)
  PROVE  AllHot <=> DOMAIN segs = 0..m
<1>1. IsFiniteSet(DOMAIN segs) /\ DOMAIN segs \subseteq Nat
  BY DEF FilesOk, Files
<1>2. PICK c \in Nat : c = Cardinality(DOMAIN segs)
  BY <1>1, FS_CardinalityType
<1>3. ASSUME AllHot PROVE DOMAIN segs = 0..m
  <2>1. DOMAIN segs = 0..(c - 1)
    BY <1>2, <1>3 DEF AllHot
  <2>2. m \in 0..(c - 1) /\ \A i \in 0..(c - 1) : i <= m
    BY <2>1 DEF IsTop
  <2>3. c - 1 \in 0..(c - 1)
    BY <2>2
  <2>4. c - 1 = m
    BY <2>2, <2>3
  <2> QED
    BY <2>1, <2>4
<1>4. ASSUME DOMAIN segs = 0..m PROVE AllHot
  <2>1. 0 \in Int /\ m \in Int /\ ~(m < 0)
    OBVIOUS
  <2>2. Cardinality(0..m) = m - 0 + 1
    BY <2>1, FS_Interval
  <2>3. Cardinality(DOMAIN segs) - 1 = m
    BY <1>4, <2>2
  <2> QED
    BY <1>4, <2>3 DEF AllHot
<1> QED
  BY <1>3, <1>4

\* A move out of an all-hot trail that leaves it so has removed nothing.
LEMMA MoveStaysHot ==
  ASSUME FilesOk, NEW S, NEW D, MoveStep(S, D), FilesOk', AllHot'
  PROVE  segs' = segs
<1>1. /\ Files(segs)' /\ S \subseteq DOMAIN segs /\ D \subseteq S
      /\ DOMAIN segs' = DOMAIN segs \ D /\ (\A i \in DOMAIN segs' : segs'[i] = segs[i])
      /\ \A m : IsTop(segs', m) <=> IsTop(segs, m)
  BY MoveShape
<1>2. PICK m \in Nat : IsTop(segs, m)
  BY DEF FilesOk
<1>3. (AllHot <=> DOMAIN segs = 0..m)'
  <2>1. IsTop(segs, m)' /\ m' = m
    BY <1>1, <1>2
  <2>2. m \in 0..m
    OBVIOUS
  <2>3. IsFiniteSet(DOMAIN segs') /\ DOMAIN segs' \subseteq Nat
    BY DEF FilesOk, Files
  <2>4. PICK c \in Nat : c = Cardinality(DOMAIN segs')
    BY <2>3, FS_CardinalityType
  <2>5. DOMAIN segs' = 0..(c - 1)
    BY <2>4 DEF AllHot
  <2>6. m \in 0..(c - 1) /\ \A i \in 0..(c - 1) : i <= m
    BY <2>1, <2>5 DEF IsTop
  <2>7. c - 1 \in 0..(c - 1)
    BY <2>6
  <2>8. c - 1 = m
    BY <2>6, <2>7
  <2> QED
    BY <2>5, <2>8
<1>4. 0 \in DOMAIN segs'
  BY <1>3
<1>5. 0 \in DOMAIN segs /\ 0 \notin D
  BY <1>1, <1>4
<1>6. D = {}
  <2> SUFFICES ASSUME NEW d \in D PROVE FALSE
    OBVIOUS
  <2>1. d \in Nat /\ d \in S /\ d # 0
    BY <1>1, <1>5 DEF FilesOk, Files
  <2>2. 0 \in S
    BY <1>5, <2>1 DEF MoveStep, Movable
  <2>3. d <= 0
    BY <1>5, <2>1, <2>2 DEF MoveStep
  <2> QED
    BY <2>1, <2>3
<1>7. DOMAIN segs' = DOMAIN segs /\ \A i \in DOMAIN segs : segs'[i] = segs[i]
  BY <1>1, <1>6
<1>8. segs = [i \in DOMAIN segs |-> segs[i]] /\ segs' = [i \in DOMAIN segs' |-> segs'[i]]
  BY <1>1 DEF FilesOk, Files
<1> QED
  BY <1>7, <1>8

\* The entries of a longer log.
LEMMA EntriesAppend ==
  ASSUME NEW events, IsSeq(events), NEW e
  PROVE  Entries(Append(events, e)) = Append(Entries(events), Frame(e, Append(events, e), Len(events) + 1))
<1>1. PICK n \in Nat : n = Len(events)
  BY SeqBasics
<1>2. PICK longer : longer = Append(events, e)
  OBVIOUS
<1>3. /\ IsSeq(longer) /\ Len(longer) = n + 1
      /\ (\A k \in 1..n : longer[k] = events[k]) /\ longer[n + 1] = e
  BY <1>1, <1>2, AppendOk
<1>4. PICK old : old = Entries(events)
  OBVIOUS
<1>5. /\ DOMAIN old = 1..n /\ old = [k \in DOMAIN old |-> old[k]]
      /\ \A k \in 1..n : old[k] = Frame(events[k], SubSeq(events, 1, k), k)
  BY <1>1, <1>4 DEF Entries
<1>6. IsSeq(old) /\ Len(old) = n
  BY <1>5, FunctionIsSeq
<1>7. PICK x : x = Frame(e, longer, n + 1)
  OBVIOUS
<1>8. PICK t : t = Append(old, x)
  OBVIOUS
<1>9. IsSeq(t) /\ Len(t) = n + 1 /\ (\A k \in 1..n : t[k] = old[k]) /\ t[n + 1] = x
  BY <1>6, <1>8, AppendOk
<1>10. PICK u : u = Entries(longer)
  OBVIOUS
<1>11. /\ DOMAIN u = 1..(n + 1) /\ u = [k \in DOMAIN u |-> u[k]]
       /\ \A k \in 1..(n + 1) : u[k] = Frame(longer[k], SubSeq(longer, 1, k), k)
  BY <1>3, <1>10 DEF Entries
<1>12. n + 1 \in Nat
  OBVIOUS
<1>13. IsSeq(u) /\ Len(u) = n + 1
  BY <1>11, <1>12, FunctionIsSeq
<1>14. ASSUME NEW k \in 1..(n + 1) PROVE t[k] = u[k]
  <2>1. CASE k \in 1..n
    <3>1. k \in 0..Len(events) /\ k \in 0..Len(longer) /\ k \in Nat
      BY <1>1, <1>3, <2>1
    <3>2. /\ IsSeq(SubSeq(events, 1, k)) /\ Len(SubSeq(events, 1, k)) = k
          /\ \A l \in 1..k : SubSeq(events, 1, k)[l] = events[l]
      BY <3>1, PrefixOk
    <3>3. /\ IsSeq(SubSeq(longer, 1, k)) /\ Len(SubSeq(longer, 1, k)) = k
          /\ \A l \in 1..k : SubSeq(longer, 1, k)[l] = longer[l]
      BY <1>3, <3>1, PrefixOk
    <3>4. \A l \in 1..k : longer[l] = events[l]
      BY <1>3, <2>1
    <3>5. SubSeq(events, 1, k) = SubSeq(longer, 1, k)
      <4>1. PICK p : p = SubSeq(events, 1, k)
        OBVIOUS
      <4>2. PICK q : q = SubSeq(longer, 1, k)
        OBVIOUS
      <4>3. IsSeq(p) /\ IsSeq(q) /\ Len(p) = Len(q) /\ \A l \in 1..Len(p) : p[l] = q[l]
        BY <3>2, <3>3, <3>4, <4>1, <4>2
      <4>4. p = q
        BY <4>3, SeqSame
      <4> QED
        BY <4>1, <4>2, <4>4
    <3> QED
      BY <1>3, <1>5, <1>9, <1>11, <2>1, <3>5
  <2>2. CASE k = n + 1
    <3>1. SubSeq(longer, 1, n + 1) = longer
      BY <1>3, PrefixWhole
    <3> QED
      BY <1>3, <1>7, <1>9, <1>11, <2>2, <3>1
  <2> QED
    BY <1>1, <2>1, <2>2
<1>15. t = u
  BY <1>9, <1>13, <1>14, SeqSame
<1> QED
  BY <1>1, <1>2, <1>4, <1>7, <1>8, <1>10, <1>15

\* The trail reads the same when each file does.
LEMMA ConcatSame ==
  ASSUME NEW f, Files(f), NEW g, Files(g), DOMAIN g = DOMAIN f, NEW m \in Nat, IsTop(f, m),
         \A i \in DOMAIN f : ScanSegment(g[i]) = ScanSegment(f[i])
  PROVE  Concat(g) = Concat(f)
<1>1. IsTop(g, m) /\ m \in DOMAIN f
  BY DEF IsTop
<1>2. Concat(f) = Below(f)[m] \o ScanSegment(f[m])
  BY ConcatTop
<1>3. Concat(g) = Below(g)[m] \o ScanSegment(g[m])
  BY <1>1, ConcatTop
<1>4. \A i \in 0..(m - 1) : Scanned(g, i) = Scanned(f, i)
  BY DEF Scanned
<1>5. Below(g)[m] = Below(f)[m]
  BY <1>4, BelowAgrees
<1> QED
  BY <1>1, <1>2, <1>3, <1>5

\* A frame more at the end of the last file is one more at the end of all.
LEMMA CatAppend ==
  ASSUME NEW s, IsSeq(s), NEW t, IsSeq(t), NEW x
  PROVE  s \o Append(t, x) = Append(s \o t, x)
<1>1. PICK n \in Nat : n = Len(s)
  BY SeqBasics
<1>2. PICK l \in Nat : l = Len(t)
  BY SeqBasics
<1>3. PICK tx : tx = Append(t, x)
  OBVIOUS
<1>4. IsSeq(tx) /\ Len(tx) = l + 1 /\ (\A k \in 1..l : tx[k] = t[k]) /\ tx[l + 1] = x
  BY <1>2, <1>3, AppendOk
<1>5. PICK st : st = s \o t
  OBVIOUS
<1>6. /\ IsSeq(st) /\ Len(st) = n + l /\ (\A k \in 1..n : st[k] = s[k])
      /\ \A k \in 1..l : st[n + k] = t[k]
  BY <1>1, <1>2, <1>5, CatOk
<1>7. PICK p : p = s \o tx
  OBVIOUS
<1>8. /\ IsSeq(p) /\ Len(p) = n + (l + 1) /\ (\A k \in 1..n : p[k] = s[k])
      /\ \A k \in 1..(l + 1) : p[n + k] = tx[k]
  <2>1. IsSeq(tx)
    BY <1>4
  <2>2. /\ IsSeq(p) /\ Len(p) = Len(s) + Len(tx) /\ (\A k \in 1..Len(s) : p[k] = s[k])
        /\ \A k \in 1..Len(tx) : p[Len(s) + k] = tx[k]
    BY <1>7, <2>1, CatOk
  <2> QED
    BY <1>1, <1>4, <2>2
<1>9. PICK q : q = Append(st, x)
  OBVIOUS
<1>10. /\ IsSeq(q) /\ Len(q) = (n + l) + 1 /\ (\A k \in 1..(n + l) : q[k] = st[k]) /\ q[(n + l) + 1] = x
  BY <1>6, <1>9, AppendOk
<1>11. ASSUME NEW k \in 1..((n + l) + 1) PROVE p[k] = q[k]
  <2>1. CASE k \in 1..n
    BY <2>1, <1>6, <1>8, <1>10
  <2>2. CASE k \notin 1..n /\ k \in 1..(n + l)
    <3>1. PICK j \in 1..l : k = n + j
      <4>1. k - n \in 1..l /\ k = n + (k - n)
        BY <2>2
      <4> QED
        BY <4>1
    <3> QED
      BY <2>2, <3>1, <1>4, <1>6, <1>8, <1>10
  <2>3. CASE k = (n + l) + 1
    <3>1. k = n + (l + 1) /\ l + 1 \in 1..(l + 1)
      BY <2>3
    <3> QED
      BY <2>3, <3>1, <1>4, <1>8, <1>10
  <2> QED
    BY <2>1, <2>2, <2>3
<1>12. Len(p) = Len(q) /\ \A k \in 1..Len(p) : p[k] = q[k]
  BY <1>8, <1>10, <1>11
<1>13. p = q
  BY <1>8, <1>10, <1>12, SeqSame
<1> QED
  BY <1>3, <1>5, <1>7, <1>9, <1>13

\* An append to a whole trail is read at its end.
LEMMA ConcatGrown ==
  ASSUME NEW files, Files(files), HotFiles(files, FALSE), NEW a \in Nat, IsTop(files, a),
         NEW x, NEW g, g = Grown(files, a, x)
  PROVE  IF IsPartial(x) THEN x = Partial(x.partial) => Concat(g) = Concat(files)
         ELSE Concat(g) = Append(Concat(files), x)
<1>1. a \in DOMAIN files
  BY DEF IsTop
<1>2. /\ Files(g) /\ DOMAIN g = DOMAIN files /\ g[a] = Append(files[a], x)
      /\ \A i \in DOMAIN files : i # a => g[i] = files[i]
      /\ \A m : IsTop(g, m) <=> IsTop(files, m)
  BY <1>1, AppendShape
<1>3. PICK s : s = files[a]
  OBVIOUS
<1>4. IsSeq(s) /\ \A k \in 1..Len(s) : ~IsPartial(s[k])
  BY <1>1, <1>3 DEF Files, HotFiles
<1>5. ScanSegment(s) = s
  BY <1>4, ScanWhole
<1>6. CASE IsPartial(x)
  <2> SUFFICES ASSUME x = Partial(x.partial) PROVE Concat(g) = Concat(files)
    BY <1>6
  <2>1. ScanSegment(Append(s, Partial(x.partial))) = s
    BY <1>4, ScanHalf
  <2>2. \A i \in DOMAIN files : ScanSegment(g[i]) = ScanSegment(files[i])
    BY <1>2, <1>3, <1>5, <2>1
  <2> QED
    BY <1>2, <2>2, ConcatSame
<1>7. CASE ~IsPartial(x)
  <2>1. PICK t : t = Append(s, x)
    OBVIOUS
  <2>2. IsSeq(t) /\ Len(t) = Len(s) + 1 /\ (\A k \in 1..Len(s) : t[k] = s[k]) /\ t[Len(s) + 1] = x
    BY <1>4, <2>1, AppendOk
  <2>3. Len(s) \in Nat
    BY <1>4, SeqBasics
  <2>4. \A k \in 1..Len(t) : k \in 1..Len(s) \/ k = Len(s) + 1
    BY <2>2, <2>3
  <2>5. \A k \in 1..Len(t) : ~IsPartial(t[k])
    BY <1>4, <1>7, <2>2, <2>4
  <2>6. ScanSegment(t) = t
    BY <2>2, <2>5, ScanWhole
  <2>7. IsTop(g, a)
    BY <1>2
  <2>8. Concat(g) = Below(g)[a] \o ScanSegment(g[a])
    BY <1>2, <2>7, ConcatTop
  <2>9. Concat(files) = Below(files)[a] \o ScanSegment(files[a])
    BY ConcatTop
  <2>10. \A i \in 0..(a - 1) : Scanned(g, i) = Scanned(files, i)
    BY <1>2 DEF Scanned
  <2>11. Below(g)[a] = Below(files)[a]
    BY <2>10, BelowAgrees
  <2>12. PICK before : before = Below(files)[a]
    OBVIOUS
  <2>13. IsSeq(before)
    BY <2>12, BelowIsSeq DEF Files
  <2>14. before \o Append(s, x) = Append(before \o s, x)
    BY <1>4, <2>13, CatAppend
  <2> QED
    BY <1>2, <1>3, <1>5, <1>7, <2>1, <2>6, <2>8, <2>9, <2>11, <2>12, <2>14
<1> QED
  BY <1>6, <1>7

\* An empty file at the end adds nothing.
LEMMA ConcatRotated ==
  ASSUME NEW files, Files(files), NEW a \in Nat, IsTop(files, a), NEW b \in Nat, b = a + 1,
         NEW g, g = Put(files, b, <<>>)
  PROVE  Concat(g) = Concat(files)
<1>1. IsRotated(g, files, b)
  BY RotateShape
<1>2. /\ Files(g) /\ DOMAIN g = DOMAIN files \cup {b} /\ g[b] = <<>>
      /\ (\A i \in DOMAIN files : g[i] = files[i] /\ i < b) /\ IsTop(g, b)
  BY <1>1 DEF IsRotated
<1>3. ScanSegment(<<>>) = <<>>
  <2>1. PICK s : s = <<>>
    OBVIOUS
  <2>2. IsSeq(s) /\ \A k \in 1..Len(s) : ~IsPartial(s[k])
    BY <2>1, EmptyIsSeq
  <2>3. ScanSegment(s) = s
    BY <2>2, ScanWhole
  <2> QED
    BY <2>1, <2>3
<1>4. Concat(g) = Below(g)[b] \o <<>>
  <2>1. Concat(g) = Below(g)[b] \o ScanSegment(g[b])
    BY <1>2, ConcatTop
  <2> QED
    BY <1>2, <1>3, <2>1
<1>5. Below(g)[b] = Below(g)[a] \o Scanned(g, a)
  BY BelowUnfolds
<1>6. \A i \in 0..(a - 1) : Scanned(g, i) = Scanned(files, i)
  <2> SUFFICES ASSUME NEW i \in 0..(a - 1) PROVE Scanned(g, i) = Scanned(files, i)
    OBVIOUS
  <2>1. i # b
    OBVIOUS
  <2> QED
    BY <1>2, <2>1 DEF Scanned
<1>7. Below(g)[a] = Below(files)[a]
  BY <1>6, BelowAgrees
<1>8. a \in DOMAIN files
  BY DEF IsTop
<1>9. Scanned(g, a) = ScanSegment(files[a])
  BY <1>2, <1>8 DEF Scanned
<1>10. Concat(files) = Below(files)[a] \o ScanSegment(files[a])
  BY ConcatTop
<1>11. Below(g)[b] = Concat(files)
  BY <1>5, <1>7, <1>9, <1>10
<1>12. PICK all : all = Below(g)[b]
  OBVIOUS
<1>13. IsSeq(all)
  BY <1>2, <1>12, BelowIsSeq DEF Files
<1>14. all \o <<>> = all
  <2>1. PICK none : none = <<>>
    OBVIOUS
  <2>2. IsSeq(none) /\ Len(none) = 0
    BY <2>1, EmptyIsSeq
  <2>3. PICK p : p = all \o none
    OBVIOUS
  <2>4. Len(all) \in Nat
    BY <1>13, SeqBasics
  <2>5. IsSeq(p) /\ Len(p) = Len(all) + Len(none) /\ \A k \in 1..Len(all) : p[k] = all[k]
    BY <1>13, <2>2, <2>3, CatOk
  <2>6. Len(p) = Len(all) /\ \A k \in 1..Len(p) : p[k] = all[k]
    BY <2>2, <2>4, <2>5
  <2>7. p = all
    BY <1>13, <2>5, <2>6, SeqSame
  <2> QED
    BY <2>1, <2>3, <2>7
<1> QED
  BY <1>4, <1>11, <1>12, <1>14

\* The index survives when the files and the log only lose half frames.
LEMMA RowsKeep ==
  ASSUME NEW index, NEW f, NEW g, NEW old, NEW new, RowsOk(index, f, old),
         \A i \in DOMAIN f : i \in DOMAIN g,
         \A i \in DOMAIN f : \A k \in 1..Len(f[i]) : ~IsPartial(f[i][k]) => k \in 1..Len(g[i]) /\ g[i][k] = f[i][k],
         \A n \in 1..Len(old) : n \in 1..Len(new) /\ new[n] = old[n]
  PROVE  RowsOk(index, g, new)
<1> SUFFICES ASSUME NEW row \in index
             PROVE  /\ row.sequence \in 1..Len(new) /\ new[row.sequence] = row.event
                    /\ row.segment \in DOMAIN g /\ row.offset \in Nat
                    /\ row.offset + 1 \in 1..Len(g[row.segment])
                    /\ ~IsPartial(g[row.segment][row.offset + 1])
                    /\ g[row.segment][row.offset + 1].event = row.event
  BY DEF RowsOk
<1>1. /\ row.sequence \in 1..Len(old) /\ old[row.sequence] = row.event
      /\ row.segment \in DOMAIN f /\ row.offset \in Nat
      /\ row.offset + 1 \in 1..Len(f[row.segment])
      /\ ~IsPartial(f[row.segment][row.offset + 1])
      /\ f[row.segment][row.offset + 1].event = row.event
  BY DEF RowsOk
<1>2. PICK i : i = row.segment
  OBVIOUS
<1>3. PICK k : k = row.offset + 1
  OBVIOUS
<1>4. k \in 1..Len(g[i]) /\ g[i][k] = f[i][k]
  BY <1>1, <1>2, <1>3
<1> QED
  BY <1>1, <1>2, <1>3, <1>4

\* The snapshots are of prefixes of a longer log too.
LEMMA SnapsKeep ==
  ASSUME NEW states, NEW events, IsSeq(events), SnapsOk(states, events), NEW e
  PROVE  SnapsOk(states, Append(events, e))
<1>1. PICK n \in Nat : n = Len(events)
  BY SeqBasics
<1>2. PICK longer : longer = Append(events, e)
  OBVIOUS
<1>3. IsSeq(longer) /\ Len(longer) = n + 1 /\ \A k \in 1..n : longer[k] = events[k]
  BY <1>1, <1>2, AppendOk
<1>4. ASSUME NEW k \in 0..n PROVE SubSeq(longer, 1, k) = SubSeq(events, 1, k)
  <2>1. k \in 0..Len(events) /\ k \in 0..Len(longer) /\ k \in Nat
    BY <1>1, <1>3
  <2>2. PICK p : p = SubSeq(events, 1, k)
    OBVIOUS
  <2>3. PICK q : q = SubSeq(longer, 1, k)
    OBVIOUS
  <2>4. IsSeq(p) /\ Len(p) = k /\ \A l \in 1..k : p[l] = events[l]
    BY <2>1, <2>2, PrefixOk
  <2>5. IsSeq(q) /\ Len(q) = k /\ \A l \in 1..k : q[l] = longer[l]
    BY <1>3, <2>1, <2>3, PrefixOk
  <2>6. \A l \in 1..k : longer[l] = events[l]
    BY <1>3, <2>1
  <2>7. q = p
    BY <2>4, <2>5, <2>6, SeqSame
  <2> QED
    BY <2>2, <2>3, <2>7
<1>5. DOMAIN states \subseteq 0..n
  BY <1>1 DEF SnapsOk
<1>6. DOMAIN states \subseteq 0..Len(longer)
  BY <1>3, <1>5
<1> QED
  BY <1>2, <1>4, <1>5, <1>6 DEF SnapsOk

\* A process that opens an unbroken trail knows its end.
LEMMA OpenedKnows ==
  ASSUME NEW files, NEW events, IsSeq(events), Concat(files) = Entries(events), NEW m
  PROVE  KnowsEnd(Opened(files, m), files, events)
<1>1. PICK n \in Nat : n = Len(events)
  BY SeqBasics
<1>2. PICK all : all = Entries(events)
  OBVIOUS
<1>3. /\ DOMAIN all = 1..n /\ all = [k \in DOMAIN all |-> all[k]]
      /\ \A k \in 1..n : all[k] = Frame(events[k], SubSeq(events, 1, k), k)
  BY <1>1, <1>2 DEF Entries
<1>4. IsSeq(all) /\ Len(all) = n
  BY <1>3, FunctionIsSeq
<1>5. PICK head : head = (IF all = <<>> THEN Genesis ELSE Last(all).hash)
  OBVIOUS
<1>6. head = events
  <2>1. CASE n = 0
    <3>1. all = <<>> /\ events = <<>>
      BY <1>1, <1>4, <2>1, SeqBasics
    <3> QED
      BY <1>5, <3>1 DEF Genesis
  <2>2. CASE n # 0
    <3>1. all # <<>> /\ n \in 1..n
      BY <1>4, <2>2, SeqBasics
    <3>2. Last(all) = all[n]
      BY <1>4 DEF Last
    <3>3. SubSeq(events, 1, n) = events
      BY <1>1, PrefixWhole
    <3>4. all[n].hash = events
      <4>1. all[n] = Frame(events[n], events, n)
        BY <1>3, <3>1, <3>3
      <4> QED
        BY <4>1 DEF Frame
    <3> QED
      BY <1>5, <3>1, <3>2, <3>4
  <2> QED
    BY <2>1, <2>2
<1>7. PICK mem : mem = Opened(files, m)
  OBVIOUS
<1>8. mem.active = m /\ mem.size = Len(files[m]) /\ mem.seq = Len(all) /\ mem.head = head
  BY <1>2, <1>5, <1>7 DEF Opened
<1> QED
  BY <1>1, <1>4, <1>6, <1>7, <1>8 DEF KnowsEnd

\* The steps of the trail keep an unbroken all-hot trail.
LEMMA WholeTrail ==
  ASSUME FilesOk, HotOk, NoTierLosesEntries, ~muddled, ~muddled', TrailNext, WholeOk
  PROVE  WholeOk'
<1>1. /\ Files(segs) /\ (proc.up => IsTop(segs, proc.active)) /\ proc.up \in BOOLEAN /\ Down.up = FALSE
      /\ IsSeq(log) /\ (proc.up => DOMAIN proc = {"up", "active", "size", "seq", "head", "fouled"})
  BY DEF FilesOk, Down
<1>2. /\ Concat(segs) = Entries(log) /\ KnowsEnd(proc, segs, log)
      /\ RowsOk(rows, segs, log) /\ SnapsOk(snaps, log)
  BY DEF WholeOk
<1>3. ASSUME Concat(segs') = Entries(log'), KnowsEnd(proc', segs', log'),
             RowsOk(rows', segs', log'), SnapsOk(snaps', log')
      PROVE  WholeOk'
  BY <1>3 DEF WholeOk
<1>4. \A files, events : KnowsEnd(Down, files, events)
  BY <1>1 DEF KnowsEnd
<1>5. ASSUME segs' = segs, log' = log, rows' = rows, proc.up, proc' = proc \/ proc' = Down,
             \/ snaps' = snaps
             \/ snaps' = Put(snaps, proc.seq, Replay(log))
             \/ snaps' = Put(snaps, proc.seq, Torn)
      PROVE  WholeOk'
  <2>1. KnowsEnd(proc', segs', log')
    BY <1>2, <1>4, <1>5
  <2>2. proc.seq = Len(log)
    BY <1>2, <1>5 DEF KnowsEnd
  <2>3. SubSeq(log, 1, Len(log)) = log /\ Len(log) \in 0..Len(log)
    BY <1>1, PrefixWhole, SeqBasics
  <2>4. ASSUME NEW v, v = Torn \/ v = Replay(log), snaps' = Put(snaps, proc.seq, v)
        PROVE  SnapsOk(snaps', log)
    <3>1. PICK n : n = Len(log)
      OBVIOUS
    <3>2. PICK new : new = Put(snaps, n, v)
      OBVIOUS
    <3>3. DOMAIN new = {n} \cup DOMAIN snaps /\ new[n] = v /\ \A k \in DOMAIN snaps : k # n => new[k] = snaps[k]
      BY <3>2 DEF Put, Over
    <3>4. snaps' = new
      BY <2>2, <2>4, <3>1, <3>2
    <3>5. DOMAIN snaps \subseteq 0..n
      BY <1>2, <3>1 DEF SnapsOk
    <3>6. \A k \in DOMAIN new : new[k] = Torn \/ new[k] = Replay(SubSeq(log, 1, k))
      <4> SUFFICES ASSUME NEW k \in DOMAIN new PROVE new[k] = Torn \/ new[k] = Replay(SubSeq(log, 1, k))
        OBVIOUS
      <4>1. CASE k = n
        BY <2>3, <2>4, <3>1, <3>3, <4>1
      <4>2. CASE k # n
        BY <1>2, <3>3, <4>2 DEF SnapsOk
      <4> QED
        BY <4>1, <4>2
    <3>7. DOMAIN new \subseteq 0..n
      BY <2>3, <3>1, <3>3, <3>5
    <3> QED
      BY <3>1, <3>4, <3>6, <3>7 DEF SnapsOk
  <2>5. SnapsOk(snaps', log')
    BY <1>2, <1>5, <2>4
  <2> QED
    BY <1>2, <1>3, <1>5, <2>1, <2>5
<1>6. ASSUME NEW b, Appends(Partial(b)), log' = log, rows' = rows, snaps' = snaps,
             proc' = [proc EXCEPT !.fouled = TRUE] \/ proc' = Down
      PROVE  WholeOk'
  <2>1. proc.up /\ ~proc.fouled /\ segs' = Grown(segs, proc.active, Partial(b))
    BY <1>6 DEF Appends
  <2>2. proc.active \in DOMAIN segs /\ proc.active \in Nat
    BY <1>1, <2>1 DEF IsTop, Files
  <2>3. PICK a \in Nat : a = proc.active
    BY <2>2
  <2>4. PICK x : x = Partial(b)
    OBVIOUS
  <2>5. IsPartial(x) /\ x = Partial(x.partial)
    BY <2>4 DEF Partial, IsPartial
  <2>6. PICK g : g = Grown(segs, a, x)
    OBVIOUS
  <2>7. segs' = g /\ IsTop(segs, a) /\ a \in DOMAIN segs
    BY <1>1, <2>1, <2>2, <2>3, <2>4, <2>6
  <2>8. HotFiles(segs, FALSE)
    BY <2>1, HotWeaker DEF HotOk
  <2>9. Concat(g) = Concat(segs)
    BY <1>1, <2>5, <2>6, <2>7, <2>8, ConcatGrown
  <2>10. /\ DOMAIN g = DOMAIN segs /\ g[a] = Append(segs[a], x)
         /\ \A i \in DOMAIN segs : i # a => g[i] = segs[i]
    BY <1>1, <2>6, <2>7, AppendShape
  <2>11. \A i \in DOMAIN segs : \A k \in 1..Len(segs[i]) : k \in 1..Len(g[i]) /\ g[i][k] = segs[i][k]
    <3> SUFFICES ASSUME NEW i \in DOMAIN segs, NEW k \in 1..Len(segs[i])
                 PROVE  k \in 1..Len(g[i]) /\ g[i][k] = segs[i][k]
      OBVIOUS
    <3>1. CASE i = a
      <4>1. PICK s : s = segs[a]
        OBVIOUS
      <4>2. IsSeq(s)
        BY <1>1, <2>7, <4>1 DEF Files
      <4>3. Len(s) \in Nat
        BY <4>2, SeqBasics
      <4>4. PICK t : t = Append(s, x)
        OBVIOUS
      <4>5. Len(t) = Len(s) + 1 /\ \A l \in 1..Len(s) : t[l] = s[l]
        BY <4>2, <4>4, AppendOk
      <4>6. k \in 1..Len(t) /\ t[k] = s[k]
        BY <3>1, <4>1, <4>3, <4>5
      <4> QED
        BY <2>10, <3>1, <4>1, <4>4, <4>6
    <3> QED
      BY <2>10, <3>1
  <2>12. \A i \in DOMAIN segs : i \in DOMAIN g
    BY <2>10
  <2>13. RowsOk(rows, g, log)
    BY <1>2, <2>11, <2>12, RowsKeep
  <2>14. KnowsEnd(proc', g, log)
    <3>1. CASE proc' = Down
      BY <3>1, <1>4
    <3>2. CASE proc' = [proc EXCEPT !.fouled = TRUE]
      <4>1. proc'.fouled = TRUE /\ proc'.seq = proc.seq /\ proc'.head = proc.head
        BY <1>1, <2>1, <3>2
      <4> QED
        BY <1>2, <2>1, <4>1 DEF KnowsEnd
    <3> QED
      BY <1>6, <3>1, <3>2
  <2> QED
    BY <1>2, <1>3, <1>6, <2>7, <2>9, <2>13, <2>14
<1>7. ASSUME NEW e, NEW g, g = Grown(segs, proc.active, NewFrame(e)), proc.up, ~proc.fouled
      PROVE  /\ Files(g) /\ DOMAIN g = DOMAIN segs /\ IsTop(g, proc.active)
             /\ Concat(g) = Entries(Append(log, e)) /\ SnapsOk(snaps, Append(log, e))
             /\ RowsOk(rows, g, Append(log, e))
             /\ g[proc.active] = Append(segs[proc.active], NewFrame(e))
  <2>2. proc.active \in DOMAIN segs /\ proc.active \in Nat
    BY <1>1, <1>7 DEF IsTop, Files
  <2>3. PICK a \in Nat : a = proc.active
    BY <2>2
  <2>4. PICK x : x = NewFrame(e)
    OBVIOUS
  <2>5. ~IsPartial(x)
    BY <2>4, PartialOrFrame DEF NewFrame
  <2>6. g = Grown(segs, a, x) /\ IsTop(segs, a) /\ a \in DOMAIN segs
    BY <1>1, <1>7, <2>2, <2>3, <2>4
  <2>8. HotFiles(segs, FALSE)
    BY <1>7, HotWeaker DEF HotOk
  <2>9. Concat(g) = Append(Concat(segs), x)
    BY <1>1, <2>5, <2>6, <2>8, ConcatGrown
  <2>10. x = Frame(e, Append(log, e), Len(log) + 1)
    BY <1>2, <1>7, <2>4 DEF NewFrame, ChainHash, KnowsEnd
  <2>11. Concat(g) = Entries(Append(log, e))
    BY <1>1, <1>2, <2>9, <2>10, EntriesAppend
  <2>12. SnapsOk(snaps, Append(log, e))
    BY <1>1, <1>2, SnapsKeep
  <2>13. /\ Files(g) /\ DOMAIN g = DOMAIN segs /\ g[a] = Append(segs[a], x)
         /\ (\A i \in DOMAIN segs : i # a => g[i] = segs[i])
         /\ \A m : IsTop(g, m) <=> IsTop(segs, m)
    BY <1>1, <2>6, AppendShape
  <2>14. \A i \in DOMAIN segs : \A k \in 1..Len(segs[i]) : k \in 1..Len(g[i]) /\ g[i][k] = segs[i][k]
    <3> SUFFICES ASSUME NEW i \in DOMAIN segs, NEW k \in 1..Len(segs[i])
                 PROVE  k \in 1..Len(g[i]) /\ g[i][k] = segs[i][k]
      OBVIOUS
    <3>1. CASE i = a
      <4>1. PICK s : s = segs[a]
        OBVIOUS
      <4>2. IsSeq(s)
        BY <1>1, <2>6, <4>1 DEF Files
      <4>3. Len(s) \in Nat
        BY <4>2, SeqBasics
      <4>4. PICK t : t = Append(s, x)
        OBVIOUS
      <4>5. Len(t) = Len(s) + 1 /\ \A l \in 1..Len(s) : t[l] = s[l]
        BY <4>2, <4>4, AppendOk
      <4>6. k \in 1..Len(t) /\ t[k] = s[k]
        BY <3>1, <4>1, <4>3, <4>5
      <4> QED
        BY <2>13, <3>1, <4>1, <4>4, <4>6
    <3> QED
      BY <2>13, <3>1
  <2>15. PICK longer : longer = Append(log, e)
    OBVIOUS
  <2>16. Len(log) \in Nat /\ Len(longer) = Len(log) + 1 /\ \A n \in 1..Len(log) : longer[n] = log[n]
    BY <1>1, <2>15, AppendOk, SeqBasics
  <2>17. \A n \in 1..Len(log) : n \in 1..Len(longer) /\ longer[n] = log[n]
    BY <2>16
  <2>18. \A i \in DOMAIN segs : i \in DOMAIN g
    BY <2>13
  <2>19. RowsOk(rows, g, longer)
    BY <1>2, <2>14, <2>17, <2>18, RowsKeep
  <2> QED
    BY <2>3, <2>4, <2>6, <2>11, <2>12, <2>13, <2>15, <2>19
<1>8. ASSUME NEW e, Appends(NewFrame(e)), log' = Append(log, e), proc' = Down, rows' = rows, snaps' = snaps
      PROVE  WholeOk'
  <2>1. proc.up /\ ~proc.fouled /\ segs' = Grown(segs, proc.active, NewFrame(e))
    BY <1>8 DEF Appends
  <2>2. Concat(segs') = Entries(log') /\ SnapsOk(snaps', log') /\ RowsOk(rows', segs', log')
    BY <1>7, <1>8, <2>1
  <2> QED
    BY <1>3, <1>4, <1>8, <2>2
<1>9. ASSUME NEW e, DoAppend(e)
      PROVE  WholeOk'
  <2>1. PICK g :
           /\ g = Grown(segs, proc.active, NewFrame(e))
           /\ \/ segs' = g /\ proc'.active = proc.active /\ proc'.size = proc.size + 1
              \/ /\ segs' = Put(g, proc.active + 1, <<>>)
                 /\ proc'.active = proc.active + 1 /\ proc'.size = 0
           /\ proc'.up = proc.up /\ proc'.fouled = proc.fouled
           /\ proc'.seq = proc.seq + 1 /\ proc'.head = Append(proc.head, e)
           /\ log' = Append(log, e) /\ muddled' = (muddled \/ proc.fouled) /\ proc.up /\ snaps' = snaps
           /\ \/ rows' = rows
              \/ rows' = rows \cup {[sequence |-> proc.seq + 1, segment |-> proc.active,
                                    offset |-> proc.size, event |-> e]}
    BY <1>9, DoAppendShape
  <2>2. ~proc.fouled
    BY <2>1
  <2>3. /\ Files(g) /\ DOMAIN g = DOMAIN segs /\ IsTop(g, proc.active)
        /\ Concat(g) = Entries(log') /\ SnapsOk(snaps, log') /\ RowsOk(rows, g, log')
        /\ g[proc.active] = Append(segs[proc.active], NewFrame(e))
    BY <1>7, <2>1, <2>2
  <2>4. proc.active \in DOMAIN segs /\ proc.active \in Nat
    BY <1>1, <2>1 DEF IsTop, Files
  <2>5. PICK a \in Nat : a = proc.active
    BY <2>4
  <2>6. PICK s : s = segs[a]
    OBVIOUS
  <2>7. IsSeq(s)
    BY <1>1, <2>4, <2>5, <2>6 DEF Files
  <2>8. PICK n \in Nat : n = Len(log)
    BY <1>1, SeqBasics
  <2>9. PICK l \in Nat : l = Len(s)
    BY <2>7, SeqBasics
  <2>10. PICK x : x = NewFrame(e)
    OBVIOUS
  <2>11. ~IsPartial(x) /\ x.event = e
    BY <2>10, PartialOrFrame DEF NewFrame
  <2>12. Len(g[a]) = l + 1 /\ g[a][l + 1] = x
    BY <2>3, <2>5, <2>6, <2>7, <2>9, <2>10, AppendOk
  <2>13. Len(log') = n + 1 /\ log'[n + 1] = e
    BY <1>1, <2>1, <2>8, AppendOk
  <2>14. proc.seq = n /\ proc.head = log /\ proc.size = l
    BY <1>2, <2>1, <2>2, <2>5, <2>6, <2>8, <2>9 DEF KnowsEnd
  <2>15. RowsOk(rows', g, log')
    <3>1. CASE rows' = rows
      BY <2>3, <3>1
    <3>2. CASE rows' # rows
      <4>1. PICK new : new = [sequence |-> n + 1, segment |-> a, offset |-> l, event |-> e]
        OBVIOUS
      <4>2. new.sequence = n + 1 /\ new.segment = a /\ new.offset = l /\ new.event = e
        BY <4>1
      <4>3. /\ new.sequence \in 1..Len(log') /\ log'[new.sequence] = new.event
            /\ new.segment \in DOMAIN g /\ new.offset \in Nat
            /\ new.offset + 1 \in 1..Len(g[new.segment])
            /\ ~IsPartial(g[new.segment][new.offset + 1])
            /\ g[new.segment][new.offset + 1].event = new.event
        <5>1. n + 1 \in 1..(n + 1) /\ l + 1 \in 1..(l + 1)
          OBVIOUS
        <5> QED
          BY <2>3, <2>4, <2>5, <2>11, <2>12, <2>13, <4>2, <5>1
      <4>4. rows' = rows \cup {new}
        BY <2>1, <2>5, <2>14, <3>2, <4>1
      <4> QED
        BY <2>3, <4>3, <4>4 DEF RowsOk
    <3> QED
      BY <3>1, <3>2
  <2>16. proc'.seq = Len(log') /\ proc'.head = log'
    BY <2>1, <2>13, <2>14
  <2>17. CASE segs' = g /\ proc'.active = proc.active /\ proc'.size = proc.size + 1
    <3>1. KnowsEnd(proc', segs', log')
      BY <2>5, <2>12, <2>14, <2>16, <2>17 DEF KnowsEnd
    <3> QED
      BY <1>3, <2>1, <2>3, <2>15, <2>17, <3>1
  <2>18. CASE segs' = Put(g, a + 1, <<>>) /\ proc'.active = a + 1 /\ proc'.size = 0
    <3>1. PICK b \in Nat : b = a + 1
      OBVIOUS
    <3>2. PICK h : h = Put(g, b, <<>>)
      OBVIOUS
    <3>3. Files(g) /\ IsTop(g, a)
      BY <2>3, <2>5
    <3>4. IsRotated(h, g, b)
      BY <3>1, <3>2, <3>3, RotateShape
    <3>5. Concat(h) = Concat(g)
      BY <3>1, <3>2, <3>3, ConcatRotated
    <3>6. h[b] = <<>> /\ (\A i \in DOMAIN g : i \in DOMAIN h /\ h[i] = g[i])
      BY <3>4 DEF IsRotated
    <3>7. RowsOk(rows', h, log')
      <4>1. PICK index : index = rows'
        OBVIOUS
      <4>2. PICK events : events = log'
        OBVIOUS
      <4>3. RowsOk(index, g, events)
        BY <2>15, <4>1, <4>2
      <4>4. RowsOk(index, h, events)
        BY <3>6, <4>3 DEF RowsOk
      <4> QED
        BY <4>1, <4>2, <4>4
    <3>8. segs' = h /\ proc'.active = b
      BY <2>18, <3>1, <3>2
    <3>9. KnowsEnd(proc', segs', log')
      BY <2>16, <2>18, <3>6, <3>8, EmptyIsSeq DEF KnowsEnd
    <3> QED
      BY <1>3, <2>1, <2>3, <3>5, <3>7, <3>8, <3>9
  <2> QED
    BY <2>1, <2>5, <2>17, <2>18
<1>10. ASSUME NEW b, Restart(b)
       PROVE  WholeOk'
  <2>1. PICK m \in Nat : IsTop(segs, m)
    BY DEF FilesOk
  <2>2. /\ Files(segs)' /\ DOMAIN segs' = DOMAIN segs /\ segs'[m] = ScanSegment(segs[m])
        /\ \A i \in DOMAIN segs : i # m => segs'[i] = segs[i]
        /\ proc' = Opened(segs', m) \/ proc' = Down
        /\ log' = log /\ muddled' = muddled /\ snaps' = snaps /\ rows' = rows
    BY <1>10, <2>1, RestartShape
  <2>3. PICK s : s = segs[m]
    OBVIOUS
  <2>4. m \in DOMAIN segs /\ IsSeq(s) /\ TailOnly(s)
    BY <1>1, <2>1, <2>3 DEF Files, IsTop, HotOk, HotFiles, TailOnly
  <2>5. PICK t : t = ScanSegment(s)
    OBVIOUS
  <2>6. /\ Len(t) \in Nat
        /\ \A k \in 1..Len(t) : t[k] = s[k] /\ ~IsPartial(s[k])
        /\ \A k \in 1..Len(s) : ~IsPartial(s[k]) => k \in 1..Len(t)
    BY <2>4, <2>5, ScanTail
  <2>7. IsSeq(t)
    BY <2>4, <2>5, ScanIsSeq
  <2>8. ScanSegment(t) = t
    BY <2>6, <2>7, ScanWhole
  <2>9. PICK g : g = segs'
    OBVIOUS
  <2>10. /\ Files(g) /\ DOMAIN g = DOMAIN segs /\ g[m] = t
         /\ \A i \in DOMAIN segs : i # m => g[i] = segs[i]
    BY <2>2, <2>3, <2>5, <2>9
  <2>11. \A i \in DOMAIN segs : ScanSegment(g[i]) = ScanSegment(segs[i])
    BY <2>3, <2>5, <2>8, <2>10
  <2>12. Concat(g) = Concat(segs)
    BY <1>1, <2>1, <2>10, <2>11, ConcatSame
  <2>13. \A i \in DOMAIN segs : \A k \in 1..Len(segs[i]) :
           ~IsPartial(segs[i][k]) => k \in 1..Len(g[i]) /\ g[i][k] = segs[i][k]
    <3> SUFFICES ASSUME NEW i \in DOMAIN segs, NEW k \in 1..Len(segs[i]), ~IsPartial(segs[i][k])
                 PROVE  k \in 1..Len(g[i]) /\ g[i][k] = segs[i][k]
      OBVIOUS
    <3>1. CASE i = m
      BY <2>3, <2>6, <2>10, <3>1
    <3> QED
      BY <2>10, <3>1
  <2>14. \A i \in DOMAIN segs : i \in DOMAIN g
    BY <2>10
  <2>15. RowsOk(rows, g, log)
    BY <1>2, <2>13, <2>14, RowsKeep
  <2>16. KnowsEnd(Opened(g, m), g, log)
    BY <1>1, <1>2, <2>12, OpenedKnows
  <2>17. KnowsEnd(proc', g, log)
    BY <1>4, <2>2, <2>9, <2>16
  <2> QED
    BY <1>2, <1>3, <2>2, <2>9, <2>12, <2>15, <2>17
<1> QED
  BY <1>5, <1>6, <1>8, <1>9, <1>10, TrailSteps

\* Every step that leaves the trail all hot keeps it unbroken.
LEMMA WholeNext ==
  ASSUME FilesOk, HotOk, NoTierLosesEntries, ~muddled, ~muddled', AllHot => WholeOk,
         TiersNext, FilesOk', AllHot'
  PROVE  WholeOk'
<1>1. ASSUME segs' = segs, log' = log, rows' = rows, snaps' = snaps, proc' = proc \/ proc' = Down
      PROVE  WholeOk'
  <2>1. AllHot
    BY <1>1 DEF AllHot
  <2>2. Down.up = FALSE
    BY DEF Down
  <2>3. KnowsEnd(proc', segs', log')
    BY <1>1, <2>1, <2>2 DEF WholeOk, KnowsEnd
  <2> QED
    BY <1>1, <2>1, <2>3 DEF WholeOk
<1>2. CASE (\E n \in 1..MaxLog : SetAnchor(n)) \/ \E i \in 0..MaxLog : Age(i)
  BY <1>1, <1>2 DEF SetAnchor, Age, trailVars
<1>3. CASE WarmToCold \/ CleanupCold \/ MergeWarm
  BY <1>1, <1>3 DEF WarmToCold, CleanupCold, MergeWarm, trailVars
<1>4. CASE HotToWarm \/ \E i : CrashInHotToWarm(i)
  <2>1. PICK S, D : MoveStep(S, D)
    BY <1>4, MoveSteps
  <2>2. segs' = segs
    BY <2>1, MoveStaysHot
  <2>3. log' = log /\ rows' = rows /\ snaps' = snaps /\ (proc' = proc \/ proc' = Down)
    BY <2>1 DEF MoveStep
  <2> QED
    BY <1>1, <2>2, <2>3
<1>5. CASE TrailNext
  <2>1. AllHot
    <3>1. CASE DOMAIN segs' = DOMAIN segs
      BY <3>1 DEF AllHot
    <3>2. CASE DOMAIN segs' # DOMAIN segs
      <4>1. PICK e : DoAppend(e)
        <5>1. ASSUME NEW x, Appends(x) PROVE DOMAIN segs' = DOMAIN segs
          <6>1. proc.active \in DOMAIN segs /\ Files(segs) /\ segs' = Grown(segs, proc.active, x)
            BY <5>1 DEF Appends, FilesOk, IsTop
          <6> QED
            BY <6>1 DEF Grown
        <5>2. ASSUME NEW b, Restart(b) PROVE DOMAIN segs' = DOMAIN segs
          BY <5>2, RestartShape DEF FilesOk
        <5> QED
          BY <1>5, <3>2, <5>1, <5>2, TrailSteps
      <4>2. PICK g :
               /\ g = Grown(segs, proc.active, NewFrame(e))
               /\ \/ segs' = g
                  \/ segs' = Put(g, proc.active + 1, <<>>)
               /\ proc.up
        BY <4>1, DoAppendShape
      <4>3. IsTop(segs, proc.active) /\ Files(segs)
        BY <4>2 DEF FilesOk
      <4>4. proc.active \in DOMAIN segs /\ proc.active \in Nat
        BY <4>3 DEF IsTop, Files
      <4>5. PICK a \in Nat : a = proc.active
        BY <4>4
      <4>6. DOMAIN g = DOMAIN segs
        BY <4>2 DEF Grown
      <4>7. DOMAIN segs' = DOMAIN segs \cup {a + 1}
        BY <3>2, <4>2, <4>5, <4>6 DEF Put, Over
      <4>8. IsFiniteSet(DOMAIN segs) /\ DOMAIN segs \subseteq Nat /\ \A i \in DOMAIN segs : i <= a
        BY <4>3, <4>5 DEF Files, IsTop
      <4>9. a + 1 \notin DOMAIN segs
        BY <4>8
      <4>10. PICK c \in Nat : c = Cardinality(DOMAIN segs)
        BY <4>8, FS_CardinalityType
      <4>11. Cardinality(DOMAIN segs') = c + 1
        BY <4>7, <4>8, <4>9, <4>10, FS_AddElement
      <4>12. DOMAIN segs' = 0..c
        BY <4>11 DEF AllHot
      <4>13. a + 1 \in 0..c /\ c \in DOMAIN segs'
        <5>1. a + 1 \in DOMAIN segs'
          BY <4>7
        <5>2. a + 1 \in 0..c
          BY <4>12, <5>1
        <5>3. c \in 0..c
          BY <4>10
        <5>4. c \in DOMAIN segs'
          BY <4>12, <5>3
        <5> QED
          BY <5>2, <5>4
      <4>14. c = a + 1
        BY <4>7, <4>8, <4>13
      <4>15. \A i : i \in DOMAIN segs <=> i \in 0..c /\ i # a + 1
        BY <4>7, <4>9, <4>12
      <4>16. DOMAIN segs = 0..(c - 1)
        <5>1. \A i : i \in 0..(c - 1) <=> i \in 0..c /\ i # c
          BY <4>10
        <5>2. \A i : i \in DOMAIN segs <=> i \in 0..(c - 1)
          BY <4>14, <4>15, <5>1
        <5> QED
          BY <5>2
      <4> QED
        BY <4>10, <4>16 DEF AllHot
    <3> QED
      BY <3>1, <3>2
  <2> QED
    BY <1>5, <2>1, WholeTrail
<1> QED
  BY <1>2, <1>3, <1>4, <1>5 DEF TiersNext
-----------------------------------------------------------------------------
(* The theorems                                                            *)

\* The empty trail of a new process.
LEMMA StorageInit ==
  ASSUME TrailInit, TiersInit
  PROVE  StorageInv
<1>1. PICK files : files = segs
  OBVIOUS
<1>2. segs = Put(<<>>, 0, <<>>)
  BY DEF TrailInit
<1>3. DOMAIN segs = {0} /\ segs[0] = <<>> /\ segs = [i \in DOMAIN segs |-> segs[i]]
  BY <1>2 DEF Put, Over
<1>4. /\ proc = [up |-> TRUE, active |-> 0, size |-> 0, seq |-> 0, head |-> Genesis, fouled |-> FALSE]
      /\ log = <<>> /\ muddled = FALSE /\ snaps = <<>> /\ rows = {}
  BY DEF TrailInit, Open
<1>5. warm = <<>> /\ cold = <<>> /\ anchor = {} /\ deleted = {}
  BY DEF TiersInit
<1>6. /\ proc.up = TRUE /\ proc.active = 0 /\ proc.size = 0 /\ proc.seq = 0 /\ proc.head = Genesis
      /\ proc.fouled = FALSE /\ DOMAIN proc = {"up", "active", "size", "seq", "head", "fouled"}
  BY <1>4
<1>7. IsSeq(<<>>) /\ Len(<<>>) = 0 /\ DOMAIN <<>> = {}
  BY EmptyIsSeq
<1>8. Files(segs)
  <2>1. IsFiniteSet(DOMAIN segs)
    BY <1>3, FS_Singleton
  <2> QED
    BY <1>3, <1>7, <2>1 DEF Files
<1>9. IsTop(segs, 0)
  BY <1>3 DEF IsTop
<1>10. Files(<<>>)
  <2>1. <<>> = [i \in {} |-> 0]
    OBVIOUS
  <2>2. <<>> = [i \in DOMAIN <<>> |-> <<>>[i]]
    BY <1>7, <2>1
  <2>3. IsFiniteSet({})
    BY FS_EmptySet
  <2> QED
    BY <1>7, <2>2, <2>3 DEF Files
<1>11. FilesOk
  <2>1. \A j \in DOMAIN warm \cup DOMAIN cold : FALSE
    BY <1>5, <1>7
  <2>2. \E m \in Nat : IsTop(segs, m)
    BY <1>9
  <2> QED
    BY <1>4, <1>5, <1>6, <1>7, <1>8, <1>9, <1>10, <2>1, <2>2 DEF FilesOk
<1>12. \A k \in 1..Len(<<>>) : FALSE
  BY <1>7
<1>13. HotOk
  <2>1. Grows(<<>>)
    BY <1>12 DEF Grows
  <2>2. \A i \in DOMAIN segs : i = 0 /\ IsTop(segs, i) /\ segs[i] = <<>>
    BY <1>3, <1>9
  <2>3. \A i, j \in DOMAIN segs : ~ i < j
    BY <2>2
  <2> QED
    BY <1>12, <2>1, <2>2, <2>3 DEF HotOk, HotFiles
<1>14. MovedOk
  <2>1. DOMAIN warm = {} /\ DOMAIN cold = {}
    BY <1>5, <1>7
  <2> QED
    BY <2>1 DEF MovedOk, Whole, InOrder, Smalls, Copies, Apart
<1>15. NoTierLosesEntries
  <2>1. ToSet(<<>>) = {}
    BY <1>7 DEF ToSet
  <2>2. Frames(segs) = {}
    BY <1>3, <2>1 DEF Frames
  <2>3. Frames(warm) = {} /\ Frames(cold) = {}
    BY <1>5, <1>7 DEF Frames
  <2>4. Held = {}
    BY <1>5, <2>2, <2>3 DEF Held
  <2>5. Positions(Held) = {}
    BY <2>4 DEF Positions
  <2>6. 1..Len(log) = {}
    BY <1>4, <1>7
  <2> QED
    BY <2>5, <2>6, LosesByPositions
<1>16. WholeOk
  <2>1. Concat(segs) = <<>>
    <3>1. Concat(segs) = Below(segs)[0] \o ScanSegment(segs[0])
      BY <1>8, <1>9, ConcatTop
    <3>2. Below(segs)[0] = <<>>
      BY BelowUnfolds
    <3>3. ScanSegment(<<>>) = <<>>
      <4>1. PICK s : s = <<>>
        OBVIOUS
      <4>2. IsSeq(s) /\ \A k \in 1..Len(s) : ~IsPartial(s[k])
        BY <4>1, <1>7
      <4>3. ScanSegment(s) = s
        BY <4>2, ScanWhole
      <4> QED
        BY <4>1, <4>3
    <3>4. <<>> \o <<>> = <<>>
      OBVIOUS
    <3> QED
      BY <1>3, <3>1, <3>2, <3>3, <3>4
  <2>2. Entries(<<>>) = <<>>
    <3>1. 1..Len(<<>>) = {}
      BY <1>7
    <3>2. <<>> = [i \in {} |-> 0]
      OBVIOUS
    <3> QED
      BY <3>1, <3>2 DEF Entries
  <2>3. KnowsEnd(proc, segs, log)
    BY <1>3, <1>4, <1>6, <1>7 DEF KnowsEnd, Genesis
  <2>4. RowsOk(rows, segs, log) /\ SnapsOk(snaps, log)
    BY <1>4, <1>7 DEF RowsOk, SnapsOk
  <2> QED
    BY <1>4, <2>1, <2>2, <2>3, <2>4 DEF WholeOk
<1> QED
  BY <1>11, <1>13, <1>14, <1>15, <1>16 DEF StorageInv

\* One step of the storage keeps the invariant.
LEMMA StorageNext ==
  ASSUME StorageInv, [TiersNext]_<<trailVars, tierVars>>
  PROVE  StorageInv'
<1>1. CASE TiersNext
  <2>1. FilesOk'
    BY <1>1, FilesNext DEF StorageInv
  <2>2. muddled => muddled'
    <3>1. CASE TrailNext
      <4>1. \A e : DoAppend(e) => muddled' = (muddled \/ proc.fouled)
        BY DEF DoAppend
      <4>2. \A b : Restart(b) => muddled' = muddled
        BY DEF Restart
      <4> QED
        BY <3>1, <4>1, <4>2, TrailSteps DEF StorageInv, Appends
    <3>2. CASE ~TrailNext
      BY <1>1, <3>2 DEF TiersNext, SetAnchor, Age, HotToWarm, CrashInHotToWarm, WarmToCold, CleanupCold,
                        MergeWarm, trailVars
    <3> QED
      BY <3>1, <3>2
  <2>3. ASSUME ~muddled' PROVE HotOk' /\ MovedOk' /\ NoTierLosesEntries'
    <3>1. ~muddled /\ FilesOk /\ HotOk /\ MovedOk /\ NoTierLosesEntries
      BY <2>2, <2>3 DEF StorageInv
    <3> QED
      BY <1>1, <2>3, <3>1, HotNext, MovedNext, PositionsNext
  <2>4. ASSUME ~muddled', AllHot' PROVE WholeOk'
    <3>1. ~muddled /\ FilesOk /\ HotOk /\ NoTierLosesEntries /\ (AllHot => WholeOk)
      BY <2>2, <2>4 DEF StorageInv
    <3> QED
      BY <1>1, <2>1, <2>4, <3>1, WholeNext
  <2> QED
    BY <2>1, <2>3, <2>4 DEF StorageInv
<1>2. CASE UNCHANGED <<trailVars, tierVars>>
  <2>1. /\ segs' = segs /\ proc' = proc /\ log' = log /\ muddled' = muddled /\ snaps' = snaps /\ rows' = rows
        /\ warm' = warm /\ cold' = cold /\ aged' = aged /\ anchor' = anchor /\ deleted' = deleted
    BY <1>2 DEF trailVars, tierVars
  <2>2. FilesOk' /\ (HotOk' <=> HotOk) /\ (WholeOk' <=> WholeOk) /\ (AllHot' <=> AllHot)
    BY <2>1 DEF StorageInv, FilesOk, HotOk, WholeOk, AllHot
  <2>3. MovedOk' <=> MovedOk
    <3>1. Stuck' <=> Stuck
      BY <2>1 DEF Stuck
    <3> QED
      BY <2>1, <3>1 DEF MovedOk
  <2>4. NoTierLosesEntries' <=> NoTierLosesEntries
    BY <2>1 DEF NoTierLosesEntries
  <2> QED
    BY <2>1, <2>2, <2>3, <2>4 DEF StorageInv
<1> QED
  BY <1>1, <1>2

\* What the invariant says about the trail and the tiers.
LEMMA StorageInvImplies ==
  ASSUME StorageInv
  PROVE  NothingLost
<1>1. ActiveStaysHot
  BY DEF StorageInv, FilesOk, IsTop, ActiveStaysHot
<1>2. NoTierLosesEntries
  BY DEF StorageInv, NoTierLosesEntries
<1>3. WarmFilesAscend
  <2> SUFFICES ASSUME ~muddled, NEW i \in DOMAIN warm, NEW k \in 1..(Len(warm[i]) - 1)
               PROVE  warm[i][k].pos < warm[i][k + 1].pos
    BY DEF WarmFilesAscend
  <2>1. Grows(warm[i]) /\ \A l \in 1..Len(warm[i]) : ~IsPartial(warm[i][l])
    BY DEF StorageInv, MovedOk, Whole
  <2>2. Len(warm[i]) \in Nat
    BY SeqBasics DEF StorageInv, FilesOk, Files
  <2>3. k \in 1..Len(warm[i]) /\ k + 1 \in 1..Len(warm[i]) /\ k < k + 1
    BY <2>2
  <2> QED
    BY <2>1, <2>3 DEF Grows
<1>4. WrittenSurvives
  <2> SUFFICES ASSUME AllHot, ~muddled
               PROVE  [i \in 1..Len(Concat(segs)) |-> Concat(segs)[i].event] = log
    BY DEF WrittenSurvives
  <2>1. Concat(segs) = Entries(log) /\ IsSeq(log)
    BY DEF StorageInv, WholeOk, FilesOk
  <2>2. PICK n \in Nat : n = Len(log)
    BY <2>1, SeqBasics
  <2>3. PICK all : all = Entries(log)
    OBVIOUS
  <2>4. /\ DOMAIN all = 1..n /\ all = [k \in DOMAIN all |-> all[k]]
        /\ \A k \in 1..n : all[k] = Frame(log[k], SubSeq(log, 1, k), k)
    BY <2>2, <2>3 DEF Entries
  <2>5. Len(all) = n
    BY <2>4, FunctionIsSeq
  <2>6. \A k \in 1..n : all[k].event = log[k]
    BY <2>4 DEF Frame
  <2>7. log = [k \in 1..n |-> log[k]]
    BY <2>1, <2>2, SeqBasics
  <2>8. [i \in 1..n |-> all[i].event] = [k \in 1..n |-> log[k]]
    BY <2>6
  <2> QED
    BY <2>1, <2>3, <2>5, <2>7, <2>8
<1>5. IndexPointsAtEntry
  BY DEF IndexPointsAtEntry, StorageInv, WholeOk, RowsOk
<1> QED
  BY <1>1, <1>2, <1>3, <1>4, <1>5 DEF NothingLost

\* Whatever crashes, fails and moves, in any order: the hot trail reads as the
\* log, the index leads to its entries, and every entry ever written is in some
\* tier, in order, until retention deletes it.
THEOREM NothingIsLost == TiersSpec => []NothingLost
<1>1. TrailInit /\ TiersInit => StorageInv
  BY StorageInit
<1>2. StorageInv /\ [TiersNext]_<<trailVars, tierVars>> => StorageInv'
  BY StorageNext
<1>3. StorageInv => NothingLost
  BY StorageInvImplies
<1> QED
  BY <1>1, <1>2, <1>3, PTL DEF TiersSpec

-----------------------------------------------------------------------------
(* Recovery                                                                *)

\* A non-empty set of numbers up to n has its maximum in it.
LEMMA MaxInRange ==
  ASSUME NEW n \in Nat, NEW S \in SUBSET (0..n), S # {}
  PROVE  Max(S) \in S /\ \A k \in S : k <= Max(S)
<1>1. PICK T : T = {k \in 0..n : n - k \in S}
  OBVIOUS
<1>2. \A k \in S : k \in Nat /\ n - k \in T
  <2> SUFFICES ASSUME NEW k \in S PROVE k \in Nat /\ n - k \in T
    OBVIOUS
  <2>1. k \in Nat /\ n - k \in 0..n /\ n - (n - k) = k
    OBVIOUS
  <2> QED
    BY <1>1, <2>1
<1>3. T \in SUBSET Nat /\ T # {}
  <2>1. T \subseteq 0..n
    BY <1>1
  <2>2. T \subseteq Nat
    BY <2>1
  <2>3. T # {}
    BY <1>2
  <2> QED
    BY <2>2, <2>3
<1>4. PICK t \in T : \A u \in T : t <= u
  BY <1>3, LeastNumber
<1>5. PICK m \in S : m = n - t
  BY <1>1, <1>4
<1>6. \A k \in S : k <= m
  <2> SUFFICES ASSUME NEW k \in S PROVE k <= m
    OBVIOUS
  <2>1. k \in Nat /\ n - k \in T
    BY <1>2
  <2>2. t <= n - k
    BY <1>4, <2>1
  <2>3. t \in Nat
    BY <1>3
  <2> QED
    BY <1>5, <2>1, <2>2, <2>3
<1>7. S \in SUBSET Nat
  OBVIOUS
<1>8. Max(S) = m
  BY <1>6, <1>7, MaxOk
<1> QED
  BY <1>6, <1>8

\* The rest of a sequence after a prefix, element by element.
LEMMA SuffixOk ==
  ASSUME NEW s, IsSeq(s), NEW n \in 0..Len(s)
  PROVE  /\ IsSeq(SubSeq(s, n + 1, Len(s))) /\ Len(SubSeq(s, n + 1, Len(s))) = Len(s) - n
         /\ \A k \in 1..(Len(s) - n) : SubSeq(s, n + 1, Len(s))[k] = s[n + k]
<1>1. PICK S : s \in Seq(S)
  BY DEF IsSeq
<1>2. PICK l \in Nat : l = Len(s)
  BY SeqBasics
<1>3. n \in Nat /\ n <= l
  BY <1>2
<1>4. n + 1 \in Int /\ l \in Int /\ \A i \in (n + 1)..l : s[i] \in S
  BY <1>1, <1>2, <1>3
<1>5. PICK t : t = SubSeq(s, n + 1, l)
  OBVIOUS
<1>6. /\ t \in Seq(S) /\ Len(t) = (IF n + 1 <= l THEN l - (n + 1) + 1 ELSE 0)
      /\ \A i \in 1..(l - (n + 1) + 1) : t[i] = s[(n + 1) + i - 1]
  BY <1>4, <1>5, SubSeqProperties
<1>7. Len(t) = l - n
  BY <1>3, <1>6
<1>8. ASSUME NEW k \in 1..(l - n) PROVE t[k] = s[n + k]
  <2>1. k \in 1..(l - (n + 1) + 1) /\ (n + 1) + k - 1 = n + k
    BY <1>3
  <2> QED
    BY <1>6, <2>1
<1> QED
  BY <1>2, <1>5, <1>6, <1>7, <1>8 DEF IsSeq

\* The events that give x a known name.
Naming(events, type, x) ==
  {i \in 1..Len(events) : events[i].type = type /\ events[i].id = x /\ events[i].new \in KnownStates}

\* The last known name, by the events that give one.
LEMMA LastNewIs ==
  ASSUME NEW events, NEW type, NEW ids
  PROVE  LastNew(events, type, ids) =
           [x \in {y \in ids : Naming(events, type, y) # {}} |-> events[Max(Naming(events, type, x))].new]
  BY DEF LastNew, Naming

\* The last name after a prefix, or else the last one in the prefix.
LEMMA LastNewSplits ==
  ASSUME NEW events, IsSeq(events), NEW n \in 0..Len(events), NEW type, NEW ids
  PROVE  LastNew(events, type, ids) =
           Over(LastNew(SubSeq(events, n + 1, Len(events)), type, ids),
                LastNew(SubSeq(events, 1, n), type, ids))
<1>1. PICK l \in Nat : l = Len(events)
  BY SeqBasics
<1>2. n \in Nat /\ n <= l /\ l - n \in Nat
  BY <1>1
<1>3. PICK a : a = SubSeq(events, 1, n)
  OBVIOUS
<1>4. PICK b : b = SubSeq(events, n + 1, Len(events))
  OBVIOUS
<1>5. Len(a) = n /\ \A k \in 1..n : a[k] = events[k]
  BY <1>3, PrefixOk
<1>6. Len(b) = l - n /\ \A k \in 1..(l - n) : b[k] = events[n + k]
  BY <1>1, <1>4, SuffixOk
<1>7. ASSUME NEW x
      PROVE  /\ Naming(a, type, x) \subseteq 1..n /\ Naming(b, type, x) \subseteq 1..(l - n)
             /\ Naming(a, type, x) = {i \in Naming(events, type, x) : i <= n}
             /\ \A k \in 1..(l - n) : k \in Naming(b, type, x) <=> n + k \in Naming(events, type, x)
  <2>1. Naming(a, type, x) \subseteq 1..n /\ Naming(b, type, x) \subseteq 1..(l - n)
    BY <1>5, <1>6 DEF Naming
  <2>2. \A i : i \in Naming(a, type, x) <=> i \in Naming(events, type, x) /\ i <= n
    <3>1. \A i : i \in 1..n <=> i \in 1..l /\ i <= n
      BY <1>2
    <3> QED
      BY <1>1, <1>5, <3>1 DEF Naming
  <2>3. \A k \in 1..(l - n) : n + k \in 1..l
    BY <1>2
  <2>4. \A k \in 1..(l - n) : k \in Naming(b, type, x) <=> n + k \in Naming(events, type, x)
    BY <1>1, <1>6, <2>3 DEF Naming
  <2> QED
    BY <2>1, <2>2, <2>4
<1>8. ASSUME NEW x
      PROVE  /\ Naming(events, type, x) # {} <=> Naming(a, type, x) # {} \/ Naming(b, type, x) # {}
             /\ Naming(b, type, x) # {} =>
                  b[Max(Naming(b, type, x))] = events[Max(Naming(events, type, x))]
             /\ Naming(b, type, x) = {} /\ Naming(a, type, x) # {} =>
                  a[Max(Naming(a, type, x))] = events[Max(Naming(events, type, x))]
  <2>1. PICK A : A = Naming(a, type, x)
    OBVIOUS
  <2>2. PICK B : B = Naming(b, type, x)
    OBVIOUS
  <2>3. PICK E : E = Naming(events, type, x)
    OBVIOUS
  <2>4. /\ A \subseteq 1..n /\ B \subseteq 1..(l - n) /\ E \subseteq 1..l
        /\ A = {i \in E : i <= n} /\ \A k \in 1..(l - n) : k \in B <=> n + k \in E
    BY <1>1, <1>7, <2>1, <2>2, <2>3 DEF Naming
  <2>5. \A i \in E : i <= n \/ i - n \in B
    <3> SUFFICES ASSUME NEW i \in E, ~(i <= n) PROVE i - n \in B
      OBVIOUS
    <3>1. i \in 1..l /\ i - n \in 1..(l - n) /\ n + (i - n) = i
      BY <1>2, <2>4
    <3> QED
      BY <2>4, <3>1
  <2>6. E # {} <=> A # {} \/ B # {}
    BY <2>4, <2>5
  <2>7. ASSUME B # {} PROVE b[Max(B)] = events[Max(E)]
    <3>1. B \in SUBSET (0..(l - n)) /\ l - n \in Nat
      BY <1>2, <2>4
    <3>2. Max(B) \in B /\ \A k \in B : k <= Max(B)
      BY <2>7, <3>1, MaxInRange
    <3>3. PICK k \in 1..(l - n) : k = Max(B) /\ k \in B /\ \A j \in B : j <= k
      BY <2>4, <3>2
    <3>4. n + k \in E
      BY <2>4, <3>3
    <3>5. \A i \in E : i <= n + k
      <4> SUFFICES ASSUME NEW i \in E PROVE i <= n + k
        OBVIOUS
      <4>1. i \in Nat /\ k \in Nat
        BY <2>4, <3>3
      <4>2. CASE i <= n
        BY <1>2, <4>1, <4>2
      <4>3. CASE i - n \in B
        <5>1. i - n <= k
          BY <3>3, <4>3
        <5> QED
          BY <1>2, <4>1, <5>1
      <4> QED
        BY <2>5, <4>2, <4>3
    <3>6. E \in SUBSET Nat
      BY <2>4
    <3>7. Max(E) = n + k
      BY <3>4, <3>5, <3>6, MaxOk
    <3> QED
      BY <1>6, <3>3, <3>7
  <2>8. ASSUME B = {}, A # {} PROVE a[Max(A)] = events[Max(E)]
    <3>1. A = E
      BY <2>4, <2>5, <2>8
    <3>2. A \in SUBSET (0..n)
      BY <1>2, <2>4
    <3>3. Max(A) \in 1..n
      BY <1>2, <2>4, <2>8, <3>2, MaxInRange
    <3> QED
      BY <1>5, <3>1, <3>3
  <2> QED
    BY <2>1, <2>2, <2>3, <2>6, <2>7, <2>8
<1>9. PICK F : F = LastNew(events, type, ids)
  OBVIOUS
<1>10. PICK G : G = LastNew(a, type, ids)
  OBVIOUS
<1>11. PICK H : H = LastNew(b, type, ids)
  OBVIOUS
<1>12. /\ F = [x \in DOMAIN F |-> F[x]] /\ DOMAIN F = {y \in ids : Naming(events, type, y) # {}}
       /\ \A x \in DOMAIN F : F[x] = events[Max(Naming(events, type, x))].new
  BY <1>9, LastNewIs
<1>13. /\ DOMAIN G = {y \in ids : Naming(a, type, y) # {}}
       /\ \A x \in DOMAIN G : G[x] = a[Max(Naming(a, type, x))].new
  BY <1>10, LastNewIs
<1>14. /\ DOMAIN H = {y \in ids : Naming(b, type, y) # {}}
       /\ \A x \in DOMAIN H : H[x] = b[Max(Naming(b, type, x))].new
  BY <1>11, LastNewIs
<1>15. DOMAIN F = DOMAIN H \cup DOMAIN G
  <2>1. \A x : x \in DOMAIN F <=> x \in DOMAIN H \/ x \in DOMAIN G
    BY <1>8, <1>12, <1>13, <1>14
  <2> QED
    BY <2>1
<1>16. ASSUME NEW x \in DOMAIN F PROVE F[x] = (IF x \in DOMAIN H THEN H[x] ELSE G[x])
  <2>1. CASE x \in DOMAIN H
    BY <1>8, <1>12, <1>14, <2>1
  <2>2. CASE x \notin DOMAIN H
    <3>1. x \in DOMAIN G /\ Naming(b, type, x) = {} /\ Naming(a, type, x) # {}
      BY <1>12, <1>13, <1>14, <1>15, <2>2
    <3>2. a[Max(Naming(a, type, x))] = events[Max(Naming(events, type, x))]
      BY <1>8, <3>1
    <3> QED
      BY <1>12, <1>13, <2>2, <3>1, <3>2
  <2> QED
    BY <2>1, <2>2
<1>17. F = Over(H, G)
  BY <1>12, <1>15, <1>16 DEF Over
<1> QED
  BY <1>3, <1>4, <1>9, <1>10, <1>11, <1>17

\* Replaying the rest onto the state of a prefix gives the state of it all.
LEMMA ReplaySplits ==
  ASSUME NEW events, IsSeq(events), NEW n \in 0..Len(events)
  PROVE  Extend(Replay(SubSeq(events, 1, n)), Replay(SubSeq(events, n + 1, Len(events)))) = Replay(events)
<1>1. PICK a : a = SubSeq(events, 1, n)
  OBVIOUS
<1>2. PICK b : b = SubSeq(events, n + 1, Len(events))
  OBVIOUS
<1>3. /\ LastNew(events, "ws", Workspaces) = Over(LastNew(b, "ws", Workspaces), LastNew(a, "ws", Workspaces))
      /\ LastNew(events, "task", Tasks) = Over(LastNew(b, "task", Tasks), LastNew(a, "task", Tasks))
  BY <1>1, <1>2, LastNewSplits
<1>4. /\ Replay(a).ws = LastNew(a, "ws", Workspaces) /\ Replay(a).tasks = LastNew(a, "task", Tasks)
      /\ Replay(b).ws = LastNew(b, "ws", Workspaces) /\ Replay(b).tasks = LastNew(b, "task", Tasks)
  BY DEF Replay
<1>5. Extend(Replay(a), Replay(b)) = [ws |-> LastNew(events, "ws", Workspaces), tasks |-> LastNew(events, "task", Tasks)]
  BY <1>3, <1>4 DEF Extend
<1> QED
  BY <1>1, <1>2, <1>5 DEF Replay

\* The chain of an unbroken trail verifies.
LEMMA EntriesVerify ==
  ASSUME NEW events, IsSeq(events)
  PROVE  VerifyChain(Entries(events))
<1>1. PICK n \in Nat : n = Len(events)
  BY SeqBasics
<1>2. PICK all : all = Entries(events)
  OBVIOUS
<1>3. /\ DOMAIN all = 1..n /\ all = [k \in DOMAIN all |-> all[k]]
      /\ \A k \in 1..n : all[k] = Frame(events[k], SubSeq(events, 1, k), k)
  BY <1>1, <1>2 DEF Entries
<1>4. Len(all) = n
  BY <1>3, FunctionIsSeq
<1>5. \A k \in 1..n : all[k].hash = SubSeq(events, 1, k) /\ all[k].event = events[k]
  BY <1>3 DEF Frame
<1>6. ASSUME NEW k \in 1..n
      PROVE  SubSeq(events, 1, k) = Append(SubSeq(events, 1, k - 1), events[k])
  <2>1. k \in Nat /\ k \in 0..Len(events) /\ k - 1 \in 0..Len(events) /\ k - 1 \in Nat /\ (k - 1) + 1 = k
    BY <1>1
  <2>2. PICK p : p = SubSeq(events, 1, k)
    OBVIOUS
  <2>3. PICK q : q = SubSeq(events, 1, k - 1)
    OBVIOUS
  <2>4. PICK r : r = Append(q, events[k])
    OBVIOUS
  <2>5. IsSeq(p) /\ Len(p) = k /\ \A l \in 1..k : p[l] = events[l]
    BY <2>1, <2>2, PrefixOk
  <2>6. IsSeq(q) /\ Len(q) = k - 1 /\ \A l \in 1..(k - 1) : q[l] = events[l]
    BY <2>1, <2>3, PrefixOk
  <2>7. /\ IsSeq(r) /\ Len(r) = (k - 1) + 1 /\ (\A l \in 1..(k - 1) : r[l] = q[l])
        /\ r[(k - 1) + 1] = events[k]
    BY <2>4, <2>6, AppendOk
  <2>8. Len(r) = k /\ r[k] = events[k] /\ \A l \in 1..(k - 1) : r[l] = events[l]
    BY <2>1, <2>6, <2>7
  <2>9. ASSUME NEW l \in 1..k PROVE p[l] = r[l]
    <3>1. l = k \/ l \in 1..(k - 1)
      BY <2>1
    <3> QED
      BY <2>5, <2>8, <3>1
  <2>10. p = r
    BY <2>5, <2>7, <2>8, <2>9, SeqSame
  <2> QED
    BY <2>2, <2>3, <2>4, <2>10
<1>7. ASSUME NEW k \in 1..n
      PROVE  all[k].hash = ChainHash(IF k = 1 THEN Genesis ELSE all[k - 1].hash, all[k].event)
  <2>1. all[k].hash = Append(SubSeq(events, 1, k - 1), all[k].event)
    BY <1>5, <1>6
  <2>2. CASE k = 1
    <3>1. 0 \in 0..Len(events)
      BY <1>1
    <3>2. IsSeq(SubSeq(events, 1, 0)) /\ Len(SubSeq(events, 1, 0)) = 0
      BY <3>1, PrefixOk
    <3>3. SubSeq(events, 1, 0) = <<>>
      BY <3>2, SeqBasics
    <3>4. k - 1 = 0
      BY <2>2
    <3> QED
      BY <2>1, <2>2, <3>3, <3>4 DEF ChainHash, Genesis
  <2>3. CASE k # 1
    <3>1. k - 1 \in 1..n
      BY <1>1, <2>3
    <3>2. all[k - 1].hash = SubSeq(events, 1, k - 1)
      BY <1>5, <3>1
    <3> QED
      BY <2>1, <2>3, <3>2 DEF ChainHash
  <2> QED
    BY <2>2, <2>3
<1> QED
  BY <1>2, <1>4, <1>7 DEF VerifyChain

\* The events of the trail are those of its entries.
LEMMA EntriesEvents ==
  ASSUME NEW events, IsSeq(events), NEW all, all = Entries(events)
  PROVE  Len(all) = Len(events) /\ [i \in 1..Len(all) |-> all[i].event] = events
<1>1. PICK n \in Nat : n = Len(events)
  BY SeqBasics
<1>2. /\ DOMAIN all = 1..n /\ all = [k \in DOMAIN all |-> all[k]]
      /\ \A k \in 1..n : all[k] = Frame(events[k], SubSeq(events, 1, k), k)
  BY <1>1 DEF Entries
<1>3. Len(all) = n
  BY <1>2, FunctionIsSeq
<1>4. \A k \in 1..n : all[k].event = events[k]
  BY <1>2 DEF Frame
<1>5. events = [k \in 1..n |-> events[k]]
  BY <1>1, SeqBasics
<1>6. [i \in 1..n |-> all[i].event] = [k \in 1..n |-> events[k]]
  BY <1>4
<1> QED
  BY <1>1, <1>3, <1>5, <1>6

\* The snapshot a recovery starts from is the state of a prefix.
LEMMA SnapshotOk ==
  ASSUME IsSeq(log), SnapsOk(snaps, log), NEW snap, snap = LatestSnapshot \/ snap = {}
  PROVE  \E n \in 0..Len(log) :
            /\ n = (IF snap = {} THEN 0 ELSE Max(snap))
            /\ (IF snap = {} THEN Replay(<<>>) ELSE snaps[n]) = Replay(SubSeq(log, 1, n))
<1>1. PICK l \in Nat : l = Len(log)
  BY SeqBasics
<1>2. CASE snap = {}
  <2>1. 0 \in 0..Len(log)
    BY <1>1
  <2>2. IsSeq(SubSeq(log, 1, 0)) /\ Len(SubSeq(log, 1, 0)) = 0
    BY <2>1, PrefixOk
  <2>3. SubSeq(log, 1, 0) = <<>>
    BY <2>2, SeqBasics
  <2> QED
    BY <1>2, <2>1, <2>3
<1>3. CASE snap # {}
  <2>1. DOMAIN snaps # {} /\ snaps[Max(DOMAIN snaps)] # Torn /\ snap = {Max(DOMAIN snaps)}
    BY <1>3 DEF LatestSnapshot
  <2>2. DOMAIN snaps \in SUBSET (0..l)
    BY <1>1 DEF SnapsOk
  <2>3. Max(DOMAIN snaps) \in DOMAIN snaps
    BY <2>1, <2>2, MaxInRange
  <2>4. PICK n \in 0..l : n = Max(DOMAIN snaps)
    BY <2>2, <2>3
  <2>5. Max(snap) = n
    <3>1. snap \in SUBSET Nat /\ n \in snap /\ \A k \in snap : k <= n
      BY <2>1, <2>4
    <3> QED
      BY <3>1, MaxOk
  <2>6. snaps[n] = Replay(SubSeq(log, 1, n))
    BY <2>1, <2>3, <2>4 DEF SnapsOk
  <2> QED
    BY <1>1, <1>3, <2>4, <2>5, <2>6
<1> QED
  BY <1>2, <1>3

\* What recovery returns for an unbroken trail.
Recovered(r) ==
  /\ r.result = "ok" /\ r.state = Replay(log)
  /\ r.inflight = DetectInFlight(log, 0) /\ r.seq = Len(log)

\* Recovery of an unbroken trail, from whichever snapshot.
LEMMA RecoverExact ==
  ASSUME IsSeq(log), SnapsOk(snaps, log), NEW files, Concat(files) = Entries(log),
         NEW mem, mem.seq = Len(log), Collectable(files, mem),
         NEW snap, snap = LatestSnapshot \/ snap = {}
  PROVE  Recovered(RecoverState(files, mem, snap))
<1>1. PICK l \in Nat : l = Len(log)
  BY SeqBasics
<1>2. PICK all : all = Entries(log)
  OBVIOUS
<1>3. Len(all) = Len(log) /\ [i \in 1..Len(all) |-> all[i].event] = log
  BY <1>2, EntriesEvents
<1>4. VerifyChain(all)
  BY <1>2, EntriesVerify
<1>5. PICK n \in 0..Len(log) :
            /\ n = (IF snap = {} THEN 0 ELSE Max(snap))
            /\ (IF snap = {} THEN Replay(<<>>) ELSE snaps[n]) = Replay(SubSeq(log, 1, n))
  BY SnapshotOk
<1>6. PICK base : base = (IF snap = {} THEN Replay(<<>>) ELSE snaps[n])
  OBVIOUS
<1>7. PICK rest : rest = SubSeq(log, n + 1, Len(log))
  OBVIOUS
<1>8. PICK r : r = RecoverState(files, mem, snap)
  OBVIOUS
<1>9. n \in Nat /\ n <= l
  BY <1>1
<1>10. CASE l = 0
  <2>1. n = 0
    BY <1>9, <1>10
  <2>2. r = [result |-> "ok", state |-> base, seq |-> n, inflight |-> {}]
    BY <1>1, <1>5, <1>6, <1>8, <1>10 DEF RecoverState
  <2>3. SubSeq(log, 1, n) = log
    BY <1>1, <1>10, <2>1, PrefixWhole
  <2>4. DetectInFlight(log, 0) = {}
    <3>1. 1..Len(log) = {}
      BY <1>1, <1>10
    <3> QED
      BY <3>1 DEF DetectInFlight
  <2> QED
    <3>1. base = Replay(log)
      BY <1>5, <1>6, <2>3
    <3>2. r.result = "ok" /\ r.state = base /\ r.inflight = {} /\ r.seq = n
      BY <2>2
    <3>3. n = Len(log)
      BY <1>1, <1>10, <2>1
    <3>4. Recovered(r)
      BY <2>4, <3>1, <3>2, <3>3 DEF Recovered
    <3> QED
      BY <1>8, <3>4
<1>11. CASE l # 0
  <2>1. ~(n > Len(log)) /\ mem.seq # 0
    BY <1>1, <1>9, <1>11
  <2>2. DetectInFlight(log, n) = DetectInFlight(log, 0)
    BY DEF DetectInFlight
  <2>3. r = [result |-> "ok", state |-> Extend(base, Replay(rest)), seq |-> mem.seq,
             inflight |-> DetectInFlight(log, n)]
    BY <1>2, <1>3, <1>4, <1>5, <1>6, <1>7, <1>8, <2>1 DEF RecoverState
  <2>4. Extend(base, Replay(rest)) = Replay(log)
    BY <1>5, <1>6, <1>7, ReplaySplits
  <2> QED
    BY <1>8, <2>2, <2>3, <2>4 DEF Recovered
<1> QED
  BY <1>8, <1>10, <1>11

\* A restart on an unbroken all-hot trail succeeds and rebuilds its state.
LEMMA RestartExact ==
  ASSUME StorageInv, ~muddled, AllHot, NEW b \in BOOLEAN, Restart(b)
  PROVE  Recovered(rec') /\ proc'.seq = Len(log)
<1>1. FilesOk /\ HotOk /\ NoTierLosesEntries /\ WholeOk /\ IsSeq(log)
  BY DEF StorageInv, FilesOk
<1>2. PICK m \in Nat : IsTop(segs, m)
  BY <1>1 DEF FilesOk
<1>3. /\ DOMAIN segs' = DOMAIN segs
      /\ rec' = RecoverState(segs', Opened(segs', m), IF b THEN LatestSnapshot ELSE {})
      /\ proc' = (IF rec'.result = "ok" THEN Opened(segs', m) ELSE Down)
      /\ ~proc.up /\ log' = log /\ muddled' = muddled /\ snaps' = snaps
  BY <1>1, <1>2, RestartShape
<1>4. TrailNext
  BY DEF TrailNext
<1>5. WholeOk'
  BY <1>1, <1>3, <1>4, WholeTrail
<1>6. Concat(segs') = Entries(log) /\ SnapsOk(snaps, log)
  BY <1>1, <1>3, <1>5 DEF WholeOk
<1>7. PICK files : files = segs'
  OBVIOUS
<1>8. PICK mem : mem = Opened(files, m)
  OBVIOUS
<1>9. mem.active = m /\ mem.seq = Len(Concat(files)) /\ mem.seq = Len(log)
  <2>1. Len(Entries(log)) = Len(log)
    BY <1>1, EntriesEvents
  <2> QED
    BY <1>6, <1>7, <1>8, <2>1 DEF Opened
<1>10. Collectable(files, mem)
  BY <1>1, <1>2, <1>3, <1>7, <1>9, AllHotIs DEF Collectable
<1>11. PICK snap : snap = (IF b THEN LatestSnapshot ELSE {})
  OBVIOUS
<1>12. snap = LatestSnapshot \/ snap = {}
  BY <1>11
<1>13. Recovered(RecoverState(files, mem, snap))
  BY <1>1, <1>6, <1>7, <1>9, <1>10, <1>12, RecoverExact
<1>14. rec' = RecoverState(files, mem, snap)
  BY <1>3, <1>7, <1>8, <1>11
<1>15. Recovered(rec')
  <2>1. PICK r : r = rec'
    OBVIOUS
  <2>2. Recovered(r)
    BY <1>13, <1>14, <2>1
  <2> QED
    BY <2>1, <2>2
<1>16. rec'.result = "ok"
  BY <1>15 DEF Recovered
<1>17. proc' = mem
  BY <1>3, <1>7, <1>8, <1>16
<1> QED
  BY <1>9, <1>15, <1>17

\* While the process is down, only a restart changes it or its recovery.
LEMMA OnlyRestartRecovers ==
  ASSUME FilesOk, TiersNext, ~proc.up, <<proc, rec>>' # <<proc, rec>>
  PROVE  \E b \in BOOLEAN : Restart(b)
<1>1. CASE TrailNext
  BY <1>1 DEF TrailNext, DoAppend, CrashAfterWrite, AppendFails, Crash, CrashIdle, CrashInAppend,
              WriteSnapshot, CrashInSnapshot
<1>2. CASE ~TrailNext
  BY <1>2 DEF TiersNext, SetAnchor, Age, HotToWarm, CrashInHotToWarm, Crash, WarmToCold, CleanupCold,
              MergeWarm, trailVars
<1> QED
  BY <1>1, <1>2

\* Whatever crashed before it, and whichever snapshot it starts from, a restart
\* on an all-hot trail without a swallowed write succeeds, and rebuilds the
\* state, the envelopes in flight and the sequence of the whole log.
THEOREM RecoveryIsExact == TiersSpec => RecoveryExact
<1>1. TrailInit /\ TiersInit => StorageInv
  BY StorageInit
<1>2. StorageInv /\ [TiersNext]_<<trailVars, tierVars>> => StorageInv'
  BY StorageNext
<1>3. ASSUME StorageInv, [TiersNext]_<<trailVars, tierVars>>
      PROVE  [ ~proc.up /\ <<proc, rec>>' # <<proc, rec>> /\ AllHot /\ ~muddled =>
                 /\ rec'.result = "ok"
                 /\ rec'.state = Replay(log)
                 /\ rec'.inflight = DetectInFlight(log, 0)
                 /\ rec'.seq = Len(log)
                 /\ proc'.seq = Len(log) ]_trailVars
  <2> SUFFICES ASSUME ~proc.up, <<proc, rec>>' # <<proc, rec>>, AllHot, ~muddled
               PROVE  /\ rec'.result = "ok"
                      /\ rec'.state = Replay(log)
                      /\ rec'.inflight = DetectInFlight(log, 0)
                      /\ rec'.seq = Len(log)
                      /\ proc'.seq = Len(log)
    OBVIOUS
  <2>1. FilesOk /\ TiersNext
    BY <1>3 DEF StorageInv, trailVars
  <2>2. PICK b \in BOOLEAN : Restart(b)
    BY <2>1, OnlyRestartRecovers
  <2>3. Recovered(rec') /\ proc'.seq = Len(log)
    BY <1>3, <2>2, RestartExact
  <2> QED
    BY <2>3 DEF Recovered
<1> QED
  BY <1>1, <1>2, <1>3, PTL DEF TiersSpec, RecoveryExact
=============================================================================
