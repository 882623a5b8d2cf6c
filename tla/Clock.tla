-------------------------------- MODULE Clock --------------------------------
(***************************************************************************)
(* The hybrid logical clock: two nodes read wall clocks that may also jump *)
(* back, stamp local events and messages, and merge the stamps of what     *)
(* they receive.  The logical counter saturates at LogicalMax (u16::MAX).  *)
(***************************************************************************)
EXTENDS Naturals

CONSTANTS Nodes, LogicalMax, MaxPhysical

ASSUME ClockAssumption == LogicalMax \in Nat /\ MaxPhysical \in Nat

VARIABLES
  wall,     \* what each node's TimeSource::now_us returns
  last,     \* Clock::last
  sent      \* timestamps sent and not yet dropped

clockVars == <<wall, last, sent>>

Timestamp == [physical : Nat, logical : 0..LogicalMax]
Zero == [physical |-> 0, logical |-> 0]
Stamp(p, l) == [physical |-> p, logical |-> l]

\* impl Ord for Timestamp
Before(a, b) ==
  a.physical < b.physical \/ (a.physical = b.physical /\ a.logical < b.logical)

\* u16::saturating_add(1)
Bump(l) == IF l < LogicalMax THEN l + 1 ELSE LogicalMax

\* Timestamp::succ
Succ(t) == IF t.logical = LogicalMax THEN Stamp(t.physical + 1, 0)
           ELSE Stamp(t.physical, t.logical + 1)

Larger(a, b) == IF a > b THEN a ELSE b

\* Mutant: the wall clock is always taken, with the counter reset.
Mutant_TrustWall(n) == Stamp(wall[n], 0)

\* Clock::now (and send)
NowStamp(n) ==
  IF wall[n] > last[n].physical THEN Stamp(wall[n], 0)
  ELSE Stamp(last[n].physical, Bump(last[n].logical))

\* Mutant: a tie keeps the local counter.
Mutant_TieLocal(n, remote) ==
  LET p == Larger(wall[n], Larger(last[n].physical, remote.physical))
  IN  Stamp(p, IF p > last[n].physical /\ p > remote.physical THEN 0
               ELSE IF p = last[n].physical THEN Bump(last[n].logical)
               ELSE Bump(remote.logical))

\* Clock::recv
RecvStamp(n, remote) ==
  LET p == Larger(wall[n], Larger(last[n].physical, remote.physical))
  IN  Stamp(p, IF p > last[n].physical /\ p > remote.physical THEN 0
               ELSE IF p = last[n].physical /\ p = remote.physical
               THEN Bump(Larger(last[n].logical, remote.logical))
               ELSE IF p = last[n].physical THEN Bump(last[n].logical)
               ELSE Bump(remote.logical))

ClockInit ==
  /\ wall \in [Nodes -> 0..MaxPhysical]
  /\ last = [n \in Nodes |-> Zero] /\ sent = {}

\* The system clock moves, forward or back.
WallMoves(n, t) == wall' = [wall EXCEPT ![n] = t] /\ UNCHANGED <<last, sent>>

Now(n) == last' = [last EXCEPT ![n] = NowStamp(n)] /\ UNCHANGED <<wall, sent>>

Send(n) ==
  /\ last' = [last EXCEPT ![n] = NowStamp(n)]
  /\ sent' = sent \cup {NowStamp(n)} /\ UNCHANGED wall

Recv(n, remote) ==
  /\ last' = [last EXCEPT ![n] = RecvStamp(n, remote)]
  /\ UNCHANGED <<wall, sent>>

\* extract_last_timestamp keeps the microseconds of the last entry only.
RecoveredStamp(n) == Succ(Stamp(last[n].physical, 0))

\* A restart after an entry stamped `last': the clock begins at clock_initial.
Recover(n) ==
  last' = [last EXCEPT ![n] = RecoveredStamp(n)] /\ UNCHANGED <<wall, sent>>

ClockNext ==
  \E n \in Nodes :
    \/ \E t \in 0..MaxPhysical : WallMoves(n, t)
    \/ Now(n) \/ Send(n) \/ Recover(n)
    \/ \E remote \in sent : Recv(n, remote)

ClockSpec == ClockInit /\ [][ClockNext]_clockVars

---------------------------------------------------------------------------
ClockTypeOK ==
  /\ wall \in [Nodes -> 0..MaxPhysical]
  /\ last \in [Nodes -> Timestamp] /\ sent \subseteq Timestamp

\* Whatever the wall clock does, a node's timestamps never go back, except
\* across a restart, and there never to an earlier microsecond.
ClockAdvances ==
  [][\A n \in Nodes :
       \/ last'[n] = last[n] \/ Before(last[n], last'[n])
       \/ last'[n] = RecoveredStamp(n) /\ last'[n].physical = last[n].physical]_clockVars

\* A received stamp is before the stamp of its receipt, unless the counter is
\* saturated in the same microsecond.
RecvAfterSend ==
  [][\A n \in Nodes, t \in sent :
       (last'[n] = RecvStamp(n, t) /\ last' # last) =>
          \/ Before(t, last'[n])
          \/ t = last'[n] /\ t.logical = LogicalMax]_clockVars

\* Timestamps respect the order of events on a node and between nodes.
CausalOrder == ClockAdvances /\ RecvAfterSend
=============================================================================
