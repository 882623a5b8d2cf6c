------------------------------- MODULE Highway -------------------------------
(***************************************************************************)
(* The console's highway of one session: the four stream drivers and the   *)
(* loop of the session monitor (console-core session_monitor.rs), the      *)
(* handlers that answer gates and escalations (console-api highway.rs) and *)
(* the WebSocket that forwards the monitor's frames (ws.rs).               *)
(*                                                                         *)
(* Events reach the monitor over independent streams that break and        *)
(* reconnect, so they are reordered between streams and lost in gaps.      *)
(***************************************************************************)
EXTENDS Naturals, Sequences

CONSTANTS
  Items,         \* gates and escalations
  EscalationIds, \* the items that are escalations
  Operators,     \* clients of the console
  MaxBatch,      \* gates of one batch
  BroadcastCap,  \* broadcast_capacity
  FailureCap,    \* reconnect_failure_cap
  MaxPublished,  \* events the runtime sends
  MaxBreaks      \* broken streams and failed connects

ASSUME HighwayAssumption == Items # {} /\ BroadcastCap \in Nat /\ MaxBatch \in Nat

VARIABLES
  rtItem,    \* [Items -> "none", "open" or "closed"], in the runtime
  published,
  driver,    \* [Streams -> [link, failures, gaps]]
  wire,      \* [Streams -> Seq(Event)]: sent by the runtime, not yet received
  queue,     \* the mpsc the drivers feed
  mon,       \* [on, pending, refusals, taken]
  session,   \* the state the monitor records: "active", "completed" or "failed"
  frames,    \* history of the frames sent to the broadcast channel
  ws,        \* the WebSocket client
  call,      \* [Operators -> the handler that runs for it]
  acked,     \* <<operator, item>> the runtime acknowledged
  auditLog   \* <<operator, item>> in the audit log

monVars == <<driver, wire, queue, mon, session, frames>>
highwayVars == <<rtItem, published, monVars, ws, call, acked, auditLog>>

Streams == {"trail", "gates", "escalations", "workspace_changes"}

StreamOf(i) == IF i \in EscalationIds THEN "escalations" ELSE "gates"

NoItem == CHOOSE i \in Items : TRUE

\* A stream event with the number of announced gaps of its stream before it; a
\* Lag counts the one it announces.
Ev(s, what, i, gaps) == [s |-> s, channel |-> s, what |-> what, id |-> i, gaps |-> gaps]

-----------------------------------------------------------------------------
(* The runtime (external here: what it sends to its subscribers)           *)

\* An event for a broken stream has no subscriber and is lost.
Sent(s, what, i) ==
  wire' = IF driver[s].link = "up" THEN [wire EXCEPT ![s] = Append(@, Ev(s, what, i, driver[s].gaps))] ELSE wire

Publish(s, what, i) ==
  /\ published < MaxPublished /\ published' = published + 1
  /\ Sent(s, what, i)
  /\ UNCHANGED <<driver, queue, mon, session, frames, ws, call, acked, auditLog>>

RuntimeOpens(i) ==
  rtItem[i] = "none" /\ rtItem' = [rtItem EXCEPT ![i] = "open"] /\ Publish(StreamOf(i), "item", i)

\* A gate's timeout applies the fallback and tells nobody.
RuntimeExpires(i) ==
  /\ i \notin EscalationIds /\ rtItem[i] = "open" /\ rtItem' = [rtItem EXCEPT ![i] = "closed"]
  /\ UNCHANGED <<published, monVars, ws, call, acked, auditLog>>

\* Trail entries (a refusal, the resolution of a closed gate) and the end of
\* the root workspace.
RuntimeReports ==
  /\ \/ Publish("trail", "refusal", NoItem)
     \/ \E i \in Items \ EscalationIds : rtItem[i] = "closed" /\ Publish("trail", "gate_resolved", i)
     \/ \E end \in {"closed", "failed"} : Publish("workspace_changes", end, NoItem)
  /\ UNCHANGED rtItem

-----------------------------------------------------------------------------
(* The stream drivers                                                      *)

\* A plausible bug: only the interruption that ends the driver is announced.
Mutant_LagAtCap(s, clean) ==
  IF clean \/ driver[s].failures + 1 < FailureCap THEN <<>> ELSE <<Ev(s, "lag", NoItem, driver[s].gaps + 1)>>

\* run_stream_driver: an error is announced as a Lag; an end without one is not.
LagFor(s, clean) == IF clean THEN <<>> ELSE <<Ev(s, "lag", NoItem, driver[s].gaps + 1)>>

\* The driver's attempt is over: the failure counter, which no success resets,
\* decides whether there is another one.
AttemptEnds(s, clean) ==
  LET n == driver[s].failures + 1
      fatal == IF n >= FailureCap THEN <<Ev(s, "fatal", NoItem, 0)>> ELSE <<>>
  IN  /\ driver' = [driver EXCEPT ![s] = [link |-> IF n >= FailureCap THEN "dead" ELSE "down", failures |-> n,
                                          gaps |-> @.gaps + (IF clean THEN 0 ELSE 1)]]
      /\ queue' = queue \o LagFor(s, clean) \o fatal
      /\ wire' = [wire EXCEPT ![s] = <<>>]

Failures == driver["trail"].failures + driver["gates"].failures + driver["escalations"].failures
            + driver["workspace_changes"].failures

\* The stream breaks or ends, or subscribing fails.
DriverFails(s, clean) ==
  /\ mon.on /\ Failures < MaxBreaks
  /\ driver[s].link = "up" \/ (driver[s].link = "down" /\ ~clean)
  /\ AttemptEnds(s, clean)
  /\ UNCHANGED <<rtItem, published, mon, session, frames, ws, call, acked, auditLog>>

DriverConnects(s) ==
  /\ mon.on /\ driver[s].link = "down" /\ driver' = [driver EXCEPT ![s].link = "up"]
  /\ UNCHANGED <<rtItem, published, wire, queue, mon, session, frames, ws, call, acked, auditLog>>

DriverForwards(s) ==
  /\ mon.on /\ wire[s] # <<>>
  /\ queue' = Append(queue, Head(wire[s])) /\ wire' = [wire EXCEPT ![s] = Tail(@)]
  /\ UNCHANGED <<rtItem, published, driver, mon, session, frames, ws, call, acked, auditLog>>

-----------------------------------------------------------------------------
(* The monitor's loop                                                      *)

\* handle_event: the frames an event is broadcast as.
FramesOf(e) ==
  CASE e.what = "refusal" -> <<[e EXCEPT !.channel = "refusals"], e>>
    [] e.what \in {"closed", "failed"} -> <<e, [e EXCEPT !.channel = "session"]>>
    [] e.what \in {"lag", "fatal"} -> <<[e EXCEPT !.channel = "control"]>>
    [] OTHER -> <<e>>

PendingAfter(e) ==
  CASE e.what = "item" -> mon.pending \cup {e.id}
    [] e.what = "gate_resolved" -> mon.pending \ {e.id}
    [] OTHER -> mon.pending

Verdict(e) ==
  CASE e.what = "closed" -> "completed" [] e.what \in {"failed", "fatal"} -> "failed" [] OTHER -> "active"

\* A plausible bug: the loop goes on after a terminal event.
Mutant_GoOn(e) == TRUE

LoopGoesOn(e) == Verdict(e) = "active"

MonitorHandles ==
  /\ mon.on /\ queue # <<>>
  /\ LET e == Head(queue)
     IN  /\ queue' = Tail(queue)
         /\ frames' = frames \o FramesOf(e)
         /\ mon' = [mon EXCEPT !.on = LoopGoesOn(e), !.pending = PendingAfter(e),
                               !.refusals = @ + (IF e.what = "refusal" THEN 1 ELSE 0),
                               !.taken = IF e.what = "item" THEN @ \cup {e.id} ELSE @]
         /\ session' = IF session = "active" THEN Verdict(e) ELSE session
  /\ UNCHANGED <<rtItem, published, driver, wire, ws, call, acked, auditLog>>

\* The Shutdown command comes first in the biased select.
MonitorShutdown ==
  /\ mon.on /\ mon' = [mon EXCEPT !.on = FALSE]
  /\ UNCHANGED <<rtItem, published, driver, wire, queue, session, frames, ws, call, acked, auditLog>>

-----------------------------------------------------------------------------
(* The WebSocket of one client                                             *)

WsConnect ==
  /\ ws.at = "off"
  /\ ws' = [at |-> IF mon.on THEN "open" ELSE "deaf", start |-> Len(frames), pos |-> Len(frames), got |-> <<>>, missed |-> 0]
  /\ UNCHANGED <<rtItem, published, monVars, call, acked, auditLog>>

\* A plausible bug: a receiver that fell behind goes on without a word.
Mutant_SilentLag == [ws EXCEPT !.pos = Len(frames) - BroadcastCap]

\* RecvError::Lagged: the client is told how many frames it missed.
WsLagged ==
  [ws EXCEPT !.pos = Len(frames) - BroadcastCap, !.missed = @ + (Len(frames) - BroadcastCap - ws.pos)]

WsForward ==
  /\ ws.at = "open" /\ ws.pos < Len(frames)
  /\ ws' = IF Len(frames) - ws.pos > BroadcastCap THEN WsLagged
           ELSE [ws EXCEPT !.pos = @ + 1, !.got = Append(@, ws.pos + 1)]
  /\ UNCHANGED <<rtItem, published, monVars, call, acked, auditLog>>

WsDisconnect ==
  /\ ws.at \in {"open", "deaf"} /\ ws' = [ws EXCEPT !.at = "gone"]
  /\ UNCHANGED <<rtItem, published, monVars, call, acked, auditLog>>

-----------------------------------------------------------------------------
(* The handlers: one item, or a list of gates, which may name one twice.   *)
(* An id is known once it exists.                                          *)

Working(c) == call[c].at # "idle"

StartAnswer(c) ==
  /\ call[c].at = "idle"
  /\ \E batch \in BOOLEAN, todo \in UNION {[1..n -> Items] : n \in 1..MaxBatch} :
       /\ \A n \in DOMAIN todo : rtItem[todo[n]] # "none"
       /\ ~batch => Len(todo) = 1
       /\ batch => \A n \in DOMAIN todo : todo[n] \notin EscalationIds
       /\ call' = [call EXCEPT ![c] = [at |-> "rpc", todo |-> todo, batch |-> batch]]
  /\ UNCHANGED <<rtItem, published, monVars, ws, acked, auditLog>>

NextItem(c) ==
  IF Len(call[c].todo) = 1 THEN [call[c] EXCEPT !.at = "idle", !.todo = <<>>]
  ELSE [call[c] EXCEPT !.at = "rpc", !.todo = Tail(@)]

\* A plausible bug: the entry is dropped from the list before the answer is in.
Mutant_PruneAnyway(c) == [call[c] EXCEPT !.at = "prune"]

\* A plausible bug: the decision is recorded whatever the runtime said.
Mutant_AuditAnyway(c) == [call[c] EXCEPT !.at = "audit"]

\* An error ends a single answer; a batch records it and takes the next gate.
AfterRefusal(c) == NextItem(c)

\* RespondToGate, RespondToEscalation: the runtime closes the item if it is
\* open and acknowledges in both cases; or the call itself fails.
AnswerRpc(c) ==
  /\ call[c].at = "rpc"
  /\ LET i == Head(call[c].todo)
     IN  \/ /\ rtItem' = [rtItem EXCEPT ![i] = IF @ = "open" THEN "closed" ELSE @]
            /\ acked' = acked \cup {<<c, i>>}
            /\ call' = [call EXCEPT ![c].at = "audit"]
         \/ call' = [call EXCEPT ![c] = AfterRefusal(c)] /\ UNCHANGED <<rtItem, acked>>
  /\ UNCHANGED <<published, monVars, ws, auditLog>>

\* log_audit's failure is ignored.
AnswerAudit(c) ==
  /\ call[c].at = "audit"
  /\ auditLog' \in {auditLog, auditLog \cup {<<c, Head(call[c].todo)>>}}
  /\ call' = [call EXCEPT ![c].at = "prune"]
  /\ UNCHANGED <<rtItem, published, monVars, ws, acked>>

AnswerPrune(c) ==
  /\ call[c].at = "prune"
  /\ mon' = [mon EXCEPT !.pending = @ \ {Head(call[c].todo)}]
  /\ call' = [call EXCEPT ![c] = NextItem(c)]
  /\ UNCHANGED <<rtItem, published, driver, wire, queue, session, frames, ws, acked, auditLog>>

-----------------------------------------------------------------------------
HighwayInit ==
  /\ rtItem = [i \in Items |-> "none"] /\ published = 0
  /\ driver = [s \in Streams |-> [link |-> "up", failures |-> 0, gaps |-> 0]]
  /\ wire = [s \in Streams |-> <<>>] /\ queue = <<>>
  /\ mon = [on |-> TRUE, pending |-> {}, refusals |-> 0, taken |-> {}] /\ session = "active"
  /\ frames = <<>> /\ ws = [at |-> "off", start |-> 0, pos |-> 0, got |-> <<>>, missed |-> 0]
  /\ call = [c \in Operators |-> [at |-> "idle", todo |-> <<>>, batch |-> FALSE]]
  /\ acked = {} /\ auditLog = {}

StreamNext ==
  \/ \E i \in Items : RuntimeOpens(i) \/ RuntimeExpires(i)
  \/ RuntimeReports
  \/ \E s \in Streams : DriverForwards(s)
  \/ MonitorHandles \/ MonitorShutdown

BreakNext ==
  \E s \in Streams : DriverConnects(s) \/ \E clean \in BOOLEAN : DriverFails(s, clean)

AnswerNext == \E c \in Operators : StartAnswer(c) \/ AnswerRpc(c) \/ AnswerAudit(c) \/ AnswerPrune(c)

WsNext == WsConnect \/ WsForward \/ WsDisconnect

HighwaySpec == HighwayInit /\ [][StreamNext \/ BreakNext \/ AnswerNext \/ WsNext]_highwayVars

-----------------------------------------------------------------------------
(* Properties                                                              *)

\* An open gate or escalation the monitor has been told of is never dropped
\* from the pending lists: an entry goes only when the runtime has taken an
\* answer for it, whatever the order of events, answers and failed calls.
PrunedIsClosed == \A i \in mon.taken \ mon.pending : rtItem[i] = "closed"

\* "Audit only on a successful runtime response": nobody is on record for a
\* decision the runtime did not acknowledge.
AuditedIsAcked == auditLog \subseteq acked

\* A client that receives an event from behind an interruption of its stream
\* was told of each interruption first.
LagPrecedes ==
  \A n \in DOMAIN frames :
    frames[n].what # "lag" =>
      \A g \in 1..frames[n].gaps :
        \E m \in 1..n : frames[m].what = "lag" /\ frames[m].s = frames[n].s /\ frames[m].gaps = g

\* The frame that ends the session is the last one, and there is only one end.
EndIsLast ==
  \A n \in DOMAIN frames : frames[n].what \in {"closed", "failed", "fatal"} => n >= Len(frames) - 1

\* Every frame sent since a client subscribed was forwarded to it in order, is
\* still to be forwarded, or is counted in a lag notice.
WsAccounted ==
  /\ \A n, m \in DOMAIN ws.got : n < m => ws.got[n] < ws.got[m]
  /\ Len(ws.got) + ws.missed = ws.pos - ws.start

\* "On reconnect, a `Lag` event is emitted first": a stream that is up again
\* has announced each of its interruptions.
ReconnectLags ==
  \A s \in Streams : driver[s].link = "up" => driver[s].gaps = driver[s].failures

\* What operators see and what is on record for them: pending lists, audit log
\* and frames, whatever the order of events, answers, breaks and failed calls.
HighwaySound ==
  /\ PrunedIsClosed /\ AuditedIsAcked
  /\ LagPrecedes /\ EndIsLast /\ WsAccounted
=============================================================================
