--------------------------- MODULE ConsoleProofs ----------------------------
(***************************************************************************)
(* The Console's live routes, for any number of items, operators,          *)
(* subscribers and rows.                                                   *)
(*                                                                         *)
(* HighwayIsSound: an item leaves the monitor's list only when the runtime *)
(* closed it, and what a socket missed it is told of. The invariant        *)
(* follows an event from the stream that carries it through the monitor's  *)
(* channel to the sockets: a resolution that travels is of a closed item,  *)
(* and the gaps announced so far and the events still queued add up to     *)
(* what was dropped.                                                       *)
(*                                                                         *)
(* WalksAreExact: a walk through a list, page by page, gives every row     *)
(* that stays visible once and none twice, while rows come and go. The     *)
(* rows listed are those up to the cursor, and the cursor moves past every *)
(* row it lists.                                                           *)
(***************************************************************************)
EXTENDS Highway, Paging, SequenceTheorems, FiniteSetTheorems, TLAPS

Whats == {"item", "refusal", "gate_resolved", "closed", "failed", "lag", "fatal"}

Channels == Streams \cup {"refusals", "session", "control"}

Events == [s : Streams, channel : Channels, what : Whats, id : Items, gaps : Nat]

Calls == [at : {"idle", "rpc", "audit", "prune"}, todo : Seq(Items), batch : BOOLEAN]

HighwayNext == StreamNext \/ BreakNext \/ AnswerNext \/ WsNext

LagIs(e, s, g) == e.what = "lag" /\ e.s = s /\ e.gaps = g

\* A resolution that travels is of a closed item, and so is the item a handler
\* records or takes off the list.
ItemsInv ==
  /\ rtItem \in [Items -> {"none", "open", "closed"}]
  /\ \A i \in mon.taken \ mon.pending : rtItem[i] = "closed"
  /\ mon.taken \subseteq Items
  /\ \A s \in Streams : \A k \in DOMAIN wire[s] : wire[s][k].what = "gate_resolved" => rtItem[wire[s][k].id] = "closed"
  /\ \A k \in DOMAIN queue : queue[k].what = "gate_resolved" => rtItem[queue[k].id] = "closed"
  /\ call \in [Operators -> Calls]
  /\ \A c \in Operators : call[c].at # "idle" =>
       call[c].todo # <<>> /\ \A k \in DOMAIN call[c].todo : rtItem[call[c].todo[k]] # "none"
  /\ \A c \in Operators : call[c].at \in {"audit", "prune"} =>
       rtItem[Head(call[c].todo)] = "closed" /\ <<c, Head(call[c].todo)>> \in acked
  /\ auditLog \subseteq acked

\* Every interruption a driver has counted is in the frames or in the queue,
\* ahead of what the stream sent behind it.
LagInv ==
  /\ \A s \in Streams : driver[s].gaps \in Nat
  /\ \A s \in Streams : \A k \in DOMAIN wire[s] :
       wire[s][k].s = s /\ wire[s][k].what # "lag" /\ wire[s][k].gaps <= driver[s].gaps
  /\ \A s \in Streams : \A g \in 1..driver[s].gaps :
       \/ \E m \in DOMAIN frames : LagIs(frames[m], s, g)
       \/ \E k \in DOMAIN queue : LagIs(queue[k], s, g)
  /\ \A k \in DOMAIN queue : queue[k].what # "lag" => \A g \in 1..queue[k].gaps :
       \/ \E m \in DOMAIN frames : LagIs(frames[m], queue[k].s, g)
       \/ \E j \in 1..(k-1) : LagIs(queue[j], queue[k].s, g)
  /\ LagPrecedes

\* What travels is a sequence of events.
WireInv == wire \in [Streams -> Seq(Events)] /\ queue \in Seq(Events) /\ frames \in Seq(Events)

\* The frame that ends the session is the last one, and then the loop is over.
MonitorInv ==
  /\ driver = [s \in Streams |-> [link |-> driver[s].link, failures |-> driver[s].failures, gaps |-> driver[s].gaps]]
  /\ mon = [on |-> mon.on, pending |-> mon.pending, refusals |-> mon.refusals, taken |-> mon.taken]
  /\ EndIsLast
  /\ mon.on => \A n \in DOMAIN frames : frames[n].what \notin {"closed", "failed", "fatal"}

\* The socket is somewhere in the frames, behind what it forwarded.
SocketInv ==
  /\ ws \in [at : {"off", "open", "deaf", "gone"}, start : Nat, pos : Nat, got : Seq(Nat), missed : Nat]
  /\ ws.start <= ws.pos /\ ws.pos <= Len(frames)
  /\ \A n \in DOMAIN ws.got : ws.got[n] <= ws.pos
  /\ WsAccounted

HighwayInv == WireInv /\ MonitorInv /\ SocketInv /\ LagInv /\ ItemsInv

-----------------------------------------------------------------------------

\* Every item has a stream.
LEMMA StreamOfType == \A i : StreamOf(i) \in Streams
BY DEF StreamOf, Streams

\* The place of an item in an event without one.
LEMMA NoItemType == NoItem \in Items
BY HighwayAssumption DEF NoItem

\* What a driver or the runtime sends is an event.
LEMMA EvType ==
  ASSUME NEW s \in Streams, NEW what \in Whats, NEW i \in Items, NEW g \in Nat
  PROVE  /\ Ev(s, what, i, g) \in Events
         /\ Ev(s, what, i, g).s = s /\ Ev(s, what, i, g).what = what
         /\ Ev(s, what, i, g).id = i /\ Ev(s, what, i, g).gaps = g
BY DEF Ev, Events, Channels

\* The fields of an event.
LEMMA EventFields ==
  ASSUME NEW e \in Events
  PROVE  e.s \in Streams /\ e.what \in Whats /\ e.id \in Items /\ e.gaps \in Nat
BY DEF Events

\* What is in a queue.
LEMMA Member ==
  ASSUME NEW S, NEW q \in Seq(S), NEW k \in DOMAIN q
  PROVE  q[k] \in S
OBVIOUS

\* Every event on its way names an item of the session.
LEMMA EventInWire ==
  ASSUME WireInv
  PROVE  /\ \A s \in Streams : \A k \in DOMAIN wire[s] : wire[s][k] \in Events /\ wire[s][k].id \in Items
         /\ \A k \in DOMAIN queue : queue[k] \in Events /\ queue[k].id \in Items
<1>1. \A s \in Streams : wire[s] \in Seq(Events)
  BY DEF WireInv
<1>2. \A s \in Streams : \A k \in DOMAIN wire[s] : wire[s][k] \in Events
  BY <1>1, Member
<1>3. \A k \in DOMAIN queue : queue[k] \in Events
  BY Member DEF WireInv
<1> QED BY <1>2, <1>3, EventFields

\* The frames of an event say of their stream and their gaps what it says.
LEMMA FramesOfShape ==
  ASSUME NEW e \in Events
  PROVE  /\ FramesOf(e) \in Seq(Events) /\ Len(FramesOf(e)) \in {1, 2}
         /\ \A n \in DOMAIN FramesOf(e) :
              FramesOf(e)[n].what = e.what /\ FramesOf(e)[n].s = e.s /\ FramesOf(e)[n].gaps = e.gaps
<1>1. ASSUME NEW ch \in Channels
      PROVE  /\ [e EXCEPT !.channel = ch] \in Events
             /\ [e EXCEPT !.channel = ch].what = e.what /\ [e EXCEPT !.channel = ch].s = e.s
             /\ [e EXCEPT !.channel = ch].gaps = e.gaps
  BY DEF Events
<1> DEFINE on(ch) == [e EXCEPT !.channel = ch]
<1>2. /\ on("refusals") \in Events /\ on("refusals").what = e.what /\ on("refusals").s = e.s /\ on("refusals").gaps = e.gaps
      /\ on("session") \in Events /\ on("session").what = e.what /\ on("session").s = e.s /\ on("session").gaps = e.gaps
      /\ on("control") \in Events /\ on("control").what = e.what /\ on("control").s = e.s /\ on("control").gaps = e.gaps
  BY <1>1 DEF Channels
<1> DEFINE r == on("refusals")
           t == on("session")
           c == on("control")
<1>3. \/ FramesOf(e) = <<r, e>> \/ FramesOf(e) = <<e, t>> \/ FramesOf(e) = <<c>> \/ FramesOf(e) = <<e>>
  BY DEF FramesOf, Events, Whats
<1> HIDE DEF on, r, t, c
<1>4. /\ r \in Events /\ r.what = e.what /\ r.s = e.s /\ r.gaps = e.gaps
      /\ t \in Events /\ t.what = e.what /\ t.s = e.s /\ t.gaps = e.gaps
      /\ c \in Events /\ c.what = e.what /\ c.s = e.s /\ c.gaps = e.gaps
  BY <1>2 DEF r, t, c
<1> DEFINE Like(x) == x \in Events /\ x.what = e.what /\ x.s = e.s /\ x.gaps = e.gaps
           Shape(f) == /\ f \in Seq(Events) /\ Len(f) \in {1, 2}
                       /\ \A n \in DOMAIN f : f[n].what = e.what /\ f[n].s = e.s /\ f[n].gaps = e.gaps
<1>5. ASSUME NEW x, Like(x) PROVE Shape(<<x>>)
  BY <1>5
<1>6. ASSUME NEW x, NEW y, Like(x), Like(y) PROVE Shape(<<x, y>>)
  <2> DEFINE f == <<x, y>>
  <2>1. f \in Seq(Events) /\ Len(f) = 2 /\ f[1] = x /\ f[2] = y /\ DOMAIN f = {1, 2}
    BY <1>6
  <2> HIDE DEF f
  <2>2. Shape(f)
    BY <1>6, <2>1
  <2> QED BY <2>2 DEF f
<1>7. Like(e) /\ Like(r) /\ Like(t) /\ Like(c)
  BY <1>4
<1> HIDE DEF Like, Shape
<1>8. Shape(FramesOf(e))
  BY <1>3, <1>5, <1>6, <1>7
<1> QED BY <1>8 DEF Shape

\* Appending one sequence to another.
LEMMA Joined ==
  ASSUME NEW S, NEW a \in Seq(S), NEW b \in Seq(S)
  PROVE  /\ a \o b \in Seq(S) /\ Len(a \o b) = Len(a) + Len(b)
         /\ \A n \in DOMAIN a : n \in DOMAIN (a \o b) /\ (a \o b)[n] = a[n]
         /\ \A n \in DOMAIN (a \o b) : n \in DOMAIN a \/ (n > Len(a) /\ (n - Len(a)) \in DOMAIN b /\ (a \o b)[n] = b[n - Len(a)])
         /\ \A n \in DOMAIN b : (Len(a) + n) \in DOMAIN (a \o b) /\ (a \o b)[Len(a) + n] = b[n]
OBVIOUS

\* The first element of a sequence taken off.
LEMMA Taken ==
  ASSUME NEW S, NEW q \in Seq(S), q # <<>>
  PROVE  /\ Head(q) \in S /\ 1 \in DOMAIN q /\ Head(q) = q[1] /\ Tail(q) \in Seq(S)
         /\ \A k \in DOMAIN Tail(q) : k + 1 \in DOMAIN q /\ Tail(q)[k] = q[k + 1]
         /\ \A k \in DOMAIN q : k = 1 \/ (k - 1 \in DOMAIN Tail(q) /\ Tail(q)[k - 1] = q[k])
OBVIOUS

-----------------------------------------------------------------------------
(* The items                                                               *)

\* The runtime only moves an item on: a step that leaves the rest alone keeps
\* ItemsInv.
LEMMA ItemsMove ==
  ASSUME ItemsInv, rtItem' \in [Items -> {"none", "open", "closed"}],
         \A i \in Items : rtItem[i] = "closed" => rtItem'[i] = "closed",
         \A i \in Items : rtItem[i] # "none" => rtItem'[i] # "none",
         WireInv, UNCHANGED <<mon, queue, call, auditLog>>, acked \subseteq acked',
         \A s \in Streams : \A k \in DOMAIN wire'[s] :
           wire'[s][k].what = "gate_resolved" => rtItem'[wire'[s][k].id] = "closed"
  PROVE  ItemsInv'
<1>1. \A k \in DOMAIN queue : queue[k].id \in Items
  BY EventInWire
<1>2. \A c \in Operators : \A k \in DOMAIN call[c].todo : call[c].todo[k] \in Items
  BY DEF ItemsInv, Calls
<1>3. \A c \in Operators : call[c].at # "idle" => Head(call[c].todo) \in Items
  BY DEF ItemsInv, Calls
<1>4. \A k \in DOMAIN queue : queue[k].what = "gate_resolved" => rtItem'[queue[k].id] = "closed"
  BY <1>1 DEF ItemsInv
<1>5. \A c \in Operators : call[c].at # "idle" =>
        call[c].todo # <<>> /\ \A k \in DOMAIN call[c].todo : rtItem'[call[c].todo[k]] # "none"
  BY <1>2 DEF ItemsInv
<1>6. \A c \in Operators : call[c].at \in {"audit", "prune"} =>
        rtItem'[Head(call[c].todo)] = "closed" /\ <<c, Head(call[c].todo)>> \in acked'
  BY <1>3 DEF ItemsInv
<1>7. \A i \in mon.taken \ mon.pending : rtItem'[i] = "closed"
  BY DEF ItemsInv
<1> QED BY <1>4, <1>5, <1>6, <1>7 DEF ItemsInv

\* An event that is sent: it is the last of its wire, or lost.
LEMMA SentWire ==
  ASSUME WireInv, LagInv, NEW s \in Streams, NEW what \in Whats, NEW i \in Items, Sent(s, what, i)
  PROVE  /\ wire' \in [Streams -> Seq(Events)]
         /\ \A t \in Streams : \A k \in DOMAIN wire'[t] :
              (k \in DOMAIN wire[t] /\ wire'[t][k] = wire[t][k])
                \/ (t = s /\ wire'[t][k] = Ev(s, what, i, driver[s].gaps))
<1> DEFINE e == Ev(s, what, i, driver[s].gaps)
<1>1. e \in Events
  BY EvType DEF LagInv
<1> HIDE DEF e
<1>2. wire' = wire \/ wire' = [wire EXCEPT ![s] = Append(@, e)]
  BY DEF Sent, e
<1>3. wire' \in [Streams -> Seq(Events)]
  <2>1. Append(wire[s], e) \in Seq(Events)
    BY <1>1 DEF WireInv
  <2> QED BY <1>2, <2>1 DEF WireInv
<1>4. ASSUME NEW t \in Streams, NEW k \in DOMAIN wire'[t]
      PROVE  (k \in DOMAIN wire[t] /\ wire'[t][k] = wire[t][k]) \/ (t = s /\ wire'[t][k] = e)
  <2>1. CASE wire'[t] = wire[t]
    BY <2>1, <1>4
  <2>2. CASE t = s /\ wire'[s] = Append(wire[s], e)
    <3>1. wire[s] \in Seq(Events)
      BY DEF WireInv
    <3>2. DOMAIN Append(wire[s], e) = 1..(Len(wire[s]) + 1) /\ DOMAIN wire[s] = 1..Len(wire[s])
      BY <3>1
    <3>3. CASE k = Len(wire[s]) + 1
      BY <2>2, <3>1, <3>3
    <3>4. CASE k # Len(wire[s]) + 1
      BY <1>4, <2>2, <3>1, <3>2, <3>4
    <3> QED BY <3>3, <3>4
  <2> QED BY <1>2, <2>1, <2>2 DEF WireInv
<1> QED BY <1>3, <1>4 DEF e

\* What the runtime sends keeps the invariant: the event carries the gaps of
\* its stream so far, and a resolution is sent of a closed item only.
LEMMA SendKeeps ==
  ASSUME HighwayInv, NEW s \in Streams, NEW what \in Whats, NEW i \in Items, Sent(s, what, i), what # "lag",
         what = "gate_resolved" => rtItem'[i] = "closed",
         rtItem' \in [Items -> {"none", "open", "closed"}],
         \A j \in Items : rtItem[j] = "closed" => rtItem'[j] = "closed",
         \A j \in Items : rtItem[j] # "none" => rtItem'[j] # "none",
         UNCHANGED <<driver, queue, mon, session, frames, ws, call, acked, auditLog>>
  PROVE  HighwayInv'
<1>1. /\ wire' \in [Streams -> Seq(Events)]
      /\ \A t \in Streams : \A k \in DOMAIN wire'[t] :
           (k \in DOMAIN wire[t] /\ wire'[t][k] = wire[t][k])
             \/ (t = s /\ wire'[t][k] = Ev(s, what, i, driver[s].gaps))
  BY SentWire DEF HighwayInv
<1> DEFINE e == Ev(s, what, i, driver[s].gaps)
<1>2. e.s = s /\ e.what = what /\ e.id = i /\ e.gaps = driver[s].gaps
  BY EvType DEF HighwayInv, LagInv
<1> HIDE DEF e
<1>3. \A t \in Streams : \A k \in DOMAIN wire'[t] :
        (k \in DOMAIN wire[t] /\ wire'[t][k] = wire[t][k]) \/ (t = s /\ wire'[t][k] = e)
  BY <1>1 DEF e
<1>4. WireInv' /\ MonitorInv' /\ SocketInv'
  BY <1>1 DEF HighwayInv, WireInv, MonitorInv, SocketInv, EndIsLast, WsAccounted
<1>5. LagInv'
  <2>1. \A t \in Streams : \A k \in DOMAIN wire'[t] :
          wire'[t][k].s = t /\ wire'[t][k].what # "lag" /\ wire'[t][k].gaps <= driver[t].gaps
    BY <1>2, <1>3 DEF HighwayInv, LagInv
  <2> QED BY <2>1 DEF HighwayInv, LagInv, LagPrecedes, LagIs
<1>6. ItemsInv'
  <2>1. \A t \in Streams : \A k \in DOMAIN wire'[t] :
          wire'[t][k].what = "gate_resolved" => rtItem'[wire'[t][k].id] = "closed"
    <3> SUFFICES ASSUME NEW t \in Streams, NEW k \in DOMAIN wire'[t], wire'[t][k].what = "gate_resolved"
                 PROVE  rtItem'[wire'[t][k].id] = "closed"
      OBVIOUS
    <3>1. CASE k \in DOMAIN wire[t] /\ wire'[t][k] = wire[t][k]
      <4>1. wire[t][k].id \in Items
        BY <3>1, EventInWire DEF HighwayInv
      <4> QED BY <3>1, <4>1 DEF HighwayInv, ItemsInv
    <3>2. CASE t = s /\ wire'[t][k] = e
      BY <1>2, <3>2
    <3> QED BY <1>3, <3>1, <3>2
  <2> QED BY <2>1, ItemsMove DEF HighwayInv
<1> QED BY <1>4, <1>5, <1>6 DEF HighwayInv

\* The runtime opens, expires and reports items.
LEMMA RuntimeKeeps ==
  ASSUME HighwayInv, (\E i \in Items : RuntimeOpens(i) \/ RuntimeExpires(i)) \/ RuntimeReports
  PROVE  HighwayInv'
<1>0. rtItem \in [Items -> {"none", "open", "closed"}]
  BY DEF HighwayInv, ItemsInv
<1>1. ASSUME NEW i \in Items, RuntimeOpens(i) PROVE HighwayInv'
  <2>1. StreamOf(i) \in Streams /\ "item" \in Whats
    BY StreamOfType DEF Whats
  <2>2. rtItem' = [rtItem EXCEPT ![i] = "open"] /\ rtItem[i] = "none" /\ Sent(StreamOf(i), "item", i)
        /\ UNCHANGED <<driver, queue, mon, session, frames, ws, call, acked, auditLog>>
    BY <1>1 DEF RuntimeOpens, Publish
  <2>3. rtItem' \in [Items -> {"none", "open", "closed"}]
        /\ (\A j \in Items : rtItem[j] = "closed" => rtItem'[j] = "closed")
        /\ (\A j \in Items : rtItem[j] # "none" => rtItem'[j] # "none")
    BY <1>0, <2>2
  <2>4. "item" # "lag" /\ "item" # "gate_resolved"
    OBVIOUS
  <2> QED BY <2>1, <2>2, <2>3, <2>4, SendKeeps
<1>2. ASSUME NEW i \in Items, RuntimeExpires(i) PROVE HighwayInv'
  <2>1. rtItem' = [rtItem EXCEPT ![i] = "closed"] /\ rtItem[i] = "open"
        /\ UNCHANGED <<driver, wire, queue, mon, session, frames, ws, call, acked, auditLog>>
    BY <1>2 DEF RuntimeExpires, monVars
  <2>2. rtItem' \in [Items -> {"none", "open", "closed"}]
        /\ (\A j \in Items : rtItem[j] = "closed" => rtItem'[j] = "closed")
        /\ (\A j \in Items : rtItem[j] # "none" => rtItem'[j] # "none")
    BY <1>0, <2>1
  <2>3. \A s \in Streams : \A k \in DOMAIN wire[s] :
          wire[s][k].what = "gate_resolved" => rtItem'[wire[s][k].id] = "closed"
    BY <2>2, EventInWire DEF HighwayInv, ItemsInv
  <2>4. ItemsInv'
    BY <2>1, <2>2, <2>3, ItemsMove DEF HighwayInv
  <2>5. LagInv'
    BY <2>1 DEF HighwayInv, LagInv, LagPrecedes, LagIs
  <2> QED BY <2>1, <2>4, <2>5 DEF HighwayInv, WireInv, MonitorInv, SocketInv, EndIsLast, WsAccounted
<1>3. ASSUME NEW s \in Streams, NEW what \in Whats \ {"lag"}, NEW i \in Items, Publish(s, what, i), UNCHANGED rtItem,
             what = "gate_resolved" => rtItem[i] = "closed"
      PROVE  HighwayInv'
  <2>1. Sent(s, what, i) /\ UNCHANGED <<driver, queue, mon, session, frames, ws, call, acked, auditLog>>
    BY <1>3 DEF Publish
  <2> QED BY <1>0, <1>3, <2>1, SendKeeps
<1>4. CASE RuntimeReports
  <2>1. "trail" \in Streams /\ "workspace_changes" \in Streams
    BY DEF Streams
  <2>2. {"refusal", "gate_resolved", "closed", "failed"} \subseteq Whats \ {"lag"}
    BY DEF Whats
  <2>3. CASE Publish("trail", "refusal", NoItem)
    BY <1>3, <1>4, <2>1, <2>2, <2>3, NoItemType DEF RuntimeReports
  <2>4. CASE \E i \in Items \ EscalationIds : rtItem[i] = "closed" /\ Publish("trail", "gate_resolved", i)
    BY <1>3, <1>4, <2>1, <2>2, <2>4 DEF RuntimeReports
  <2>5. CASE \E end \in {"closed", "failed"} : Publish("workspace_changes", end, NoItem)
    <3>1. PICK end \in {"closed", "failed"} : Publish("workspace_changes", end, NoItem)
      BY <2>5
    <3>2. end \in Whats \ {"lag"} /\ end # "gate_resolved"
      BY <2>2
    <3> QED BY <1>3, <1>4, <2>1, <3>1, <3>2, NoItemType DEF RuntimeReports
  <2> QED BY <1>4, <2>3, <2>4, <2>5 DEF RuntimeReports
<1> QED BY <1>1, <1>2, <1>4

-----------------------------------------------------------------------------
(* The drivers                                                             *)

\* A driver connects and finds the items open now.
LEMMA ConnectKeeps ==
  ASSUME HighwayInv, NEW s \in Streams, DriverConnects(s)
  PROVE  HighwayInv'
<1>1. PICK d : d = [driver[s] EXCEPT !.link = "up"]
  OBVIOUS
<1>2. driver' = [driver EXCEPT ![s] = d]
      /\ UNCHANGED <<rtItem, wire, queue, mon, frames, ws, call, acked, auditLog>>
  BY <1>1 DEF DriverConnects
<1>3. driver[s] = [link |-> driver[s].link, failures |-> driver[s].failures, gaps |-> driver[s].gaps]
  BY DEF HighwayInv, MonitorInv
<1>4. d = [link |-> d.link, failures |-> d.failures, gaps |-> d.gaps] /\ d.gaps = driver[s].gaps
  BY <1>1, <1>3
<1>5. /\ driver' = [t \in Streams |-> [link |-> driver'[t].link, failures |-> driver'[t].failures, gaps |-> driver'[t].gaps]]
      /\ \A t \in Streams : driver'[t].gaps = driver[t].gaps
  BY <1>2, <1>4 DEF HighwayInv, MonitorInv
<1>6. LagInv'
  BY <1>2, <1>5 DEF HighwayInv, LagInv, LagPrecedes, LagIs
<1>7. ItemsInv'
  BY <1>2 DEF HighwayInv, ItemsInv
<1> QED BY <1>2, <1>5, <1>6, <1>7 DEF HighwayInv, WireInv, MonitorInv, SocketInv, EndIsLast, WsAccounted

\* A driver passes an event on, or drops it and counts the gap.
LEMMA ForwardKeeps ==
  ASSUME HighwayInv, NEW s \in Streams, DriverForwards(s)
  PROVE  HighwayInv'
<1> DEFINE e == Head(wire[s])
<1>1. queue' = Append(queue, e) /\ wire' = [wire EXCEPT ![s] = Tail(wire[s])] /\ wire[s] # <<>>
      /\ UNCHANGED <<rtItem, driver, mon, frames, ws, call, acked, auditLog>>
  BY DEF DriverForwards
<1>2. wire[s] \in Seq(Events) /\ queue \in Seq(Events) /\ wire \in [Streams -> Seq(Events)]
  BY DEF HighwayInv, WireInv
<1>3. /\ e \in Events /\ 1 \in DOMAIN wire[s] /\ e = wire[s][1] /\ Tail(wire[s]) \in Seq(Events)
      /\ \A k \in DOMAIN Tail(wire[s]) : k + 1 \in DOMAIN wire[s] /\ Tail(wire[s])[k] = wire[s][k + 1]
  BY <1>1, <1>2, Taken
<1> HIDE DEF e
<1>4. wire' \in [Streams -> Seq(Events)] /\ wire'[s] = Tail(wire[s]) /\ \A t \in Streams \ {s} : wire'[t] = wire[t]
  BY <1>1, <1>2, <1>3
<1>5. \A t \in Streams : \A k \in DOMAIN wire'[t] : \E j \in DOMAIN wire[t] : wire'[t][k] = wire[t][j]
  BY <1>3, <1>4
<1>6. /\ queue' \in Seq(Events) /\ Len(queue') = Len(queue) + 1 /\ queue'[Len(queue) + 1] = e
      /\ \A k \in DOMAIN queue : k \in DOMAIN queue' /\ queue'[k] = queue[k]
      /\ \A k \in DOMAIN queue' : k \in DOMAIN queue \/ k = Len(queue) + 1
      /\ DOMAIN queue = 1..Len(queue) /\ Len(queue) \in Nat
  BY <1>1, <1>2, <1>3
<1>7. e.s = s /\ e.what # "lag" /\ e.gaps <= driver[s].gaps /\ e.gaps \in Nat /\ driver[s].gaps \in Nat
      /\ (e.what = "gate_resolved" => rtItem[e.id] = "closed")
  BY <1>3, EventFields DEF HighwayInv, LagInv, ItemsInv
<1>8. WireInv' /\ MonitorInv' /\ SocketInv'
  BY <1>1, <1>4, <1>6 DEF HighwayInv, WireInv, MonitorInv, SocketInv, EndIsLast, WsAccounted
<1>9. LagInv'
  <2>1. \A t \in Streams : \A k \in DOMAIN wire'[t] :
          wire'[t][k].s = t /\ wire'[t][k].what # "lag" /\ wire'[t][k].gaps <= driver[t].gaps
    BY <1>5 DEF HighwayInv, LagInv
  <2>2. ASSUME NEW t \in Streams, NEW g \in 1..driver[t].gaps
        PROVE  \/ \E m \in DOMAIN frames : LagIs(frames[m], t, g)
               \/ \E k \in DOMAIN queue' : LagIs(queue'[k], t, g)
    BY <1>6 DEF HighwayInv, LagInv
  <2>3. ASSUME NEW k \in DOMAIN queue', queue'[k].what # "lag", NEW g \in 1..queue'[k].gaps
        PROVE  \/ \E m \in DOMAIN frames : LagIs(frames[m], queue'[k].s, g)
               \/ \E j \in 1..(k-1) : LagIs(queue'[j], queue'[k].s, g)
    <3>1. CASE k \in DOMAIN queue
      <4>1. \/ \E m \in DOMAIN frames : LagIs(frames[m], queue[k].s, g)
            \/ \E j \in 1..(k-1) : LagIs(queue[j], queue[k].s, g)
        BY <1>6, <2>3, <3>1 DEF HighwayInv, LagInv
      <4> QED BY <1>6, <3>1, <4>1
    <3>2. CASE k = Len(queue) + 1
      <4>1. queue'[k] = e /\ g \in 1..driver[s].gaps
        BY <1>6, <1>7, <2>3, <3>2
      <4>2. \/ \E m \in DOMAIN frames : LagIs(frames[m], s, g)
            \/ \E j \in DOMAIN queue : LagIs(queue[j], s, g)
        BY <4>1 DEF HighwayInv, LagInv
      <4>3. k - 1 = Len(queue)
        BY <1>6, <3>2
      <4> QED BY <1>6, <1>7, <4>1, <4>2, <4>3
    <3> QED BY <1>6, <2>3, <3>1, <3>2
  <2>4. LagPrecedes'
    BY <1>1 DEF HighwayInv, LagInv, LagPrecedes
  <2> QED BY <1>1, <2>1, <2>2, <2>3, <2>4 DEF HighwayInv, LagInv
<1>10. ItemsInv'
  <2>1. \A t \in Streams : \A k \in DOMAIN wire'[t] :
          wire'[t][k].what = "gate_resolved" => rtItem[wire'[t][k].id] = "closed"
    BY <1>5 DEF HighwayInv, ItemsInv
  <2>2. \A k \in DOMAIN queue' : queue'[k].what = "gate_resolved" => rtItem[queue'[k].id] = "closed"
    BY <1>6, <1>7 DEF HighwayInv, ItemsInv
  <2> QED BY <1>1, <2>1, <2>2 DEF HighwayInv, ItemsInv
<1> QED BY <1>8, <1>9, <1>10 DEF HighwayInv

\* A driver announces the interruption it counts: the queue grows by events of
\* which the first is the Lag, if there is one.
LEMMA FailKeeps ==
  ASSUME HighwayInv, NEW s \in Streams, NEW clean \in BOOLEAN, DriverFails(s, clean)
  PROVE  HighwayInv'
<1> DEFINE n == driver[s].failures + 1
           lag == LagFor(s, clean)
           fatal == IF n >= FailureCap THEN <<Ev(s, "fatal", NoItem, 0)>> ELSE <<>>
           more == lag \o fatal
<1>1. PICK link : driver' = [driver EXCEPT ![s] = [link |-> link, failures |-> n, gaps |-> driver[s].gaps + (IF clean THEN 0 ELSE 1)]]
  BY DEF DriverFails, AttemptEnds
<1>2. queue' = queue \o lag \o fatal /\ wire' = [wire EXCEPT ![s] = <<>>]
      /\ UNCHANGED <<rtItem, mon, frames, ws, call, acked, auditLog>>
  BY DEF DriverFails, AttemptEnds
<1>3. driver[s].gaps \in Nat /\ queue \in Seq(Events) /\ wire \in [Streams -> Seq(Events)]
  BY DEF HighwayInv, LagInv, WireInv
<1>4. /\ Ev(s, "lag", NoItem, driver[s].gaps + 1) \in Events
      /\ LagIs(Ev(s, "lag", NoItem, driver[s].gaps + 1), s, driver[s].gaps + 1)
      /\ Ev(s, "fatal", NoItem, 0) \in Events
      /\ Ev(s, "fatal", NoItem, 0).what = "fatal" /\ Ev(s, "fatal", NoItem, 0).gaps = 0
  <2>1. "lag" \in Whats /\ "fatal" \in Whats /\ driver[s].gaps + 1 \in Nat /\ 0 \in Nat
    BY <1>3 DEF Whats
  <2>2. \A g \in Nat : Ev(s, "lag", NoItem, g) \in Events /\ LagIs(Ev(s, "lag", NoItem, g), s, g)
    BY <2>1, EvType, NoItemType DEF LagIs
  <2>3. Ev(s, "fatal", NoItem, 0) \in Events /\ Ev(s, "fatal", NoItem, 0).what = "fatal" /\ Ev(s, "fatal", NoItem, 0).gaps = 0
    BY <2>1, EvType, NoItemType
  <2> QED BY <2>1, <2>2, <2>3
<1>5. /\ lag \in Seq(Events) /\ fatal \in Seq(Events)
      /\ (clean => lag = <<>>)
      /\ (~clean => lag = <<Ev(s, "lag", NoItem, driver[s].gaps + 1)>>)
  BY <1>4 DEF LagFor
<1>6. /\ \A k \in DOMAIN lag : lag[k].what = "lag" /\ ~clean
      /\ (~clean => 1 \in DOMAIN lag /\ LagIs(lag[1], s, driver[s].gaps + 1))
  BY <1>4, <1>5 DEF LagIs
<1>7. \A k \in DOMAIN fatal : fatal[k].what = "fatal" /\ fatal[k].gaps = 0
  BY <1>4
<1> HIDE DEF n, lag, fatal
<1>8. /\ more \in Seq(Events)
      /\ \A k \in DOMAIN more : more[k].what = "lag" \/ (more[k].what = "fatal" /\ more[k].gaps = 0)
      /\ (~clean => 1 \in DOMAIN more /\ LagIs(more[1], s, driver[s].gaps + 1))
  <2>1. /\ lag \o fatal \in Seq(Events)
        /\ \A k \in DOMAIN lag : k \in DOMAIN (lag \o fatal) /\ (lag \o fatal)[k] = lag[k]
        /\ \A k \in DOMAIN (lag \o fatal) : k \in DOMAIN lag \/ ((k - Len(lag)) \in DOMAIN fatal /\ (lag \o fatal)[k] = fatal[k - Len(lag)])
    BY <1>5, Joined
  <2> QED BY <2>1, <1>6, <1>7
<1>9. queue' = queue \o more
  <2>1. PICK l \in Seq(Events), f \in Seq(Events) : l = lag /\ f = fatal
    BY <1>5
  <2>2. PICK q \in Seq(Events) : q = queue
    BY <1>3
  <2>3. (q \o l) \o f = q \o (l \o f)
    BY ConcatAssociative
  <2> QED
    BY <2>1, <2>2, <2>3, <1>2
<1> HIDE DEF more
<1>10. /\ queue' \in Seq(Events)
       /\ \A k \in DOMAIN queue : k \in DOMAIN queue' /\ queue'[k] = queue[k]
       /\ \A k \in DOMAIN queue' : k \in DOMAIN queue \/ (k > Len(queue) /\ (k - Len(queue)) \in DOMAIN more /\ queue'[k] = more[k - Len(queue)])
       /\ \A k \in DOMAIN more : (Len(queue) + k) \in DOMAIN queue' /\ queue'[Len(queue) + k] = more[k]
  BY <1>3, <1>8, <1>9, Joined
<1>11. wire' \in [Streams -> Seq(Events)] /\ \A t \in Streams : \A k \in DOMAIN wire'[t] : t # s /\ wire'[t] = wire[t]
  BY <1>2, <1>3
<1>12. /\ driver' = [t \in Streams |-> [link |-> driver'[t].link, failures |-> driver'[t].failures, gaps |-> driver'[t].gaps]]
       /\ driver'[s].gaps = driver[s].gaps + (IF clean THEN 0 ELSE 1)
       /\ \A t \in Streams \ {s} : driver'[t].gaps = driver[t].gaps
  BY <1>1 DEF HighwayInv, MonitorInv
<1>13. WireInv' /\ MonitorInv' /\ SocketInv'
  BY <1>2, <1>10, <1>11, <1>12 DEF HighwayInv, WireInv, MonitorInv, SocketInv, EndIsLast, WsAccounted
<1>14. LagInv'
  <2>1. \A t \in Streams : driver'[t].gaps \in Nat
    <3>1. driver'[s].gaps \in Nat
      <4>1. driver[s].gaps + 0 \in Nat /\ driver[s].gaps + 1 \in Nat
        BY <1>3
      <4> QED BY <1>12, <4>1
    <3>2. \A t \in Streams \ {s} : driver'[t].gaps \in Nat
      BY <1>12 DEF HighwayInv, LagInv
    <3> QED BY <3>1, <3>2
  <2>2. \A t \in Streams : \A k \in DOMAIN wire'[t] :
          wire'[t][k].s = t /\ wire'[t][k].what # "lag" /\ wire'[t][k].gaps <= driver'[t].gaps
    BY <1>11, <1>12 DEF HighwayInv, LagInv
  <2>3. ASSUME NEW t \in Streams, NEW g \in 1..driver'[t].gaps
        PROVE  \/ \E m \in DOMAIN frames : LagIs(frames[m], t, g)
               \/ \E k \in DOMAIN queue' : LagIs(queue'[k], t, g)
    <3>1. CASE g \in 1..driver[t].gaps
      BY <1>10, <3>1 DEF HighwayInv, LagInv
    <3>2. CASE g \notin 1..driver[t].gaps
      <4>1. t = s /\ ~clean /\ g = driver[s].gaps + 1
        BY <1>3, <1>12, <3>2
      <4> QED BY <1>8, <1>10, <4>1
    <3> QED BY <3>1, <3>2
  <2>4. ASSUME NEW k \in DOMAIN queue', queue'[k].what # "lag", NEW g \in 1..queue'[k].gaps
        PROVE  \/ \E m \in DOMAIN frames : LagIs(frames[m], queue'[k].s, g)
               \/ \E j \in 1..(k-1) : LagIs(queue'[j], queue'[k].s, g)
    <3>1. CASE k \in DOMAIN queue
      <4>1. \/ \E m \in DOMAIN frames : LagIs(frames[m], queue[k].s, g)
            \/ \E j \in 1..(k-1) : LagIs(queue[j], queue[k].s, g)
        BY <1>10, <2>4, <3>1 DEF HighwayInv, LagInv
      <4>2. \A j \in 1..(k-1) : j \in DOMAIN queue
        BY <1>3, <3>1
      <4> QED BY <1>10, <3>1, <4>1, <4>2
    <3>2. CASE k \notin DOMAIN queue
      <4>1. queue'[k].gaps = 0
        BY <1>8, <1>10, <2>4, <3>2
      <4> QED BY <2>4, <4>1
    <3> QED BY <3>1, <3>2
  <2>5. LagPrecedes'
    BY <1>2 DEF HighwayInv, LagInv, LagPrecedes
  <2> QED BY <1>2, <2>1, <2>2, <2>3, <2>4, <2>5 DEF LagInv
<1>15. ItemsInv'
  <2>1. \A t \in Streams : \A k \in DOMAIN wire'[t] :
          wire'[t][k].what = "gate_resolved" => rtItem[wire'[t][k].id] = "closed"
    BY <1>11 DEF HighwayInv, ItemsInv
  <2>2. \A k \in DOMAIN queue' : queue'[k].what = "gate_resolved" => rtItem[queue'[k].id] = "closed"
    BY <1>8, <1>10 DEF HighwayInv, ItemsInv
  <2> QED BY <1>2, <2>1, <2>2 DEF HighwayInv, ItemsInv
<1> QED BY <1>13, <1>14, <1>15 DEF HighwayInv

-----------------------------------------------------------------------------
(* The monitor's loop                                                      *)

\* The monitor stops.
LEMMA ShutdownKeeps ==
  ASSUME HighwayInv, MonitorShutdown
  PROVE  HighwayInv'
<1>1. mon' = [mon EXCEPT !.on = FALSE] /\ UNCHANGED <<rtItem, driver, wire, queue, frames, ws, call, acked, auditLog>>
  BY DEF MonitorShutdown
<1>2. mon = [on |-> mon.on, pending |-> mon.pending, refusals |-> mon.refusals, taken |-> mon.taken]
  BY DEF HighwayInv, MonitorInv
<1>3. /\ mon' = [on |-> mon'.on, pending |-> mon'.pending, refusals |-> mon'.refusals, taken |-> mon'.taken]
      /\ mon'.on = FALSE /\ mon'.pending = mon.pending /\ mon'.taken = mon.taken
  BY <1>1, <1>2
<1>4. LagInv'
  BY <1>1 DEF HighwayInv, LagInv, LagPrecedes, LagIs
<1>5. ItemsInv'
  BY <1>1, <1>3 DEF HighwayInv, ItemsInv
<1> QED BY <1>1, <1>3, <1>4, <1>5 DEF HighwayInv, WireInv, MonitorInv, SocketInv, EndIsLast, WsAccounted

\* The monitor takes an event off its channel.
LEMMA HandleKeeps ==
  ASSUME HighwayInv, MonitorHandles
  PROVE  HighwayInv'
<1> DEFINE e == Head(queue)
           f == FramesOf(e)
<1>1. /\ mon.on /\ queue # <<>> /\ queue' = Tail(queue) /\ frames' = frames \o f
      /\ UNCHANGED <<rtItem, driver, wire, ws, call, acked, auditLog>>
  BY DEF MonitorHandles
<1>2. /\ mon = [on |-> mon.on, pending |-> mon.pending, refusals |-> mon.refusals, taken |-> mon.taken]
      /\ queue \in Seq(Events) /\ frames \in Seq(Events)
  BY DEF HighwayInv, MonitorInv, WireInv
<1>3. /\ e \in Events /\ 1 \in DOMAIN queue /\ e = queue[1] /\ queue' \in Seq(Events)
      /\ \A k \in DOMAIN queue' : k + 1 \in DOMAIN queue /\ queue'[k] = queue[k + 1]
      /\ \A k \in DOMAIN queue : k = 1 \/ (k - 1 \in DOMAIN queue' /\ queue'[k - 1] = queue[k])
  BY <1>1, <1>2, Taken
<1>4. /\ mon' = [on |-> mon'.on, pending |-> mon'.pending, refusals |-> mon'.refusals, taken |-> mon'.taken]
      /\ mon'.on = LoopGoesOn(e) /\ mon'.pending = PendingAfter(e)
      /\ mon'.taken = IF e.what = "item" THEN mon.taken \cup {e.id} ELSE mon.taken
  BY <1>2 DEF MonitorHandles
<1> HIDE DEF e
<1>5. /\ f \in Seq(Events) /\ Len(f) \in {1, 2}
      /\ \A k \in DOMAIN f : f[k].what = e.what /\ f[k].s = e.s /\ f[k].gaps = e.gaps
  BY <1>3, FramesOfShape
<1> HIDE DEF f
<1>6. /\ frames' \in Seq(Events) /\ Len(frames') = Len(frames) + Len(f)
      /\ \A k \in DOMAIN frames : k \in DOMAIN frames' /\ frames'[k] = frames[k]
      /\ \A k \in DOMAIN frames' : k \in DOMAIN frames \/ (k > Len(frames) /\ (k - Len(frames)) \in DOMAIN f /\ frames'[k] = f[k - Len(frames)])
      /\ \A k \in DOMAIN f : (Len(frames) + k) \in DOMAIN frames' /\ frames'[Len(frames) + k] = f[k]
  BY <1>1, <1>2, <1>5, Joined
<1>7. \A k \in DOMAIN frames' :
        \/ k \in DOMAIN frames /\ frames'[k] = frames[k]
        \/ k > Len(frames) /\ frames'[k].what = e.what /\ frames'[k].s = e.s /\ frames'[k].gaps = e.gaps
  BY <1>5, <1>6
<1>8. e.s \in Streams /\ e.what \in Whats /\ e.id \in Items /\ e.gaps \in Nat
  BY <1>3, EventFields
<1>9. DOMAIN frames = 1..Len(frames) /\ Len(frames) \in Nat /\ DOMAIN frames' = 1..Len(frames') /\ 1 \in DOMAIN f
  BY <1>2, <1>5, <1>6
<1>10. MonitorInv'
  <2>1. mon'.on => e.what \notin {"closed", "failed", "fatal"}
    BY <1>4 DEF LoopGoesOn, Verdict
  <2>2. \A k \in DOMAIN frames : frames[k].what \notin {"closed", "failed", "fatal"}
    BY <1>1 DEF HighwayInv, MonitorInv
  <2>3. mon'.on => \A k \in DOMAIN frames' : frames'[k].what \notin {"closed", "failed", "fatal"}
    BY <1>7, <2>1, <2>2
  <2>4. EndIsLast'
    <3> SUFFICES ASSUME NEW k \in DOMAIN frames', frames'[k].what \in {"closed", "failed", "fatal"}
                 PROVE  k >= Len(frames') - 1
      BY DEF EndIsLast
    <3>1. k > Len(frames) /\ k \in Nat
      BY <1>7, <1>9, <2>2
    <3>2. Len(frames') <= Len(frames) + 2
      BY <1>5, <1>6, <1>9
    <3> QED BY <1>9, <3>1, <3>2, <1>6, <1>5
  <2> QED BY <1>1, <1>4, <2>3, <2>4 DEF HighwayInv, MonitorInv
<1>11. SocketInv'
  <2>1. ws.pos \in Nat /\ ws.pos <= Len(frames)
    BY DEF HighwayInv, SocketInv
  <2>2. ws.pos <= Len(frames')
    BY <2>1, <1>5, <1>6, <1>9
  <2> QED BY <1>1, <2>2 DEF HighwayInv, SocketInv, WsAccounted
<1>12. LagInv'
  <2>1. ASSUME NEW t, NEW g, \E k \in DOMAIN frames : LagIs(frames[k], t, g)
        PROVE  \E k \in DOMAIN frames' : LagIs(frames'[k], t, g)
    BY <1>6, <2>1
  <2>2. ASSUME NEW t, NEW g, LagIs(e, t, g)
        PROVE  \E k \in DOMAIN frames' : LagIs(frames'[k], t, g)
    <3>1. Len(frames) + 1 \in DOMAIN frames' /\ frames'[Len(frames) + 1] = f[1]
      BY <1>6, <1>9
    <3>2. LagIs(f[1], t, g)
      BY <1>5, <1>9, <2>2 DEF LagIs
    <3> QED BY <3>1, <3>2
  <2>3. ASSUME NEW t \in Streams, NEW g \in 1..driver[t].gaps
        PROVE  \/ \E m \in DOMAIN frames' : LagIs(frames'[m], t, g)
               \/ \E k \in DOMAIN queue' : LagIs(queue'[k], t, g)
    <3>1. CASE \E m \in DOMAIN frames : LagIs(frames[m], t, g)
      BY <2>1, <3>1
    <3>2. CASE \E k \in DOMAIN queue : LagIs(queue[k], t, g)
      BY <1>3, <2>2, <3>2
    <3> QED BY <3>1, <3>2 DEF HighwayInv, LagInv
  <2>4. ASSUME NEW k \in DOMAIN queue', queue'[k].what # "lag", NEW g \in 1..queue'[k].gaps
        PROVE  \/ \E m \in DOMAIN frames' : LagIs(frames'[m], queue'[k].s, g)
               \/ \E j \in 1..(k-1) : LagIs(queue'[j], queue'[k].s, g)
    <3>1. k + 1 \in DOMAIN queue /\ queue'[k] = queue[k + 1] /\ k \in Nat
      BY <1>3
    <3>2. \/ \E m \in DOMAIN frames : LagIs(frames[m], queue'[k].s, g)
          \/ \E j \in 1..((k+1)-1) : LagIs(queue[j], queue'[k].s, g)
      BY <2>4, <3>1 DEF HighwayInv, LagInv
    <3>3. CASE \E m \in DOMAIN frames : LagIs(frames[m], queue'[k].s, g)
      BY <2>1, <3>3
    <3>4. ASSUME NEW j \in 1..((k+1)-1), LagIs(queue[j], queue'[k].s, g)
          PROVE  \/ \E m \in DOMAIN frames' : LagIs(frames'[m], queue'[k].s, g)
                 \/ \E i \in 1..(k-1) : LagIs(queue'[i], queue'[k].s, g)
      <4>1. CASE j = 1
        BY <1>3, <2>2, <3>4, <4>1
      <4>2. CASE j # 1
        <5>1. j \in DOMAIN queue /\ j - 1 \in 1..(k-1)
          BY <1>2, <3>1, <3>4, <4>2
        <5>2. queue'[j - 1] = queue[j]
          BY <1>3, <4>2, <5>1
        <5> QED BY <3>4, <5>1, <5>2
      <4> QED BY <4>1, <4>2
    <3> QED BY <3>2, <3>3, <3>4
  <2>5. LagPrecedes'
    <3> SUFFICES ASSUME NEW n \in DOMAIN frames', frames'[n].what # "lag", NEW g \in 1..frames'[n].gaps
                 PROVE  \E m \in 1..n : LagIs(frames'[m], frames'[n].s, g)
      BY DEF LagPrecedes, LagIs
    <3>1. CASE n \in DOMAIN frames
      <4>1. PICK m \in 1..n : LagIs(frames[m], frames[n].s, g)
        BY <1>6, <3>1 DEF HighwayInv, LagInv, LagPrecedes, LagIs
      <4>2. m \in DOMAIN frames
        BY <1>9, <3>1
      <4> QED BY <1>6, <3>1, <4>1, <4>2
    <3>2. CASE n \notin DOMAIN frames
      <4>1. n > Len(frames) /\ n \in Nat /\ frames'[n].what = e.what /\ frames'[n].s = e.s /\ frames'[n].gaps = e.gaps
        BY <1>7, <1>9, <3>2
      <4>2. \/ \E m \in DOMAIN frames : LagIs(frames[m], e.s, g)
            \/ \E j \in 1..(1-1) : LagIs(queue[j], e.s, g)
        BY <1>3, <4>1 DEF HighwayInv, LagInv
      <4>3. PICK m \in DOMAIN frames : LagIs(frames[m], e.s, g)
        BY <4>2
      <4>4. m \in 1..n /\ frames'[m] = frames[m]
        BY <1>6, <1>9, <4>1
      <4> QED BY <4>1, <4>3, <4>4
    <3> QED BY <3>1, <3>2
  <2> QED BY <1>1, <2>3, <2>4, <2>5 DEF HighwayInv, LagInv
<1>13. ItemsInv'
  <2>1. \A k \in DOMAIN queue' : queue'[k].what = "gate_resolved" => rtItem[queue'[k].id] = "closed"
    BY <1>3 DEF HighwayInv, ItemsInv
  <2>2. e.what = "gate_resolved" => rtItem[e.id] = "closed"
    BY <1>3 DEF HighwayInv, ItemsInv
  <2>3. mon'.taken \subseteq Items /\ \A i \in mon'.taken \ mon'.pending : rtItem[i] = "closed"
    <3>1. mon.taken \subseteq Items /\ \A i \in mon.taken \ mon.pending : rtItem[i] = "closed"
      BY DEF HighwayInv, ItemsInv
    <3>2. CASE e.what = "item"
      BY <1>4, <1>8, <3>1, <3>2 DEF PendingAfter
    <3>3. CASE e.what = "gate_resolved"
      BY <1>4, <1>8, <2>2, <3>1, <3>3 DEF PendingAfter
    <3>4. CASE e.what # "item" /\ e.what # "gate_resolved"
      BY <1>4, <1>8, <3>1, <3>4 DEF PendingAfter
    <3> QED BY <3>2, <3>3, <3>4
  <2> QED BY <1>1, <2>1, <2>3 DEF HighwayInv, ItemsInv
<1>14. WireInv'
  BY <1>1, <1>3, <1>6 DEF HighwayInv, WireInv
<1> QED BY <1>10, <1>11, <1>12, <1>13, <1>14 DEF HighwayInv

-----------------------------------------------------------------------------
(* The socket                                                              *)

SocketRecords == [at : {"off", "open", "deaf", "gone"}, start : Nat, pos : Nat, got : Seq(Nat), missed : Nat]

\* Sums that stay equal.
LEMMA Balance ==
  ASSUME NEW l \in Nat, NEW m \in Nat, NEW x \in Nat, NEW y \in Nat, l + m = x - y, NEW k \in Nat
  PROVE  l + (m + (k - x)) = k - y /\ (l + 1) + m = (x + 1) - y
OBVIOUS

\* A step of the socket alone.
LEMMA SocketOnly ==
  ASSUME HighwayInv, UNCHANGED <<rtItem, driver, wire, queue, mon, frames, call, acked, auditLog>>, SocketInv'
  PROVE  HighwayInv'
<1>1. LagInv'
  BY DEF HighwayInv, LagInv, LagPrecedes, LagIs
<1>2. ItemsInv'
  BY DEF HighwayInv, ItemsInv
<1> QED BY <1>1, <1>2 DEF HighwayInv, WireInv, MonitorInv, EndIsLast

\* A socket subscribes, sends and closes.
LEMMA WsKeeps ==
  ASSUME HighwayInv, WsNext
  PROVE  HighwayInv'
<1>0. UNCHANGED <<rtItem, driver, wire, queue, mon, frames, call, acked, auditLog>>
  BY DEF WsNext, WsConnect, WsForward, WsDisconnect, monVars
<1>1. ws \in SocketRecords /\ ws.start <= ws.pos /\ ws.pos <= Len(frames) /\ WsAccounted
      /\ (\A n \in DOMAIN ws.got : ws.got[n] <= ws.pos)
  BY DEF HighwayInv, SocketInv, SocketRecords
<1>2. Len(frames) \in Nat /\ ws.pos \in Nat /\ ws.start \in Nat /\ ws.missed \in Nat /\ ws.got \in Seq(Nat) /\ Len(ws.got) \in Nat
  BY <1>1 DEF HighwayInv, WireInv, SocketRecords
<1>a. Len(ws.got) + ws.missed = ws.pos - ws.start
  BY <1>1 DEF WsAccounted
<1>b. PICK l \in Nat, z \in Nat, x \in Nat, y \in Nat :
        l = Len(ws.got) /\ z = ws.missed /\ x = ws.pos /\ y = ws.start
  BY <1>2
<1>c. l + z = x - y
  BY <1>a, <1>b
<1>3. CASE WsConnect
  <2>1. ws'.start = Len(frames) /\ ws'.pos = Len(frames) /\ ws'.got = <<>> /\ ws'.missed = 0 /\ ws' \in SocketRecords
    BY <1>2, <1>3 DEF WsConnect, SocketRecords
  <2>2. SocketInv'
    BY <1>0, <1>2, <2>1 DEF SocketInv, WsAccounted, SocketRecords
  <2> QED BY <1>0, <2>2, SocketOnly
<1>4. CASE WsDisconnect
  <2>1. ws' \in SocketRecords /\ ws'.start = ws.start /\ ws'.pos = ws.pos /\ ws'.got = ws.got /\ ws'.missed = ws.missed
    BY <1>1, <1>4 DEF WsDisconnect, SocketRecords
  <2>2. SocketInv'
    BY <1>0, <1>1, <2>1 DEF SocketInv, WsAccounted, SocketRecords
  <2> QED BY <1>0, <2>2, SocketOnly
<1>5. CASE WsForward /\ Len(frames) - ws.pos > BroadcastCap
  <2> DEFINE p == Len(frames) - BroadcastCap
             q == ws.missed + (Len(frames) - BroadcastCap - ws.pos)
  <2>1. p \in Nat /\ q \in Nat /\ p > ws.pos /\ p <= Len(frames) /\ q = ws.missed + (p - ws.pos)
    BY <1>2, <1>5, HighwayAssumption
  <2>2. ws' = [ws EXCEPT !.pos = p, !.missed = q]
    BY <1>5 DEF WsForward, WsLagged
  <2> HIDE DEF p, q
  <2>3. ws' \in SocketRecords /\ ws'.start = ws.start /\ ws'.pos = p /\ ws'.got = ws.got /\ ws'.missed = q
    BY <1>1, <2>1, <2>2 DEF SocketRecords
  <2>4. \A n \in DOMAIN ws.got : ws.got[n] <= p
    BY <1>1, <1>2, <2>1
  <2>5. Len(ws.got) + q = p - ws.start
    <3>1. Len(ws.got) + (ws.missed + (p - ws.pos)) = p - ws.start
      <4>1. l + (z + (p - x)) = p - y
        BY <1>c, <2>1, Balance
      <4> QED BY <1>b, <4>1, Zenon
    <3> QED BY <2>1, <3>1, Zenon
  <2>6. SocketInv'
    BY <1>0, <1>1, <1>2, <2>1, <2>3, <2>4, <2>5 DEF SocketInv, WsAccounted, SocketRecords
  <2> QED BY <1>0, <2>6, SocketOnly
<1>6. CASE WsForward /\ ~(Len(frames) - ws.pos > BroadcastCap)
  <2> DEFINE p == ws.pos + 1
             got == Append(ws.got, ws.pos + 1)
  <2>1. ws' = [ws EXCEPT !.pos = p, !.got = got] /\ p <= Len(frames) /\ p \in Nat
    BY <1>2, <1>6 DEF WsForward
  <2>2. /\ got \in Seq(Nat) /\ Len(got) = Len(ws.got) + 1 /\ got[Len(ws.got) + 1] = p
        /\ \A n \in DOMAIN got : n = Len(ws.got) + 1 \/ (n \in DOMAIN ws.got /\ got[n] = ws.got[n])
        /\ DOMAIN got = 1..(Len(ws.got) + 1) /\ DOMAIN ws.got = 1..Len(ws.got)
    BY <1>2
  <2> HIDE DEF p, got
  <2>3. ws' \in SocketRecords /\ ws'.start = ws.start /\ ws'.pos = p /\ ws'.got = got /\ ws'.missed = ws.missed
    BY <1>1, <2>1, <2>2 DEF SocketRecords
  <2>4. \A n \in DOMAIN ws.got : ws.got[n] < p /\ ws.got[n] \in Nat
    BY <1>1, <1>2 DEF p
  <2>5. \A n \in DOMAIN got : got[n] <= p
    <3> SUFFICES ASSUME NEW n \in DOMAIN got PROVE got[n] <= p
      OBVIOUS
    <3>1. CASE n = Len(ws.got) + 1
      BY <2>1, <2>2, <3>1
    <3>2. CASE n # Len(ws.got) + 1
      <4>1. n \in DOMAIN ws.got /\ got[n] = ws.got[n]
        BY <2>2, <3>2
      <4>2. got[n] < p /\ got[n] \in Nat
        BY <2>4, <4>1
      <4> QED
        BY <2>1, <4>2
    <3> QED
      BY <3>1, <3>2
  <2>6. \A n, m \in DOMAIN got : n < m => got[n] < got[m]
    <3> SUFFICES ASSUME NEW n \in DOMAIN got, NEW m \in DOMAIN got, n < m PROVE got[n] < got[m]
      OBVIOUS
    <3>0. n \in 1..(Len(ws.got) + 1) /\ m \in 1..(Len(ws.got) + 1)
      BY <2>2
    <3>1. n \in DOMAIN ws.got /\ got[n] = ws.got[n]
      <4>1. n # Len(ws.got) + 1
        BY <1>2, <3>0
      <4> QED BY <2>2, <4>1
    <3>2. CASE m = Len(ws.got) + 1
      BY <2>2, <2>4, <3>1, <3>2
    <3>3. CASE m \in DOMAIN ws.got /\ got[m] = ws.got[m]
      BY <1>1, <3>1, <3>3 DEF WsAccounted
    <3> QED BY <2>2, <3>2, <3>3
  <2>7. Len(got) + ws.missed = p - ws.start
    <3>1. (Len(ws.got) + 1) + ws.missed = (ws.pos + 1) - ws.start
      <4>1. (l + 1) + z = (x + 1) - y
        BY <1>c, Balance
      <4> QED BY <1>b, <4>1, Zenon
    <3> QED BY <2>2, <3>1, Zenon DEF p
  <2>8. SocketInv'
    BY <1>0, <1>1, <1>2, <2>1, <2>3, <2>5, <2>6, <2>7 DEF SocketInv, WsAccounted, SocketRecords, p
  <2> QED BY <1>0, <2>8, SocketOnly
<1> QED BY <1>3, <1>4, <1>5, <1>6 DEF WsNext

-----------------------------------------------------------------------------
(* The handlers                                                            *)

\* What ItemsInv says of one handler.
CallInv(c, r, items, acks) ==
  /\ r \in Calls
  /\ r.at # "idle" => r.todo # <<>> /\ \A k \in DOMAIN r.todo : items[r.todo[k]] # "none"
  /\ r.at \in {"audit", "prune"} => items[Head(r.todo)] = "closed" /\ <<c, Head(r.todo)>> \in acks

\* A step of one handler.
LEMMA HandlerOnly ==
  ASSUME HighwayInv, UNCHANGED <<driver, wire, queue, frames, ws>>,
         rtItem' \in [Items -> {"none", "open", "closed"}],
         \A i \in Items : rtItem[i] = "closed" => rtItem'[i] = "closed",
         \A i \in Items : rtItem[i] # "none" => rtItem'[i] # "none",
         mon' = [on |-> mon'.on, pending |-> mon'.pending, refusals |-> mon'.refusals, taken |-> mon'.taken],
         mon'.on = mon.on, mon'.taken = mon.taken, acked \subseteq acked', auditLog' \subseteq acked',
         \A i \in mon.pending \ mon'.pending : rtItem'[i] = "closed",
         NEW c \in Operators, NEW r, call' = [call EXCEPT ![c] = r], CallInv(c, r, rtItem', acked')
  PROVE  HighwayInv'
<1>1. LagInv'
  BY DEF HighwayInv, LagInv, LagPrecedes, LagIs
<1>2. ItemsInv'
  <2>1. call \in [Operators -> Calls] /\ call' \in [Operators -> Calls]
    BY DEF HighwayInv, ItemsInv, CallInv
  <2>2. \A d \in Operators : d # c => CallInv(d, call[d], rtItem', acked')
    <3> SUFFICES ASSUME NEW d \in Operators PROVE CallInv(d, call[d], rtItem', acked')
      OBVIOUS
    <3>1. call[d].todo \in Seq(Items) /\ call[d] \in Calls
      BY <2>1 DEF Calls
    <3>2. \A k \in DOMAIN call[d].todo : call[d].todo[k] \in Items
      BY <3>1
    <3>3. call[d].at # "idle" => Head(call[d].todo) \in Items
      BY <3>1 DEF HighwayInv, ItemsInv
    <3> QED BY <3>1, <3>2, <3>3 DEF HighwayInv, ItemsInv, CallInv
  <2>3. \A d \in Operators : CallInv(d, call'[d], rtItem', acked')
    BY <2>1, <2>2
  <2>4. \A i \in mon'.taken \ mon'.pending : rtItem'[i] = "closed"
    BY DEF HighwayInv, ItemsInv
  <2>5. \A s \in Streams : \A k \in DOMAIN wire[s] : wire[s][k].what = "gate_resolved" => rtItem'[wire[s][k].id] = "closed"
    BY EventInWire DEF HighwayInv, ItemsInv
  <2>6. \A k \in DOMAIN queue : queue[k].what = "gate_resolved" => rtItem'[queue[k].id] = "closed"
    BY EventInWire DEF HighwayInv, ItemsInv
  <2>7. mon'.taken \subseteq Items
    BY DEF HighwayInv, ItemsInv
  <2> QED BY <2>1, <2>3, <2>4, <2>5, <2>6, <2>7 DEF ItemsInv, CallInv
<1>3. MonitorInv'
  BY DEF HighwayInv, MonitorInv, EndIsLast
<1> QED BY <1>1, <1>2, <1>3 DEF HighwayInv, WireInv, SocketInv, WsAccounted

\* Steps that leave the monitor alone leave its record well-formed.
LEMMA MonSame ==
  ASSUME HighwayInv, UNCHANGED mon
  PROVE  /\ mon' = [on |-> mon'.on, pending |-> mon'.pending, refusals |-> mon'.refusals, taken |-> mon'.taken]
         /\ mon'.on = mon.on /\ mon'.taken = mon.taken /\ mon'.pending = mon.pending
BY DEF HighwayInv, MonitorInv

\* The next item of a handler, or none.
LEMMA NextItemShape ==
  ASSUME HighwayInv, NEW c \in Operators, call[c].at # "idle"
  PROVE  CallInv(c, NextItem(c), rtItem, acked)
<1>1. call[c] \in Calls /\ call[c].todo \in Seq(Items) /\ call[c].todo # <<>>
      /\ \A k \in DOMAIN call[c].todo : rtItem[call[c].todo[k]] # "none"
  BY DEF HighwayInv, ItemsInv, Calls
<1>2. CASE Len(call[c].todo) = 1
  <2>1. NextItem(c) = [call[c] EXCEPT !.at = "idle", !.todo = <<>>]
    BY <1>2 DEF NextItem
  <2>2. NextItem(c) \in Calls /\ NextItem(c).at = "idle"
    <3>1. PICK r : r = [call[c] EXCEPT !.at = "idle"]
      OBVIOUS
    <3>2. r \in Calls /\ r.at = "idle"
      BY <1>1, <3>1 DEF Calls
    <3>3. NextItem(c) = [r EXCEPT !.todo = <<>>]
      BY <2>1, <3>1
    <3>4. <<>> \in Seq(Items)
      OBVIOUS
    <3>5. PICK none : none = <<>>
      OBVIOUS
    <3>6. NextItem(c) = [r EXCEPT !.todo = none] /\ none \in Seq(Items)
      BY <3>3, <3>4, <3>5
    <3> QED BY <3>2, <3>6 DEF Calls
  <2> QED BY <2>2 DEF CallInv
<1>3. CASE Len(call[c].todo) # 1
  <2>1. PICK rest : rest = Tail(call[c].todo)
    OBVIOUS
  <2>2. rest \in Seq(Items) /\ rest # <<>> /\ \A k \in DOMAIN rest : k + 1 \in DOMAIN call[c].todo /\ rest[k] = call[c].todo[k + 1]
    <3>1. ASSUME NEW q \in Seq(Items), q # <<>>, Len(q) # 1
          PROVE  /\ Tail(q) \in Seq(Items) /\ Tail(q) # <<>>
                 /\ \A k \in DOMAIN Tail(q) : k + 1 \in DOMAIN q /\ Tail(q)[k] = q[k + 1]
      <4>1. Len(q) \in Nat /\ Len(q) # 0
        BY <3>1
      <4>2. Len(Tail(q)) = Len(q) - 1 /\ Len(<<>>) = 0
        BY <3>1
      <4>3. Len(q) - 1 # 0
        BY <3>1, <4>1
      <4>5. Tail(q) # <<>>
        BY <4>2, <4>3, Zenon
      <4> QED BY <3>1, <4>5, Taken
    <3> QED BY <1>1, <1>3, <2>1, <3>1
  <2>3. NextItem(c) = [call[c] EXCEPT !.at = "rpc", !.todo = rest]
    BY <1>3, <2>1 DEF NextItem
  <2>4. NextItem(c) \in Calls /\ NextItem(c).at = "rpc" /\ NextItem(c).todo = rest
    BY <1>1, <2>2, <2>3 DEF Calls
  <2> QED BY <1>1, <2>2, <2>4 DEF CallInv
<1> QED BY <1>2, <1>3

\* Each await of an operator's answer.
LEMMA AnswerKeeps ==
  ASSUME HighwayInv, NEW c \in Operators, StartAnswer(c) \/ AnswerRpc(c) \/ AnswerAudit(c) \/ AnswerPrune(c)
  PROVE  HighwayInv'
<1>0. /\ rtItem \in [Items -> {"none", "open", "closed"}] /\ call[c] \in Calls /\ auditLog \subseteq acked
      /\ CallInv(c, call[c], rtItem, acked) /\ call[c].todo \in Seq(Items)
  BY DEF HighwayInv, ItemsInv, CallInv, Calls
<1>1. CASE StartAnswer(c)
  <2>1. PICK batch \in BOOLEAN : \E todo \in UNION {[1..n -> Items] : n \in 1..MaxBatch} :
          /\ \A n \in DOMAIN todo : rtItem[todo[n]] # "none"
          /\ call' = [call EXCEPT ![c] = [at |-> "rpc", todo |-> todo, batch |-> batch]]
    BY <1>1 DEF StartAnswer
  <2>2. PICK todo \in UNION {[1..n -> Items] : n \in 1..MaxBatch} :
          /\ \A n \in DOMAIN todo : rtItem[todo[n]] # "none"
          /\ call' = [call EXCEPT ![c] = [at |-> "rpc", todo |-> todo, batch |-> batch]]
    BY <2>1
  <2>3. PICK n \in 1..MaxBatch : todo \in [1..n -> Items]
    OBVIOUS
  <2>4. todo \in Seq(Items) /\ todo # <<>>
    BY <2>3, HighwayAssumption
  <2> DEFINE r == [at |-> "rpc", todo |-> todo, batch |-> batch]
  <2>5. r \in Calls /\ r.at = "rpc" /\ r.todo = todo
    BY <2>4 DEF Calls
  <2>6. call' = [call EXCEPT ![c] = r]
    BY <2>2
  <2> HIDE DEF r
  <2>7. UNCHANGED <<rtItem, driver, wire, queue, mon, frames, ws, acked, auditLog>>
    BY <1>1 DEF StartAnswer, monVars
  <2>8. CallInv(c, r, rtItem', acked')
    BY <2>2, <2>4, <2>5, <2>7 DEF CallInv
  <2> QED BY <1>0, <2>6, <2>7, <2>8, MonSame, HandlerOnly
<1>2. CASE AnswerRpc(c)
  <2> DEFINE i == Head(call[c].todo)
  <2>1. call[c].at = "rpc" /\ UNCHANGED <<driver, wire, queue, mon, frames, ws, auditLog>>
    BY <1>2 DEF AnswerRpc, monVars
  <2>2. call[c].todo # <<>> /\ i \in Items /\ rtItem[i] # "none"
    <3>1. call[c].todo # <<>> /\ \A k \in DOMAIN call[c].todo : rtItem[call[c].todo[k]] # "none"
      BY <1>0, <2>1 DEF CallInv
    <3> QED BY <1>0, <3>1, Taken
  <2> HIDE DEF i
  <2>3. CASE /\ rtItem' = [rtItem EXCEPT ![i] = IF @ = "open" THEN "closed" ELSE @]
             /\ acked' = acked \cup {<<c, i>>} /\ call' = [call EXCEPT ![c].at = "audit"]
    <3>1. PICK r : r = [call[c] EXCEPT !.at = "audit"]
      OBVIOUS
    <3>2. call' = [call EXCEPT ![c] = r] /\ r \in Calls /\ r.at = "audit" /\ r.todo = call[c].todo
      BY <1>0, <2>3, <3>1 DEF Calls
    <3>3. rtItem' \in [Items -> {"none", "open", "closed"}] /\ rtItem'[i] = "closed"
          /\ (\A j \in Items : rtItem[j] = "closed" => rtItem'[j] = "closed")
          /\ (\A j \in Items : rtItem[j] # "none" => rtItem'[j] # "none")
      BY <1>0, <2>2, <2>3
    <3>4. \A k \in DOMAIN call[c].todo : call[c].todo[k] \in Items
      BY <1>0
    <3>5. CallInv(c, r, rtItem', acked')
      BY <1>0, <2>1, <2>2, <2>3, <3>2, <3>3, <3>4 DEF CallInv, i
    <3> QED BY <1>0, <2>1, <2>3, <3>2, <3>3, <3>5, MonSame, HandlerOnly
  <2>4. CASE call' = [call EXCEPT ![c] = AfterRefusal(c)] /\ UNCHANGED <<rtItem, acked>>
    <3>1. CallInv(c, NextItem(c), rtItem, acked)
      BY <2>1, NextItemShape
    <3>2. call' = [call EXCEPT ![c] = NextItem(c)]
      BY <2>4 DEF AfterRefusal
    <3>3. PICK r : r = NextItem(c)
      OBVIOUS
    <3> QED BY <1>0, <2>1, <2>4, <3>1, <3>2, <3>3, MonSame, HandlerOnly
  <2> QED BY <1>2, <2>3, <2>4 DEF AnswerRpc, i
<1>3. CASE AnswerAudit(c)
  <2>1. /\ call[c].at = "audit" /\ UNCHANGED <<rtItem, driver, wire, queue, mon, frames, ws, acked>>
        /\ auditLog' \in {auditLog, auditLog \cup {<<c, Head(call[c].todo)>>}}
    BY <1>3 DEF AnswerAudit, monVars
  <2>2. auditLog' \subseteq acked'
    BY <1>0, <2>1 DEF CallInv
  <2>3. PICK r : r = [call[c] EXCEPT !.at = "prune"]
    OBVIOUS
  <2>4. call' = [call EXCEPT ![c] = r] /\ r \in Calls /\ r.at = "prune" /\ r.todo = call[c].todo
    BY <1>0, <1>3, <2>3 DEF AnswerAudit, Calls
  <2>5. CallInv(c, r, rtItem', acked')
    BY <1>0, <2>1, <2>4 DEF CallInv
  <2> QED BY <1>0, <2>1, <2>2, <2>4, <2>5, MonSame, HandlerOnly
<1>4. CASE AnswerPrune(c)
  <2>1. /\ call[c].at = "prune" /\ UNCHANGED <<rtItem, driver, wire, queue, frames, ws, acked, auditLog>>
        /\ mon' = [mon EXCEPT !.pending = @ \ {Head(call[c].todo)}] /\ call' = [call EXCEPT ![c] = NextItem(c)]
    BY <1>4 DEF AnswerPrune
  <2>2. mon = [on |-> mon.on, pending |-> mon.pending, refusals |-> mon.refusals, taken |-> mon.taken]
    BY DEF HighwayInv, MonitorInv
  <2>3. /\ mon' = [on |-> mon'.on, pending |-> mon'.pending, refusals |-> mon'.refusals, taken |-> mon'.taken]
        /\ mon'.on = mon.on /\ mon'.taken = mon.taken /\ mon'.pending = mon.pending \ {Head(call[c].todo)}
    BY <2>1, <2>2
  <2>4. \A i \in mon.pending \ mon'.pending : rtItem'[i] = "closed"
    BY <1>0, <2>1, <2>3 DEF CallInv
  <2>5. CallInv(c, NextItem(c), rtItem', acked')
    BY <2>1, NextItemShape
  <2>6. PICK r : r = NextItem(c)
    OBVIOUS
  <2> QED BY <1>0, <2>1, <2>3, <2>4, <2>5, <2>6, HandlerOnly
<1> QED BY <1>1, <1>2, <1>3, <1>4

-----------------------------------------------------------------------------

\* Nothing was opened yet.
LEMMA HighwayInvInit == HighwayInit => HighwayInv
<1> SUFFICES ASSUME HighwayInit PROVE HighwayInv
  OBVIOUS
<1>1. WireInv /\ frames = <<>> /\ queue = <<>>
  BY DEF HighwayInit, WireInv
<1>2. MonitorInv
  BY DEF HighwayInit, MonitorInv, EndIsLast
<1>3. SocketInv
  BY DEF HighwayInit, SocketInv, WsAccounted
<1>4. LagInv
  BY DEF HighwayInit, LagInv, LagPrecedes
<1>5. ItemsInv
  BY DEF HighwayInit, ItemsInv, Calls
<1> QED BY <1>1, <1>2, <1>3, <1>4, <1>5 DEF HighwayInv

\* Every step keeps the invariant.
LEMMA HighwayInvNext == HighwayInv /\ [HighwayNext]_highwayVars => HighwayInv'
<1> SUFFICES ASSUME HighwayInv, [HighwayNext]_highwayVars PROVE HighwayInv'
  OBVIOUS
<1>1. CASE StreamNext
  BY <1>1, RuntimeKeeps, ForwardKeeps, HandleKeeps, ShutdownKeeps DEF StreamNext
<1>2. CASE BreakNext
  BY <1>2, ConnectKeeps, FailKeeps DEF BreakNext
<1>3. CASE AnswerNext
  BY <1>3, AnswerKeeps DEF AnswerNext
<1>4. CASE WsNext
  BY <1>4, WsKeeps
<1>5. CASE UNCHANGED highwayVars
  <2>1. UNCHANGED <<rtItem, driver, wire, queue, mon, frames, ws, call, acked, auditLog>>
    BY <1>5 DEF highwayVars, monVars
  <2>2. SocketInv'
    BY <2>1 DEF HighwayInv, SocketInv, WsAccounted
  <2> QED BY <2>1, <2>2, SocketOnly
<1> QED BY <1>1, <1>2, <1>3, <1>4, <1>5 DEF HighwayNext

\* HighwaySound for every set of items and operators and every number of
\* events, breaks and batches, with all parts of the highway at work at once.
THEOREM HighwayIsSound == HighwaySpec => []HighwaySound
<1>1. HighwayInit => HighwayInv
  BY HighwayInvInit
<1>2. HighwayInv /\ [HighwayNext]_highwayVars => HighwayInv'
  BY HighwayInvNext
<1>3. HighwayInv => HighwaySound
  BY DEF HighwayInv, MonitorInv, SocketInv, LagInv, ItemsInv, HighwaySound, PrunedIsClosed, AuditedIsAcked
<1> QED BY <1>1, <1>2, <1>3, PTL DEF HighwaySpec, HighwayNext

(* ------------------------------- the lists ------------------------------ *)
TableRows == [in : BOOLEAN, key : Keys, owner : {"me", "other"}, shared : BOOLEAN]

Walks ==
  [at : {"idle", "paging", "done"}, admin : BOOLEAN, scope : {"all", "me", "other"}, limit : Nat,
   cursor : Nat, listed : [Rows -> Nat]]

PagingType ==
  /\ kind \in Kinds /\ table \in [Rows -> TableRows] /\ walk \in Walks
  /\ stay \subseteq Rows

\* The rows the walk may see now.
Shown == Visible(kind, walk.admin, walk.scope, table)

\* The history has what is visible, and what stays is visible.
HistoryOk ==
  /\ walk.at = "idle" => stay = {}
  /\ walk.at # "idle" => \A r \in Shown : <<r, table[r].key>> \in seen
  /\ stay \subseteq Shown

\* The rows behind the cursor are still to come; those it passed were listed,
\* or shared their key with another row.
CursorOk ==
  \A r \in stay :
    /\ walk.listed[r] <= 1
    /\ Behind(kind, walk.cursor, table[r].key) => walk.listed[r] = 0
    /\ ~Behind(kind, walk.cursor, table[r].key) =>
         walk.listed[r] > 0 \/ \E q \in Rows \ {r} : <<q, table[r].key>> \in seen

PagingInv == PagingType /\ HistoryOk /\ CursorOk /\ StayersListed

\* The walk starts before the first row.
LEMMA StartWalkKeeps ==
  ASSUME PagingInv, StartWalk
  PROVE  PagingInv'
<1>1. PagingType
  BY DEF PagingInv
<1>2. PICK admin \in BOOLEAN, scope \in {"all", "me", "other"}, n \in 0..MaxPage + 1 :
        /\ walk' = [at |-> "paging", admin |-> admin, scope |-> scope, limit |-> EffectiveLimit(kind, n),
                   cursor |-> 0, listed |-> [r \in Rows |-> 0]]
        /\ stay' = Visible(kind, admin, scope, table) /\ seen' = {<<r, table[r].key>> : r \in stay'}
  BY DEF StartWalk
<1>3. kind' = kind /\ table' = table
  BY DEF StartWalk
<1>4. EffectiveLimit(kind, n) \in Nat
  BY PagingAssumption DEF EffectiveLimit
<1>5. walk' \in Walks
  BY <1>2, <1>4 DEF Walks
<1>6. /\ walk'.at = "paging" /\ walk'.admin = admin /\ walk'.scope = scope /\ walk'.cursor = 0
      /\ \A r \in Rows : walk'.listed[r] = 0
  BY <1>2
<1>7. Shown' = stay'
  BY <1>2, <1>3, <1>6 DEF Shown
<1>8. stay' \subseteq Rows
  BY <1>2 DEF Visible
<1>9. PagingType'
  BY <1>1, <1>3, <1>5, <1>8 DEF PagingType
<1>10. HistoryOk'
  BY <1>2, <1>3, <1>6, <1>7 DEF HistoryOk
<1>11. CursorOk'
  BY <1>3, <1>6, <1>8 DEF CursorOk, Behind
<1>12. StayersListed'
  BY <1>6 DEF StayersListed
<1> QED
  BY <1>9, <1>10, <1>11, <1>12 DEF PagingInv

\* What precedes what in a listing.
Upto(k, a, b) == IF k \in Newest THEN b <= a ELSE a <= b

\* A page: the first rows behind the cursor, and where the next one starts.
PageOf(p, rest, c) ==
  /\ p \subseteq rest
  /\ Cardinality(p) = (IF Cardinality(rest) < walk.limit THEN Cardinality(rest) ELSE walk.limit)
  /\ \A a \in p, b \in rest \ p : Upto(kind, table[a].key, table[b].key)
  /\ IF p = {} THEN c = walk.cursor
     ELSE \E last \in p : c = table[last].key /\ \A q \in p : Upto(kind, table[q].key, c)

\* A page that is empty or the last holds all rows that were left.
LEMMA LastPageIsAll ==
  ASSUME PagingInv, NEW p, NEW rest \in SUBSET Rows, NEW c, PageOf(p, rest, c), walk.limit > 0,
         p = {} \/ Finished(kind, p, rest, walk.limit)
  PROVE  p = rest
<1>1. walk.limit \in Nat
  BY DEF PagingInv, PagingType, Walks
<1>2. IsFiniteSet(rest) /\ IsFiniteSet(p)
  BY PagingAssumption, FS_Subset DEF PageOf
<1>3. PICK n \in Nat, m \in Nat : n = Cardinality(rest) /\ m = Cardinality(p)
  BY <1>2, FS_CardinalityType
<1>4. m = IF n < walk.limit THEN n ELSE walk.limit
  BY <1>3 DEF PageOf
<1>5. CASE p = {}
  <2>1. m = 0
    BY <1>3, <1>5, FS_EmptySet
  <2>2. n = 0
    BY <2>1, <1>1, <1>4
  <2> QED
    BY <2>2, <1>2, <1>3, <1>5, FS_EmptySet
<1>6. CASE Finished(kind, p, rest, walk.limit) /\ p # {}
  <2>1. n <= walk.limit \/ m < walk.limit
    BY <1>3, <1>6 DEF Finished
  <2>2. m = n
    BY <2>1, <1>1, <1>4
  <2> QED
    BY <2>2, <1>2, <1>3, FS_Subset DEF PageOf
<1> QED
  BY <1>5, <1>6

\* Behind and Upto are one order, read from both sides.
LEMMA BehindUpto ==
  ASSUME NEW k, NEW c \in Nat \ {0}, NEW key \in Nat
  PROVE  Behind(k, c, key) <=> ~Upto(k, key, c)
BY DEF Behind, Upto

\* The client gets one more page.
LEMMA FetchPageKeeps ==
  ASSUME PagingInv, FetchPage
  PROVE  PagingInv'
<1>1. PagingType /\ HistoryOk /\ CursorOk
  BY DEF PagingInv
<1>2. PICK rest : rest = {r \in Shown : Behind(kind, walk.cursor, table[r].key)}
  OBVIOUS
<1>3. PICK p \in Pages(kind, rest, walk.limit, table) :
        \E c \in IF p = {} THEN {walk.cursor} ELSE NextCursor(kind, p, rest, table) :
           walk' = [walk EXCEPT
                     !.listed = [r \in Rows |-> walk.listed[r] + (IF r \in p THEN 1 ELSE 0)],
                     !.cursor = c,
                     !.at = IF p = {} \/ Finished(kind, p, rest, walk.limit) THEN "done" ELSE walk.at]
  BY <1>2 DEF FetchPage, Shown
<1>4. PICK c \in IF p = {} THEN {walk.cursor} ELSE NextCursor(kind, p, rest, table) :
           walk' = [walk EXCEPT
                     !.listed = [r \in Rows |-> walk.listed[r] + (IF r \in p THEN 1 ELSE 0)],
                     !.cursor = c,
                     !.at = IF p = {} \/ Finished(kind, p, rest, walk.limit) THEN "done" ELSE walk.at]
  BY <1>3
<1>5. walk.at = "paging" /\ UNCHANGED <<kind, table, stay, seen>>
  BY DEF FetchPage
<1>6. rest \subseteq Rows /\ rest \subseteq Shown
  BY <1>2 DEF Shown, Visible
<1>7. PageOf(p, rest, c)
  <2>1. /\ p \subseteq rest
        /\ Cardinality(p) = (IF Cardinality(rest) < walk.limit THEN Cardinality(rest) ELSE walk.limit)
        /\ \A a \in p, b \in rest \ p : Upto(kind, table[a].key, table[b].key)
    <3>1. table \in [Rows -> TableRows] /\ \A r \in Rows : table[r].key \in Nat
      BY <1>1, PagingAssumption DEF PagingType, TableRows
    <3> QED
      BY <1>3, <1>6, <3>1 DEF Pages, Upto
  <2>2. CASE p = {}
    BY <2>1, <2>2, <1>4 DEF PageOf
  <2>3. CASE p # {}
    <3>1. c \in LastKeys(kind, p, table)
      BY <2>3, <1>4 DEF NextCursor
    <3>2. PICK last \in p : c = table[last].key /\ \A q \in p : Upto(kind, table[q].key, c)
      BY <3>1 DEF LastKeys, Upto
    <3> QED
      BY <2>1, <2>3, <3>2 DEF PageOf
  <2> QED
    BY <2>2, <2>3
<1>8. \A r \in Rows : table[r].key \in Nat \ {0} /\ walk.listed[r] \in Nat
  BY <1>1, PagingAssumption DEF PagingType, TableRows, Walks
<1>9. c \in Nat /\ walk.cursor \in Nat
  BY <1>1, <1>6, <1>7, <1>8 DEF PageOf, PagingType, Walks
<1>10. /\ walk' \in Walks /\ walk'.cursor = c /\ walk'.limit = walk.limit /\ walk'.admin = walk.admin
       /\ walk'.scope = walk.scope /\ walk'.at \in {"paging", "done"}
       /\ \A r \in Rows : walk'.listed[r] = walk.listed[r] + (IF r \in p THEN 1 ELSE 0)
       /\ walk'.at = "done" => p = {} \/ Finished(kind, p, rest, walk.limit)
  <2>1. [r \in Rows |-> walk.listed[r] + (IF r \in p THEN 1 ELSE 0)] \in [Rows -> Nat]
    BY <1>8
  <2> QED
    BY <2>1, <1>1, <1>4, <1>5, <1>8, <1>9 DEF PagingType, Walks
<1>11. PagingType'
  BY <1>1, <1>5, <1>10 DEF PagingType
<1>12. Shown' = Shown
  BY <1>5, <1>10 DEF Shown
<1>13. HistoryOk'
  BY <1>1, <1>5, <1>10, <1>12 DEF HistoryOk
<1>14. ASSUME NEW r \in stay
       PROVE  /\ walk'.listed[r] <= 1
              /\ Behind(kind, c, table[r].key) => walk'.listed[r] = 0 /\ r \notin p
              /\ ~Behind(kind, c, table[r].key) =>
                   walk'.listed[r] > 0 \/ \E q \in Rows \ {r} : <<q, table[r].key>> \in seen
  <2>1. r \in Rows /\ r \in Shown /\ table[r].key \in Nat \ {0} /\ walk.listed[r] \in Nat
    BY <1>1, <1>8 DEF PagingType, HistoryOk
  <2>2. /\ walk.listed[r] <= 1
        /\ Behind(kind, walk.cursor, table[r].key) => walk.listed[r] = 0
        /\ ~Behind(kind, walk.cursor, table[r].key) =>
             walk.listed[r] > 0 \/ \E q \in Rows \ {r} : <<q, table[r].key>> \in seen
    BY <1>1 DEF CursorOk
  <2>3. walk'.listed[r] = walk.listed[r] + (IF r \in p THEN 1 ELSE 0)
    BY <2>1, <1>10
  <2>4. CASE p = {}
    BY <2>1, <2>2, <2>3, <2>4, <1>7 DEF PageOf
  <2>5. CASE p # {}
    <3>1. PICK last \in p : c = table[last].key /\ \A q \in p : Upto(kind, table[q].key, c)
      BY <2>5, <1>7 DEF PageOf
    <3>2. last \in Rows /\ last \in Shown /\ c \in Nat \ {0} /\ Behind(kind, walk.cursor, c)
          /\ <<last, c>> \in seen
      BY <3>1, <1>1, <1>2, <1>5, <1>6, <1>7, <1>8 DEF PageOf, HistoryOk
    <3>3. Behind(kind, c, table[r].key) <=> ~Upto(kind, table[r].key, c)
      BY <3>2, <2>1, BehindUpto
    <3>4. CASE r \in p
      <4>1. Behind(kind, walk.cursor, table[r].key)
        BY <3>4, <1>2, <1>7 DEF PageOf
      <4>2. Upto(kind, table[r].key, c)
        BY <3>1, <3>4
      <4>3. walk'.listed[r] = 1
        BY <4>1, <2>2, <2>3, <3>4
      <4> QED
        BY <4>2, <4>3, <3>3
    <3>5. CASE r \notin p /\ Behind(kind, walk.cursor, table[r].key)
      <4>1. r \in rest \ p
        BY <3>5, <2>1, <1>2
      <4>2. Upto(kind, c, table[r].key)
        BY <4>1, <3>1, <1>7 DEF PageOf
      <4>3. walk'.listed[r] = 0
        BY <3>5, <2>2, <2>3
      <4>4. ~Behind(kind, c, table[r].key) => c = table[r].key
        BY <4>2, <3>2, <3>3, <2>1 DEF Upto
      <4>5. last \in Rows \ {r}
        BY <3>1, <3>2, <3>5
      <4> QED
        BY <4>3, <4>4, <4>5, <3>2, <3>5
    <3>6. CASE r \notin p /\ ~Behind(kind, walk.cursor, table[r].key)
      <4>1. walk.cursor # 0 /\ Upto(kind, table[r].key, walk.cursor)
        BY <3>6, <2>1, <1>9 DEF Behind, Upto
      <4>2. ~Upto(kind, c, walk.cursor)
        BY <4>1, <3>2, <1>9, BehindUpto
      <4>3. Upto(kind, table[r].key, c)
        BY <4>1, <4>2, <3>2, <2>1, <1>9 DEF Upto
      <4>4. walk'.listed[r] = walk.listed[r]
        BY <3>6, <2>1, <2>3
      <4> QED
        BY <4>3, <4>4, <3>3, <3>6, <2>2
    <3> QED
      BY <3>4, <3>5, <3>6
  <2> QED
    BY <2>4, <2>5
<1>15. CursorOk'
  BY <1>5, <1>10, <1>14 DEF CursorOk
<1>16. StayersListed'
  <2> SUFFICES ASSUME walk'.at = "done", walk.limit > 0, NEW r \in stay
               PROVE  walk'.listed[r] > 0 \/ \E q \in Rows \ {r} : <<q, table[r].key>> \in seen
    BY <1>5, <1>10 DEF StayersListed
  <2>1. p = rest
    BY <1>6, <1>7, <1>10, LastPageIsAll
  <2>2. r \in Rows /\ r \in Shown /\ table[r].key \in Nat \ {0}
    BY <1>1, <1>8 DEF PagingType, HistoryOk
  <2>3. ~Behind(kind, c, table[r].key)
    <3>1. CASE Behind(kind, walk.cursor, table[r].key)
      <4>1. r \in p
        BY <3>1, <2>1, <2>2, <1>2
      <4> QED
        BY <4>1, <1>14
    <3>2. CASE ~Behind(kind, walk.cursor, table[r].key)
      <4>1. walk.cursor # 0 /\ Upto(kind, table[r].key, walk.cursor)
        BY <3>2, <2>2, <1>9 DEF Behind, Upto
      <4>2. CASE p = {}
        BY <4>2, <3>2, <1>7 DEF PageOf
      <4>3. CASE p # {}
        <5>1. PICK last \in p : c = table[last].key
          BY <4>3, <1>7 DEF PageOf
        <5>2. c \in Nat \ {0} /\ Behind(kind, walk.cursor, c)
          BY <5>1, <2>1, <1>2, <1>6, <1>8
        <5>3. ~Upto(kind, c, walk.cursor)
          BY <4>1, <5>2, <1>9, BehindUpto
        <5>4. Upto(kind, table[r].key, c)
          BY <4>1, <5>2, <5>3, <2>2, <1>9 DEF Upto
        <5> QED
          BY <5>2, <5>4, <2>2, BehindUpto
      <4> QED
        BY <4>2, <4>3
    <3> QED
      BY <3>1, <3>2
  <2> QED
    BY <2>3, <1>14
<1> QED
  BY <1>11, <1>13, <1>15, <1>16 DEF PagingInv

\* A row comes, goes or is renamed: it is no longer one that stayed.
LEMMA ChangeRowKeeps ==
  ASSUME PagingInv, NEW r \in Rows, ChangeRow(r)
  PROVE  PagingInv'
<1>1. PagingType /\ HistoryOk /\ CursorOk /\ StayersListed
  BY DEF PagingInv
<1>2. /\ UNCHANGED <<kind, walk>> /\ stay' = stay \ {r}
      /\ seen' = IF walk.at = "idle" THEN seen
                 ELSE seen \cup {<<q, table'[q].key>> : q \in Visible(kind, walk.admin, walk.scope, table')}
  BY DEF ChangeRow
<1>3. table \in [Rows -> TableRows] /\ table[r] \in TableRows
  BY <1>1 DEF PagingType
<1>4. table' \in [Rows -> TableRows] /\ \A q \in Rows \ {r} : table'[q] = table[q]
  <2>1. \E s \in TableRows : table' = [table EXCEPT ![r] = s]
    <3>1. CASE \E k \in Keys : table' = [table EXCEPT ![r].in = TRUE, ![r].key = k]
      <4>1. PICK k \in Keys : table' = [table EXCEPT ![r].in = TRUE, ![r].key = k]
        BY <3>1
      <4>2. [table[r] EXCEPT !.in = TRUE, !.key = k] \in TableRows
        BY <1>3 DEF TableRows
      <4>3. table' = [table EXCEPT ![r] = [table[r] EXCEPT !.in = TRUE, !.key = k]]
        BY <4>1, <1>3
      <4> QED
        BY <4>2, <4>3
    <3>2. CASE table' = [table EXCEPT ![r].in = FALSE]
      <4>1. [table[r] EXCEPT !.in = FALSE] \in TableRows
        BY <1>3 DEF TableRows
      <4>2. table' = [table EXCEPT ![r] = [table[r] EXCEPT !.in = FALSE]]
        BY <3>2, <1>3
      <4> QED
        BY <4>1, <4>2
    <3>3. CASE \E k \in Keys : table' = [table EXCEPT ![r].key = k]
      <4>1. PICK k \in Keys : table' = [table EXCEPT ![r].key = k]
        BY <3>3
      <4>2. [table[r] EXCEPT !.key = k] \in TableRows
        BY <1>3 DEF TableRows
      <4>3. table' = [table EXCEPT ![r] = [table[r] EXCEPT !.key = k]]
        BY <4>1, <1>3
      <4> QED
        BY <4>2, <4>3
    <3> QED
      BY <3>1, <3>2, <3>3 DEF ChangeRow
  <2>2. PICK s \in TableRows : table' = [table EXCEPT ![r] = s]
    BY <2>1
  <2> QED
    BY <2>2, <1>3
<1>5. PagingType'
  BY <1>1, <1>2, <1>4 DEF PagingType
<1>6. Shown' = Visible(kind, walk.admin, walk.scope, table') /\ seen \subseteq seen'
  BY <1>2 DEF Shown
<1>7. stay' \subseteq Shown'
  <2> SUFFICES ASSUME NEW q \in stay' PROVE q \in Shown'
    OBVIOUS
  <2>1. q \in Rows \ {r} /\ q \in Visible(kind, walk.admin, walk.scope, table)
    BY <1>1, <1>2 DEF HistoryOk, PagingType, Shown
  <2>2. table'[q] = table[q]
    BY <2>1, <1>4
  <2> QED
    BY <2>1, <2>2, <1>6 DEF Visible
<1>8. HistoryOk'
  <2>1. walk.at # "idle" => \A q \in Shown' : <<q, table'[q].key>> \in seen'
    BY <1>2, <1>6
  <2> QED
    BY <2>1, <1>1, <1>2, <1>7 DEF HistoryOk
<1>9. \A q \in stay' : q \in stay /\ table'[q] = table[q]
  BY <1>1, <1>2, <1>4 DEF PagingType
<1>10. CursorOk'
  BY <1>1, <1>2, <1>6, <1>9 DEF CursorOk
<1>11. StayersListed'
  BY <1>1, <1>2, <1>6, <1>9 DEF StayersListed
<1> QED
  BY <1>5, <1>8, <1>10, <1>11 DEF PagingInv

\* For any rows, keys and page sizes, on every list: whatever is inserted,
\* deleted or renamed between two pages, a walk lists a row that keeps its key
\* at most once, and at its end has listed every such row, unless another row
\* had the same key.
THEOREM WalksAreExact ==
  ASSUME NEW CONSTANT tables \in SUBSET [Rows -> TableRows]
  PROVE  PagingSpec(tables) => []WalkExact
<1>1. PagingInit(tables) => PagingInv
  <2> SUFFICES ASSUME PagingInit(tables) PROVE PagingInv
    OBVIOUS
  <2>1. walk \in Walks /\ walk.at = "idle"
    BY DEF PagingInit, Walks
  <2>2. PagingType
    BY <2>1 DEF PagingInit, PagingType
  <2>3. HistoryOk /\ CursorOk /\ StayersListed
    BY <2>1 DEF PagingInit, HistoryOk, CursorOk, StayersListed
  <2> QED
    BY <2>2, <2>3 DEF PagingInv
<1>2. PagingInv /\ [PagingNext]_pageVars => PagingInv'
  <2> SUFFICES ASSUME PagingInv, [PagingNext]_pageVars PROVE PagingInv'
    OBVIOUS
  <2>1. CASE UNCHANGED pageVars
    BY <2>1 DEF pageVars, PagingInv, PagingType, HistoryOk, CursorOk, StayersListed, Shown
  <2> QED
    BY <2>1, StartWalkKeeps, FetchPageKeeps, ChangeRowKeeps DEF PagingNext
<1>3. PagingInv => WalkExact
  BY DEF PagingInv, CursorOk, WalkExact, ListedAtMostOnce
<1> QED
  BY <1>1, <1>2, <1>3, PTL DEF PagingSpec
=============================================================================
