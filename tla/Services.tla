------------------------------ MODULE Services ------------------------------
(***************************************************************************)
(* How callers reach the runtime's event loop and how the loop answers:    *)
(* the gRPC services and the REST gateway put requests with a reply        *)
(* channel into one bounded queue per service; the SDKs string calls       *)
(* together, one at a time for each client; streams are bounded channels   *)
(* the loop feeds with try_send; the trail index outlives the process.     *)
(* What a request does to workspaces and tasks is module Runtime's; here a *)
(* handler succeeds or refuses.                                            *)
(***************************************************************************)
EXTENDS Naturals, Sequences, FiniteSets, SequencesExt

CONSTANTS
  SdkTasks,       \* tasks of one agent: they share its client
  CoordClients,   \* users of the coordinator SDK
  Operators,      \* highway and gateway clients
  ChanCap,        \* capacity of a request queue (256)
  BufCap,         \* capacity of a stream's channel (64)
  MaxEnvelopes, MaxEvents, MaxRestarts, MaxRuns   \* bounds

ASSUME ServicesAssumption ==
  /\ ChanCap \in Nat \ {0} /\ BufCap \in Nat \ {0}
  /\ SdkTasks \cap CoordClients = {} /\ SdkTasks \cap Operators = {} /\ CoordClients \cap Operators = {}
  /\ "none" \notin SdkTasks

VARIABLES
  loop,       \* the event loop: running or stopped
  queue,      \* service -> requests not yet served
  client,     \* each client: its program and where it is in it
  lock,       \* AgentHandle's client mutex: its holder
  sub,        \* each client's stream: its channel, and what came out of it
  events,     \* workspace events not yet fanned out
  pushed,     \* kind of stream -> everything ever pushed to its subscribers
  asked,      \* queries sent and not answered yet
  envelopes,  \* number of envelopes sent
  blobs,      \* checkpoint storage, on disk: who stored
  known,      \* checkpoint_index: checkpoints that can be named, by creator
  completed,  \* clients whose Complete signal was taken
  streamSeq,  \* Runtime::stream_seq
  trailIndex, \* trail_index.sqlite, on disk: sequence number -> event
  restarts, started

serviceVars == <<loop, queue, client, lock, sub, events, pushed, asked, envelopes, blobs, known,
                 completed, streamSeq, trailIndex, restarts, started>>

Clients == SdkTasks \cup CoordClients \cup Operators
Kinds == {"inbox", "commands", "signals", "trailStream"}

---------------------------------------------------------------------------
\* The calls of each service, and the queue they go through.

AgentUnary == {"send", "signal", "checkpoint", "read", "reply"}
AgentStreams == {"inbox", "commands"}
CoordinatorUnary == {"suspend", "submit"}
CoordinatorStreams == {"signals"}
HighwayUnary == {"trail", "gate"}
HighwayStreams == {"trailStream"}

Streaming == AgentStreams \cup CoordinatorStreams \cup HighwayStreams

ServiceOf(op) ==
  CASE op \in AgentUnary \cup AgentStreams -> "agent"
    [] op \in CoordinatorUnary \cup CoordinatorStreams -> "coordinator"
    [] op \in HighwayUnary \cup HighwayStreams -> "highway"

\* ChannelBackend: the gateway uses the coordinator's and the highway's queue.
GatewayOps == {"submit", "suspend", "gate", "trail"}

\* AgentContext and AgentHandle: each method as the calls it makes in order;
\* one that ends in a stream goes on to read it.
AgentProgram ==
  [query |-> <<"send", "inbox">>, complete |-> <<"checkpoint", "signal">>,
   fetch |-> <<"checkpoint", "read">>, commands |-> <<"commands">>]

\* CoordinatorContext.  Its other methods are one unary call each; suspend stands
\* for them.
CoordinatorProgram == [wait |-> <<"signals">>, suspend |-> <<"suspend">>]

\* A highway client, and the handlers of the gateway's routes.
OperatorProgram ==
  [watch |-> <<"trailStream">>, goal |-> <<"submit">>, history |-> <<"trail">>,
   approve |-> <<"gate">>]

ProgramsOf(c) ==
  CASE c \in SdkTasks -> AgentProgram
    [] c \in CoordClients -> CoordinatorProgram
    [] c \in Operators -> OperatorProgram

Calls(c) == ProgramsOf(c)[client[c].prog]
CallOf(c) == Calls(c)[client[c].at]

---------------------------------------------------------------------------
\* Status codes: what a handler refuses with, and what a gateway's caller sees.

\* error_category_to_grpc_code
GrpcCode(category) ==
  CASE category = "PermissionDenied" -> 7   [] category = "IllegalTransition" -> 9
    [] category = "ValidationFailed" -> 3   [] category = "BudgetExceeded" -> 8
    [] category = "Timeout" -> 4            [] category = "NotFound" -> 5
    [] category = "DeliveryFailed" -> 14    [] category = "Internal" -> 13

Categories == {"IllegalTransition", "NotFound"}

\* grpc_to_http_status
HttpStatus(code) ==
  CASE code = 0 -> 200  [] code = 3 -> 400 [] code = 16 -> 401 [] code = 7 -> 403
    [] code = 5 -> 404  [] code = 6 -> 409 [] code = 8 -> 429  [] OTHER -> 500

\* Mutant: a reply that was dropped reads like a default one.
Mutant_DroppedIsDefault(c, outcome) ==
  IF outcome = "dropped" THEN "ok" ELSE outcome

\* What a caller makes of its reply channel: the handler's answer, or an
\* internal error when the channel was dropped or never taken.
ReplySeen(c, outcome) ==
  IF outcome \in {"dropped", "unavailable"} THEN "Internal" ELSE outcome

\* GatewayError::into_response and the success codes of the routes; calls that
\* do not come from the gateway have none.
RestStatus(op, seen) ==
  CASE op \notin GatewayOps -> 0
    [] op \in GatewayOps /\ seen = "ok" ->
         (CASE op = "submit" -> 201 [] op = "trail" -> 200 [] OTHER -> 204)
    [] OTHER -> HttpStatus(GrpcCode(seen))

\* Bodies the REST handlers refuse before they call: an unknown gate decision
\* or escalation action.
RestRefusal(body) == IF body \in {"badDecision", "badAction"} THEN 400 ELSE 0

\* handle_socket and dispatch_method: frames answered without a call.
WsRefusal(frame) ==
  CASE frame = "notJson" -> 32700
    [] frame = "notVersion2" -> 32600
    [] frame = "unknownMethod" -> 32601
    [] frame = "noSession" -> 32602
    [] OTHER -> 0

\* dispatch_method: every error of a call is one code.
WsStatus(seen) == IF seen = "ok" THEN 0 ELSE 32000

BadInputs == {"badDecision", "badAction", "notJson", "notVersion2", "unknownMethod", "noSession"}

---------------------------------------------------------------------------
Item(what, n) == [what |-> what, n |-> n]
NoItem == Item("none", 0)

Resting == [pc |-> "idle", prog |-> "none", run |-> 0, at |-> 0, env |-> 0, res |-> "none", status |-> 0,
            ws |-> 0, item |-> NoItem]
NoSub == [kind |-> "none", state |-> "none", open |-> FALSE, buf |-> <<>>, got |-> <<>>, from |-> 0,
          run |-> 0]

ServicesInit ==
  /\ loop = "running" /\ queue = [s \in {"agent", "coordinator", "highway"} |-> <<>>]
  /\ client = [c \in Clients |-> Resting] /\ lock = "none"
  /\ sub = [c \in Clients |-> NoSub]
  /\ events = <<>> /\ pushed = [k \in Kinds |-> <<>>]
  /\ asked = {} /\ envelopes = 0
  /\ blobs = {} /\ known = {} /\ completed = {}
  /\ streamSeq = 0 /\ trailIndex = <<>> /\ restarts = 0 /\ started = 0

\* A client calls a method of its SDK.
StartProgram(c, prog) ==
  /\ client[c].pc = "idle" /\ prog \in DOMAIN ProgramsOf(c) /\ started < MaxRuns
  /\ started' = started + 1
  /\ client' = [client EXCEPT ![c] = [Resting EXCEPT !.pc = "want", !.prog = prog, !.at = 1,
                                                            !.run = started + 1]]
  /\ sub' = [sub EXCEPT ![c] = NoSub]
  /\ UNCHANGED <<loop, queue, lock, events, pushed, asked, envelopes, blobs, known, completed,
                 streamSeq, trailIndex, restarts>>

\* Mutant: a failed call does not end the method.
Mutant_IgnoreError(c, outcome) ==
  LET seen == ReplySeen(c, outcome)
      now == [client[c] EXCEPT !.res = seen, !.status = RestStatus(CallOf(c), seen),
                                !.ws = WsStatus(seen)]
  IN  IF client[c].at < Len(Calls(c)) THEN [now EXCEPT !.pc = "want", !.at = @ + 1]
      ELSE [now EXCEPT !.pc = IF CallOf(c) \in Streaming THEN "listen" ELSE "done"]

\* The method goes on after a call: an error ends it (`?`), a stream opened
\* last is read, anything else is the method's result.
Advanced(c, outcome) ==
  LET seen == ReplySeen(c, outcome)
      now == [client[c] EXCEPT !.res = seen, !.status = RestStatus(CallOf(c), seen),
                                !.ws = WsStatus(seen)]
  IN  IF seen # "ok" THEN [now EXCEPT !.pc = "done"]
      ELSE IF client[c].at < Len(Calls(c)) THEN [now EXCEPT !.pc = "want", !.at = @ + 1]
      ELSE [now EXCEPT !.pc = IF CallOf(c) \in Streaming THEN "listen" ELSE "done"]

\* The gateway answers an input it refuses; nothing reaches the loop.
RefuseInput(c, input) ==
  /\ c \in Operators /\ client[c].pc = "idle" /\ started < MaxRuns
  /\ started' = started + 1
  /\ client' = [client EXCEPT ![c] = [Resting EXCEPT !.pc = "done", !.res = "refused",
                  !.status = RestRefusal(input), !.ws = WsRefusal(input)]]
  /\ UNCHANGED <<loop, queue, lock, sub, events, pushed, asked, envelopes, blobs, known, completed,
                 streamSeq, trailIndex, restarts>>

\* AgentHandle's mutex is held from before the send until the call returns;
\* the coordinator's and the operators' clients have none.
MayCall(c) == c \in SdkTasks => lock = "none"
Locked(c) == IF c \in SdkTasks THEN c ELSE lock
Unlocked(c) == IF lock = c THEN "none" ELSE lock

\* send().await on the queue: it waits while the queue is full and fails when
\* the loop is gone.  A streaming call returns here, its registration is queued.
Issue(c) ==
  /\ client[c].pc = "want" /\ MayCall(c)
  /\ LET op == CallOf(c)
         s == ServiceOf(op)
     IN  \/ /\ loop = "stopped"
            /\ client' = [client EXCEPT ![c] = Advanced(c, "unavailable")]
            /\ UNCHANGED <<queue, sub, lock>>
         \/ /\ loop = "running" /\ Len(queue[s]) < ChanCap
            /\ queue' = [queue EXCEPT ![s] = Append(@, [from |-> c, op |-> op, arg |-> client[c].run])]
            /\ IF op \in Streaming
               THEN /\ client' = [client EXCEPT ![c] = Advanced(c, "ok")]
                    /\ UNCHANGED lock
                    /\ sub' = [sub EXCEPT ![c] = [NoSub EXCEPT !.kind = op, !.state = "asked",
                                           !.open = TRUE, !.run = client[c].run]]
               ELSE /\ client' = [client EXCEPT ![c].pc = "wait"] /\ lock' = Locked(c)
                    /\ UNCHANGED sub
  /\ UNCHANGED <<loop, events, pushed, asked, envelopes, blobs, known, completed, streamSeq,
                 trailIndex, restarts, started>>

\* Mutant: a subscriber whose channel is full is kept.
Mutant_KeepFull(kind, item) ==
  [c \in Clients |->
     IF sub[c].kind # kind \/ sub[c].state # "on" THEN sub[c]
     ELSE IF sub[c].open /\ Len(sub[c].buf) < BufCap THEN [sub[c] EXCEPT !.buf = Append(@, item)]
     ELSE sub[c]]

\* retain(|tx| tx.try_send(..).is_ok()): full or closed subscribers are removed.
Delivered(kind, item) ==
  [c \in Clients |->
     IF sub[c].kind # kind \/ sub[c].state # "on" THEN sub[c]
     ELSE IF sub[c].open /\ Len(sub[c].buf) < BufCap THEN [sub[c] EXCEPT !.buf = Append(@, item)]
     ELSE [sub[c] EXCEPT !.state = "cut"]]

Push(kind, item) ==
  /\ sub' = Delivered(kind, item)
  /\ pushed' = [pushed EXCEPT ![kind] = Append(@, item)]

\* SubscribeEnvelopes, SubscribeCommands, StreamSignals, SubscribeTrail: the
\* filter of a signal stream is not looked at.  A channel its client has let go
\* of in the meantime is registered too and removed at the next push.
RegisterSub(c, run) ==
  sub' = IF sub[c].state = "asked" /\ sub[c].run = run
         THEN [sub EXCEPT ![c].state = "on", ![c].from = Len(pushed[sub[c].kind])]
         ELSE sub

\* The loop takes a request of service s; a handler may refuse with category x.
ServeOk(r) ==
  /\ CASE r.op \in Streaming -> RegisterSub(r.from, r.arg) /\ UNCHANGED pushed
       [] r.op = "reply" -> Push("inbox", Item("envelope", r.arg))
       [] r.op = "suspend" -> Push("commands", Item("suspend", 0))
       [] OTHER -> UNCHANGED <<sub, pushed>>
  /\ asked' = IF r.op = "send" THEN asked \cup {envelopes + 1} ELSE asked
  /\ envelopes' = IF r.op \in {"send", "reply"} THEN envelopes + 1 ELSE envelopes
  /\ blobs' = IF r.op = "checkpoint" THEN blobs \cup {r.from} ELSE blobs
  /\ known' = IF r.op = "checkpoint" THEN known \cup {r.from} ELSE known
  /\ completed' = IF r.op = "signal" THEN completed \cup {r.from} ELSE completed
  /\ events' = IF r.op \in {"signal", "suspend"} THEN Append(events, r.op) ELSE events

Serve(s, x) ==
  /\ loop = "running" /\ queue[s] # <<>>
  /\ LET r == Head(queue[s])
         able == /\ r.op \in {"send", "reply"} => envelopes < MaxEnvelopes
                 /\ r.op = "read" => r.from \in known
     IN  /\ queue' = [queue EXCEPT ![s] = Tail(@)]
         /\ IF x = "ok"
            THEN able /\ ServeOk(r)
            ELSE /\ r.op \notin Streaming \cup {"trail"}
                 /\ UNCHANGED <<sub, pushed, asked, envelopes, blobs, known, completed, events>>
         /\ IF r.op \in Streaming \cup {"reply"} THEN UNCHANGED <<client, lock>>
            ELSE /\ client' = [client EXCEPT ![r.from] =
                      [Advanced(r.from, x) EXCEPT
                         !.env = IF r.op = "send" /\ x = "ok" THEN envelopes + 1 ELSE @]]
                 /\ lock' = Unlocked(r.from)
  /\ UNCHANGED <<loop, streamSeq, trailIndex, restarts, started>>

\* The peer that was asked answers a query, through the agent's queue.
Answer(q) ==
  /\ loop = "running" /\ q \in asked /\ Len(queue["agent"]) < ChanCap
  /\ asked' = asked \ {q}
  /\ queue' = [queue EXCEPT !["agent"] = Append(@, [from |-> "peer", op |-> "reply", arg |-> q])]
  /\ UNCHANGED <<loop, client, lock, sub, events, pushed, envelopes, blobs, known, completed,
                 streamSeq, trailIndex, restarts, started>>

\* fan_out and emit_trail_entry: the sequence number counts from the start of
\* the process; an insert under a number the index has fails with a warning.
FanOut ==
  /\ loop = "running" /\ events # <<>> /\ Len(pushed["trailStream"]) < MaxEvents
  /\ events' = Tail(events)
  /\ streamSeq' = streamSeq + 1
  /\ LET n == Len(pushed["trailStream"]) + 1
         toTrail == Delivered("trailStream", Item("entry", n))
         toSignals == Delivered("signals", Item(Head(events), 0))
         signal == Head(events) = "signal"
     IN  /\ trailIndex' = IF streamSeq + 1 \in DOMAIN trailIndex THEN trailIndex
                          ELSE (streamSeq + 1 :> n) @@ trailIndex
         /\ pushed' = [pushed EXCEPT !["trailStream"] = Append(@, Item("entry", n)),
                !["signals"] = IF signal THEN Append(@, Item(Head(events), 0)) ELSE @]
         /\ sub' = [c \in Clients |-> IF sub[c].kind = "signals" /\ signal
                                      THEN toSignals[c] ELSE toTrail[c]]
  /\ UNCHANGED <<loop, queue, client, lock, asked, envelopes, blobs, known, completed, restarts,
                 started>>

\* Mutant: any envelope is taken for the answer.
Mutant_AnyAnswer(c, item) == TRUE

\* query skips envelopes that answer something else; the other readers take
\* what comes first.
Wanted(c, item) == client[c].prog = "query" => item.n = client[c].env

\* A listening client takes the next item of its stream.  A watcher goes on.
Take(c) ==
  /\ client[c].pc = "listen" /\ sub[c].buf # <<>>
  /\ LET item == Head(sub[c].buf)
         done == Wanted(c, item) /\ client[c].prog # "watch"
     IN  /\ sub' = [sub EXCEPT ![c].buf = Tail(@), ![c].got = Append(@, item), ![c].open = ~done]
         /\ client' = IF done THEN [client EXCEPT ![c].pc = "done", ![c].item = item] ELSE client
  /\ UNCHANGED <<loop, queue, lock, events, pushed, asked, envelopes, blobs, known, completed,
                 streamSeq, trailIndex, restarts, started>>

\* The stream ended, or the client's timeout ran out: it lets go of the stream.
Quit(c) ==
  /\ client[c].pc = "listen"
  /\ \/ /\ sub[c].state = "cut" /\ sub[c].buf = <<>>
        /\ client' = [client EXCEPT ![c].pc = "done", ![c].res = "StreamEnded"]
     \/ /\ client[c].prog \in {"query", "wait"}
        /\ client' = [client EXCEPT ![c].pc = "done", ![c].res = "Timeout"]
  /\ sub' = [sub EXCEPT ![c].open = FALSE]
  /\ UNCHANGED <<loop, queue, lock, events, pushed, asked, envelopes, blobs, known, completed,
                 streamSeq, trailIndex, restarts, started>>

\* The method returned; the client may call another.
ReturnCall(c) ==
  /\ client[c].pc = "done"
  /\ client' = [client EXCEPT ![c] = Resting]
  /\ sub' = [sub EXCEPT ![c].open = FALSE]
  /\ UNCHANGED <<loop, queue, lock, events, pushed, asked, envelopes, blobs, known, completed,
                 streamSeq, trailIndex, restarts, started>>

\* Mutant: the replies of queued requests outlive the loop.
Mutant_RepliesKept(c) == FALSE

\* The caller whose queued request the loop takes down with it.
DropsReply(c) == client[c].pc = "wait"

\* The loop ends: its queues and all senders of streams are dropped with it.
StopLoop ==
  /\ loop = "running" /\ loop' = "stopped"
  /\ queue' = [s \in DOMAIN queue |-> <<>>]
  /\ client' = [c \in Clients |-> IF DropsReply(c) THEN Advanced(c, "dropped") ELSE client[c]]
  /\ lock' = IF lock # "none" /\ DropsReply(lock) THEN "none" ELSE lock
  /\ sub' = [c \in Clients |-> IF sub[c].state = "none" THEN sub[c] ELSE [sub[c] EXCEPT !.state = "cut"]]
  /\ events' = <<>> /\ asked' = {}
  /\ UNCHANGED <<pushed, envelopes, blobs, known, completed, streamSeq, trailIndex, restarts, started>>

\* A new process: storage and the index file are there, maps and counters new.
StartLoop ==
  /\ loop = "stopped" /\ restarts < MaxRestarts
  /\ loop' = "running" /\ restarts' = restarts + 1
  /\ streamSeq' = 0 /\ known' = {}
  /\ UNCHANGED <<queue, client, lock, sub, events, pushed, asked, envelopes, blobs, completed,
                 trailIndex, started>>

ServicesNext ==
  \/ \E c \in Clients :
       \/ \E p \in DOMAIN ProgramsOf(c) : StartProgram(c, p)
       \/ \E i \in BadInputs : RefuseInput(c, i)
       \/ Issue(c) \/ Take(c) \/ Quit(c) \/ ReturnCall(c)
  \/ \E s \in DOMAIN queue, x \in {"ok"} \cup Categories : Serve(s, x)
  \/ \E q \in asked : Answer(q)
  \/ FanOut \/ StopLoop \/ StartLoop

ServicesSpec == ServicesInit /\ [][ServicesNext]_serviceVars

---------------------------------------------------------------------------
\* A query returns the answer to its own envelope, though every subscriber of
\* the workspace gets every envelope and other tasks ask at the same time.
AnswerIsForMe ==
  \A c \in SdkTasks :
    client[c].prog = "query" /\ client[c].item # NoItem => client[c].item.n = client[c].env

\* complete signals only what it has checkpointed: a Complete the loop took
\* has its checkpoint in storage.
CompleteNeedsCheckpoint == completed \subseteq blobs

\* A stream has no holes: what a client read and still has buffered is a
\* contiguous run of what was pushed since it was registered, up to now if it
\* is registered still; a slow reader is cut off rather than skipped over.
NoHoles ==
  \A c \in Clients : sub[c].state \in {"on", "cut"} =>
    LET had == sub[c].got \o sub[c].buf
        all == pushed[sub[c].kind]
    IN  /\ sub[c].from + Len(had) <= Len(all)
        /\ had = SubSeq(all, sub[c].from + 1, sub[c].from + Len(had))
        /\ sub[c].state = "on" /\ sub[c].open => sub[c].from + Len(had) = Len(all)

\* No caller waits for a reply nobody will give, and none waits with the
\* client's mutex held: its request is queued, whatever the loop does.
NoOrphanCall ==
  /\ \A c \in Clients : client[c].pc = "wait" =>
       \E s \in DOMAIN queue : \E k \in DOMAIN queue[s] : queue[s][k].from = c
  /\ lock # "none" => client[lock].pc = "wait"

\* A caller is told of success only by a handler that ran: a request lost with
\* the loop is an error of the caller, on the gateway a 500.
SuccessMeansServed ==
  [][\A c \in Clients :
       client[c].pc = "wait" /\ client'[c].pc # "wait" /\ loop' = "stopped" =>
         /\ client'[c].res # "ok" /\ client'[c].ws # 0
         /\ CallOf(c) \in GatewayOps => client'[c].status = 500]_serviceVars

\* coordinator-sdk on wait_for_signal: what it returns is the signal asked for.
\* Clients here ask for signals of a workspace nobody signals from.
WaitGetsItsSignal ==
  \A c \in CoordClients : client[c].prog = "wait" => client[c].item = NoItem

\* init.rs on emit_trail_entry: the entry is indexed for historical queries.
EveryEventIndexed ==
  \A n \in 1..Len(pushed["trailStream"]) : \E q \in DOMAIN trailIndex : trailIndex[q] = n

\* Every caller gets the answer to its own call, or an error, and streams have
\* no holes, also when the loop stops and starts again.
ServicesSound ==
  /\ [](AnswerIsForMe /\ CompleteNeedsCheckpoint /\ NoHoles /\ NoOrphanCall)
  /\ SuccessMeansServed
=============================================================================
