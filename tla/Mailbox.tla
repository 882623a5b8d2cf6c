------------------------------- MODULE Mailbox -------------------------------
(***************************************************************************)
(* The inbox of one workspace (wacp-workspace/src/state.rs): envelopes are *)
(* inserted by priority, popped from the front, remembered once popped,    *)
(* and captured and restored with a migration snapshot.                    *)
(***************************************************************************)
EXTENDS Naturals, Sequences, SequencesExt

CONSTANTS Letters,      \* envelope ids
          MaxDeliveries \* deliveries, redeliveries included

VARIABLES
  inbox, delivered,   \* the inbox and the ids popped
  saved,              \* the last snapshot
  deliveries,         \* history: what was pushed, in order
  popped              \* history: what was popped, and after how many deliveries

mailVars == <<inbox, delivered, saved, deliveries, popped>>

MailPriorities == {"normal", "urgent", "blocking"}

Rank(p) == [normal |-> 0, urgent |-> 1, blocking |-> 2][p]

\* The arrival number makes two copies of an envelope different.
Mail(id, p, n) == [id |-> id, priority |-> p, n |-> n]

\* A plausible bug: an equal priority is overtaken.
Mutant_Overtake(box, m) ==
  {i \in DOMAIN box : Rank(box[i].priority) <= Rank(m.priority)}

\* The places push_inbox may insert at: before the first of a lower rank.
LowerRanked(box, m) ==
  {i \in DOMAIN box : Rank(box[i].priority) < Rank(m.priority)}

PushInbox(box, m) ==
  IF LowerRanked(box, m) = {} THEN Append(box, m)
  ELSE InsertAt(box, CHOOSE i \in LowerRanked(box, m) : \A j \in LowerRanked(box, m) : i <= j, m)

IsEnvelopeDelivered(id) == id \in delivered

\* DeliverEnvelope of the actor.
Deliver(id, p) ==
  /\ Len(deliveries) < MaxDeliveries
  /\ deliveries' = Append(deliveries, id)
  /\ inbox' = IF IsEnvelopeDelivered(id) THEN inbox ELSE PushInbox(inbox, Mail(id, p, Len(deliveries) + 1))
  /\ UNCHANGED <<delivered, saved, popped>>

PopInbox ==
  /\ inbox # <<>>
  /\ inbox' = Tail(inbox) /\ delivered' = delivered \cup {Head(inbox).id}
  /\ popped' = Append(popped, [id |-> Head(inbox).id, n |-> Head(inbox).n, at |-> Len(deliveries)])
  /\ UNCHANGED <<saved, deliveries>>

CaptureSnapshot ==
  /\ saved' = [inbox |-> inbox, delivered |-> delivered, popped |-> popped]
  /\ UNCHANGED <<inbox, delivered, deliveries, popped>>

\* A plausible bug: the ids already popped are not restored.
Mutant_ForgetDelivered(s) == [s EXCEPT !.delivered = {}]

Restored(s) == s

RestoreFromSnapshot ==
  /\ inbox' = Restored(saved).inbox /\ delivered' = Restored(saved).delivered
  /\ popped' = saved.popped
  /\ UNCHANGED <<saved, deliveries>>

MailboxInit ==
  /\ inbox = <<>> /\ delivered = {} /\ deliveries = <<>> /\ popped = <<>>
  /\ saved = [inbox |-> <<>>, delivered |-> {}, popped |-> <<>>]

MailboxNext ==
  \/ \E id \in Letters, p \in MailPriorities : Deliver(id, p)
  \/ PopInbox \/ CaptureSnapshot \/ RestoreFromSnapshot

MailboxSpec == MailboxInit /\ [][MailboxNext]_mailVars

-----------------------------------------------------------------------------

\* An agent gets an envelope a second time only when both copies were waiting
\* before it took the first, also after a restore: the snapshot carries the ids
\* that were popped.
SecondCopyWasWaiting ==
  \A i, j \in DOMAIN popped : i < j /\ popped[i].id = popped[j].id => popped[j].n <= popped[i].at

\* The envelopes of an inbox, without their order.
Waiting(box) == {box[i] : i \in DOMAIN box}

Outranks(p, q) == Rank(p) > Rank(q)

Queues == INSTANCE PriorityQueues WITH
  Ids <- Letters, Priorities <- MailPriorities, Above <- Outranks,
  waiting <- Waiting(inbox), arrived <- Len(deliveries), taken <- delivered,
  kept <- [waiting |-> Waiting(saved.inbox), taken |-> saved.delivered]

\* The list of push_inbox, pop_inbox and the snapshots implements the set:
\* inserting before the first lower rank and popping the front hands over the
\* oldest of the most urgent envelopes, none is lost or doubled, and a restored
\* inbox goes on as the captured one would have.
ImplementsQueues == Queues!QueuesSpec
=============================================================================
