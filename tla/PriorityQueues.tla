---------------------------- MODULE PriorityQueues ----------------------------
(***************************************************************************)
(* What the inbox of a workspace promises ("Blocking > Urgent > Normal.    *)
(* Within same priority, FIFO."), said without the list that holds the     *)
(* envelopes: a set of envelopes that wait, each with the number of its    *)
(* arrival.  A copy of an envelope that was taken before is dropped, the   *)
(* one taken is the oldest of the most urgent ones, and a migration brings *)
(* back what waited and what was taken when it captured the workspace.     *)
(***************************************************************************)
EXTENDS Naturals

CONSTANTS Ids, Priorities,
          Above(_, _)   \* Above(p, q): p comes before q

VARIABLES waiting,     \* set of [id, priority, n]
          arrived,     \* arrivals so far, dropped ones included
          taken,       \* ids handed to the agent
          kept         \* what waited and what was taken at the capture

queueVars == <<waiting, arrived, taken, kept>>

Envelope(i, p) == [id |-> i, priority |-> p, n |-> arrived + 1]

Arrive(i, p) ==
  /\ arrived' = arrived + 1
  /\ waiting' = IF i \in taken THEN waiting ELSE waiting \cup {Envelope(i, p)}
  /\ UNCHANGED <<taken, kept>>

Precedes(a, b) ==
  Above(a.priority, b.priority) \/ (a.priority = b.priority /\ a.n < b.n)

Take(m) ==
  /\ \A o \in waiting \ {m} : Precedes(m, o)
  /\ taken' = taken \cup {m.id}
  /\ waiting' = waiting \ {m}
  /\ UNCHANGED <<arrived, kept>>

Keep == kept' = [waiting |-> waiting, taken |-> taken] /\ UNCHANGED <<waiting, arrived, taken>>

BringBack ==
  waiting' = kept.waiting /\ taken' = kept.taken /\ UNCHANGED <<arrived, kept>>

QueuesInit ==
  /\ waiting = {} /\ arrived = 0 /\ taken = {}
  /\ kept = [waiting |-> {}, taken |-> {}]

QueuesNext ==
  \/ \E i \in Ids, p \in Priorities : Arrive(i, p)
  \/ \E m \in waiting : Take(m)
  \/ Keep \/ BringBack

QueuesSpec == QueuesInit /\ [][QueuesNext]_queueVars
=============================================================================
