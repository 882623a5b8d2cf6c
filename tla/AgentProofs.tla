---------------------------- MODULE AgentProofs -----------------------------
(***************************************************************************)
(* What surrounds an agent, for any callers, clients and limits.           *)
(*                                                                         *)
(* The tool path: who holds a permit, who stands in line and who left a    *)
(* slot behind are sets of callers, and each step moves one caller, or two *)
(* when a permit is passed on, so the counters stay equal to the sets'     *)
(* sizes.                                                                  *)
(*                                                                         *)
(* The services between the SDKs and the runtime: a request in a queue, at *)
(* a service or answered is the one its client waits for, and there is one *)
(* of them (ServicesInv); a client's program goes on call by call, and     *)
(* what a subscription gave and holds is a stretch of the published items  *)
(* without gap, from where it started until it is cut.                     *)
(*                                                                         *)
(* The LLM gateway's limiter and costs: a caller passes when fewer entries *)
(* than the limit are in the window, and each that has passed is one of    *)
(* the callers.                                                            *)
(*                                                                         *)
(* Its requests and answers: both are sequences made element by element    *)
(* from what was said, so a few laws of such replacements, proved once by  *)
(* induction on sets, show that a request holds every tool block and that  *)
(* what a reader has and what is left to read make up the answer.          *)
(***************************************************************************)
EXTENDS Tools, Llm, Services, FiniteSetTheorems, SequenceTheorems, WellFoundedInduction,
        TLAPS

(* ------------------------------ the tool path --------------------------- *)
HoldPcs == {"running", "invoked", "returned", "recorded"}

\* The results an invocation can end with; the registry inconsistency is not
\* one of them.
Results ==
  {"none", "ValidationFailed", "Unavailable", "Overloaded", "Ok", "ExecutionFailed",
   "InternalError", "Timeout", "Cancelled", "dropped", "leaked"}

CallRecords ==
  [pc : HoldPcs \cup {"idle", "checked", "loaded", "waiting", "done"},
   wasQueued : BOOLEAN, probe : BOOLEAN, cap : Capabilities \cup {"none"},
   start : Nat, timeout : Nat, result : Results]

\* What the place of an invocation says of its flags.
Phase(r) ==
  /\ r.pc = "idle" => r = Idle
  /\ r.pc \in {"checked", "loaded"} => r.wasQueued = FALSE
  /\ r.pc = "waiting" => r.wasQueued = TRUE
  /\ r.result = "leaked" => r.pc = "done"

HoldingOf(cl) == {c \in Callers : cl[c].pc \in HoldPcs}
QueuedOf(cl) == {c \in Callers : cl[c].pc \in HoldPcs /\ cl[c].wasQueued = TRUE}
LeakedOf(cl) == {c \in Callers : cl[c].result = "leaked"}

PhasesOk(cl) == cl \in [Callers -> CallRecords] /\ \A c \in Callers : Phase(cl[c])

\* The line holds each waiting caller once, and nobody else.
LineOk(cl, line) ==
  /\ line \in Seq(Callers)
  /\ \A i, j \in DOMAIN line : line[i] = line[j] => i = j
  /\ \A c \in Callers : cl[c].pc = "waiting" <=> \E i \in DOMAIN line : line[i] = c

\* The counters are the sizes of the sets.
CountsOk(cl, free, line, slots) ==
  /\ IsFiniteSet(HoldingOf(cl)) /\ IsFiniteSet(LeakedOf(cl))
  /\ free \in Nat /\ free + Cardinality(HoldingOf(cl)) = MaxConcurrent
  /\ slots = Cardinality(QueuedOf(cl)) + Len(line) + Cardinality(LeakedOf(cl))

BooksOk(cl, free, line, slots) ==
  CountsOk(cl, free, line, slots) /\ (line # << >> => free = 0)

PathOk(cl, free, line, slots) ==
  PhasesOk(cl) /\ LineOk(cl, line) /\ BooksOk(cl, free, line, slots)

\* Only c's invocation changed.
Moved(cl, cm, c) ==
  /\ cm \in [Callers -> CallRecords] /\ Phase(cm[c])
  /\ \A x \in Callers : x # c => cm[x] = cl[x]

\* Each set changes by at most that caller.
SetsMoved(cl, cm, c) ==
  /\ HoldingOf(cm) = (IF cm[c].pc \in HoldPcs THEN HoldingOf(cl) \cup {c} ELSE HoldingOf(cl) \ {c})
  /\ QueuedOf(cm) = (IF cm[c].pc \in HoldPcs /\ cm[c].wasQueued = TRUE
                     THEN QueuedOf(cl) \cup {c} ELSE QueuedOf(cl) \ {c})
  /\ LeakedOf(cm) = (IF cm[c].result = "leaked" THEN LeakedOf(cl) \cup {c} ELSE LeakedOf(cl) \ {c})

\* One caller's move changes each set by at most that caller.
LEMMA OneMove ==
  ASSUME NEW cl, PhasesOk(cl), NEW c \in Callers, NEW cm, Moved(cl, cm, c)
  PROVE  PhasesOk(cm) /\ SetsMoved(cl, cm, c)
<1>2. PhasesOk(cm)
  BY DEF PhasesOk, Moved
<1>3. HoldingOf(cm) = (IF cm[c].pc \in HoldPcs THEN HoldingOf(cl) \cup {c} ELSE HoldingOf(cl) \ {c})
  BY DEF HoldingOf, Moved
<1>4. QueuedOf(cm) = (IF cm[c].pc \in HoldPcs /\ cm[c].wasQueued = TRUE
                     THEN QueuedOf(cl) \cup {c} ELSE QueuedOf(cl) \ {c})
  BY DEF QueuedOf, Moved
<1>5. LeakedOf(cm) = (IF cm[c].result = "leaked" THEN LeakedOf(cl) \cup {c} ELSE LeakedOf(cl) \ {c})
  BY DEF LeakedOf, Moved
<1> QED
  BY <1>2, <1>3, <1>4, <1>5 DEF SetsMoved

\* The callers that run after a wait are among those that hold a permit.
LEMMA QueuedFinite ==
  ASSUME NEW cl, IsFiniteSet(HoldingOf(cl))
  PROVE  IsFiniteSet(QueuedOf(cl)) /\ Cardinality(QueuedOf(cl)) \in Nat
<1>1. QueuedOf(cl) \subseteq HoldingOf(cl)
  BY DEF QueuedOf, HoldingOf
<1> QED
  BY <1>1, FS_Subset, FS_CardinalityType

\* A caller moves without taking or giving back anything.
LEMMA PlainMove ==
  ASSUME NEW cl, NEW free, NEW line, NEW slots, PathOk(cl, free, line, slots),
         NEW c \in Callers, NEW cm, Moved(cl, cm, c),
         cl[c].pc # "waiting", cm[c].pc # "waiting",
         cl[c].result # "leaked", cm[c].result # "leaked",
         cm[c].pc \in HoldPcs <=> cl[c].pc \in HoldPcs,
         cm[c].pc \in HoldPcs => cm[c].wasQueued = cl[c].wasQueued
  PROVE  PathOk(cm, free, line, slots)
<1>1. PhasesOk(cl) /\ LineOk(cl, line) /\ BooksOk(cl, free, line, slots)
  BY DEF PathOk
<1>0. \A x \in Callers : x # c => cm[x] = cl[x]
  BY DEF Moved
<1>2. PhasesOk(cm) /\ SetsMoved(cl, cm, c)
  BY <1>1, OneMove
<1>3. HoldingOf(cm) = HoldingOf(cl)
  BY <1>2 DEF HoldingOf, SetsMoved
<1>4. QueuedOf(cm) = QueuedOf(cl)
  BY <1>2 DEF QueuedOf, SetsMoved
<1>5. LeakedOf(cm) = LeakedOf(cl)
  BY <1>2 DEF LeakedOf, SetsMoved
<1>6. LineOk(cm, line)
  BY <1>0, <1>1, <1>2 DEF LineOk
<1> QED
  BY <1>1, <1>2, <1>3, <1>4, <1>5, <1>6 DEF PathOk, BooksOk, CountsOk

\* A caller takes a permit that is free, after a slot or without one.
LEMMA TakePermit ==
  ASSUME NEW cl, NEW free, NEW line, NEW slots, PathOk(cl, free, line, slots), free > 0,
         NEW c \in Callers, NEW cm, Moved(cl, cm, c),
         cl[c].pc \notin HoldPcs \cup {"waiting"}, cl[c].result # "leaked",
         cm[c].pc \in HoldPcs
  PROVE  PathOk(cm, free - 1, line, IF cm[c].wasQueued = TRUE THEN slots + 1 ELSE slots)
<1>1. PhasesOk(cl) /\ LineOk(cl, line) /\ BooksOk(cl, free, line, slots)
  BY DEF PathOk
<1>0. \A x \in Callers : x # c => cm[x] = cl[x]
  BY DEF Moved
<1>2. PhasesOk(cm) /\ SetsMoved(cl, cm, c)
  BY <1>1, OneMove
<1>3. c \notin HoldingOf(cl) /\ c \notin QueuedOf(cl) /\ c \notin LeakedOf(cl)
  BY DEF HoldingOf, QueuedOf, LeakedOf
<1>4. cm[c].result # "leaked"
  BY DEF Phase, HoldPcs, Moved
<1>5. LeakedOf(cm) = LeakedOf(cl) /\ HoldingOf(cm) = HoldingOf(cl) \cup {c}
  BY <1>2, <1>3, <1>4 DEF SetsMoved
<1>6. line = << >>
  BY <1>1 DEF BooksOk, CountsOk
<1>7. LineOk(cm, line)
  <2>1. cm[c].pc # "waiting"
    BY DEF HoldPcs
  <2> QED
    BY <2>1, <1>0, <1>1, <1>2 DEF LineOk
<1>8. PICK h \in Nat, q \in Nat : h = Cardinality(HoldingOf(cl)) /\ q = Cardinality(QueuedOf(cl))
  BY <1>1, QueuedFinite, FS_CardinalityType DEF BooksOk, CountsOk
<1>9. IsFiniteSet(HoldingOf(cm)) /\ Cardinality(HoldingOf(cm)) = h + 1
  <2>1. IsFiniteSet(HoldingOf(cl))
    BY <1>1 DEF BooksOk, CountsOk
  <2>2. IsFiniteSet(HoldingOf(cl) \cup {c})
        /\ Cardinality(HoldingOf(cl) \cup {c}) = Cardinality(HoldingOf(cl)) + 1
    BY <2>1, <1>3, FS_AddElement
  <2> QED
    BY <2>2, <1>5, <1>8
<1>10. Cardinality(QueuedOf(cm)) = IF cm[c].wasQueued = TRUE THEN q + 1 ELSE q
  <2>1. IsFiniteSet(QueuedOf(cl))
    BY <1>1, QueuedFinite DEF BooksOk, CountsOk
  <2>2. Cardinality(QueuedOf(cl) \cup {c}) = Cardinality(QueuedOf(cl)) + 1
    BY <2>1, <1>3, FS_AddElement
  <2>3. QueuedOf(cl) \ {c} = QueuedOf(cl)
    BY <1>3
  <2> QED
    BY <2>2, <2>3, <1>2, <1>8 DEF SetsMoved
<1>11. PICK l \in Nat, n \in Nat : l = Cardinality(LeakedOf(cl)) /\ n = Len(line)
  BY <1>1, FS_CardinalityType DEF BooksOk, CountsOk, LineOk
<1>12. free \in Nat /\ free + h = MaxConcurrent /\ slots = q + n + l
  BY <1>1, <1>8, <1>11 DEF BooksOk, CountsOk
<1>13. free - 1 \in Nat /\ (free - 1) + (h + 1) = MaxConcurrent /\ slots + 1 = (q + 1) + n + l
  BY <1>12
<1>14. BooksOk(cm, free - 1, line, IF cm[c].wasQueued = TRUE THEN slots + 1 ELSE slots)
  BY <1>1, <1>5, <1>6, <1>9, <1>10, <1>11, <1>12, <1>13 DEF BooksOk, CountsOk
<1> QED
  BY <1>2, <1>7, <1>14 DEF PathOk

\* A caller joins the line.
LEMMA JoinLine ==
  ASSUME NEW cl, NEW free, NEW line, NEW slots, PathOk(cl, free, line, slots), free = 0,
         NEW c \in Callers, NEW cm, Moved(cl, cm, c),
         cl[c].pc \notin HoldPcs \cup {"waiting"}, cl[c].result # "leaked",
         cm[c].pc = "waiting"
  PROVE  PathOk(cm, free, Append(line, c), slots + 1)
<1>1. PhasesOk(cl) /\ LineOk(cl, line) /\ BooksOk(cl, free, line, slots)
  BY DEF PathOk
<1>0. \A x \in Callers : x # c => cm[x] = cl[x]
  BY DEF Moved
<1>2. PhasesOk(cm) /\ SetsMoved(cl, cm, c)
  BY <1>1, OneMove
<1>3. cm[c].pc \notin HoldPcs /\ cm[c].result # "leaked"
  BY DEF HoldPcs, Phase, Moved
<1>4. HoldingOf(cm) = HoldingOf(cl) /\ QueuedOf(cm) = QueuedOf(cl) /\ LeakedOf(cm) = LeakedOf(cl)
  <2>1. c \notin HoldingOf(cl) /\ c \notin QueuedOf(cl) /\ c \notin LeakedOf(cl)
    BY DEF HoldingOf, QueuedOf, LeakedOf
  <2> QED
    BY <2>1, <1>2, <1>3 DEF SetsMoved
<1>5. PICK longer : longer = Append(line, c)
  OBVIOUS
<1>6. PICK n \in Nat : n = Len(line)
  BY <1>1 DEF LineOk
<1>7. /\ longer \in Seq(Callers) /\ Len(longer) = n + 1 /\ DOMAIN longer = 1..(n + 1) /\ DOMAIN line = 1..n
      /\ longer[n + 1] = c /\ \A i \in 1..n : longer[i] = line[i]
  BY <1>1, <1>5, <1>6 DEF LineOk
<1>8. \A i \in 1..n : line[i] # c
  BY <1>1, <1>7 DEF LineOk
<1>9. LineOk(cm, longer)
  <2>1. \A i, j \in DOMAIN longer : longer[i] = longer[j] => i = j
    <3> SUFFICES ASSUME NEW i \in 1..(n + 1), NEW j \in 1..(n + 1), longer[i] = longer[j] PROVE i = j
      BY <1>7
    <3>1. CASE i \in 1..n /\ j \in 1..n
      BY <3>1, <1>1, <1>7 DEF LineOk
    <3>2. CASE i = n + 1 \/ j = n + 1
      <4>1. ASSUME NEW k \in 1..(n + 1), longer[k] = c PROVE k = n + 1
        BY <4>1, <1>7, <1>8
      <4> QED
        BY <3>2, <4>1, <1>7
    <3> QED
      BY <3>1, <3>2
  <2>2. \A x \in Callers : cm[x].pc = "waiting" <=> \E i \in DOMAIN longer : longer[i] = x
    <3> SUFFICES ASSUME NEW x \in Callers
                 PROVE  cm[x].pc = "waiting" <=> \E i \in DOMAIN longer : longer[i] = x
      OBVIOUS
    <3>1. CASE x = c
      <4>1. n + 1 \in DOMAIN longer
        BY <1>7
      <4> QED
        BY <3>1, <4>1, <1>2, <1>7
    <3>2. CASE x # c
      <4>1. cl[x].pc = "waiting" <=> \E i \in 1..n : line[i] = x
        BY <1>1, <1>7 DEF LineOk
      <4>2. (\E i \in 1..n : line[i] = x) <=> (\E i \in DOMAIN longer : longer[i] = x)
        BY <3>2, <1>7
      <4> QED
        BY <3>2, <4>1, <4>2, <1>0
    <3> QED
      BY <3>1, <3>2
  <2> QED
    BY <2>1, <2>2, <1>7 DEF LineOk
<1>10. BooksOk(cm, free, longer, slots + 1)
  <2>1. PICK q \in Nat, l \in Nat : q = Cardinality(QueuedOf(cl)) /\ l = Cardinality(LeakedOf(cl))
    BY <1>1, QueuedFinite, FS_CardinalityType DEF BooksOk, CountsOk
  <2>2. slots + 1 = q + (n + 1) + l
    BY <2>1, <1>1, <1>6 DEF BooksOk, CountsOk
  <2> QED
    BY <2>1, <2>2, <1>1, <1>4, <1>7 DEF BooksOk, CountsOk
<1> QED
  BY <1>2, <1>5, <1>9, <1>10 DEF PathOk

\* A holder gives its permit and its slot back; nobody has taken them yet.
LEMMA Drop ==
  ASSUME NEW cl, NEW free, NEW line, NEW slots, PathOk(cl, free, line, slots),
         NEW c \in Callers, NEW cm, Moved(cl, cm, c),
         cl[c].pc \in HoldPcs, cm[c].pc = "done", cm[c].result # "leaked"
  PROVE  /\ PhasesOk(cm) /\ LineOk(cm, line)
         /\ CountsOk(cm, free + 1, line, IF cl[c].wasQueued = TRUE THEN slots - 1 ELSE slots)
<1>0. \A x \in Callers : x # c => cm[x] = cl[x]
  BY DEF Moved
<1>1. PhasesOk(cl) /\ LineOk(cl, line) /\ CountsOk(cl, free, line, slots)
  BY DEF PathOk, BooksOk
<1>2. PhasesOk(cm) /\ SetsMoved(cl, cm, c)
  BY <1>1, OneMove
<1>3. cm[c].pc \notin HoldPcs
  BY DEF HoldPcs
<1>4. cl[c].pc # "waiting" /\ cl[c].result # "leaked"
  BY <1>1 DEF HoldPcs, PhasesOk, Phase
<1>5. /\ c \in HoldingOf(cl) /\ HoldingOf(cm) = HoldingOf(cl) \ {c}
      /\ QueuedOf(cm) = QueuedOf(cl) \ {c} /\ (c \in QueuedOf(cl) <=> cl[c].wasQueued = TRUE)
      /\ LeakedOf(cm) = LeakedOf(cl)
  BY <1>2, <1>3, <1>4 DEF SetsMoved, HoldingOf, QueuedOf, LeakedOf
<1>6. LineOk(cm, line)
  BY <1>0, <1>1, <1>4 DEF LineOk
<1>7. IsFiniteSet(HoldingOf(cl)) /\ IsFiniteSet(QueuedOf(cl)) /\ IsFiniteSet(LeakedOf(cl))
  BY <1>1, QueuedFinite DEF CountsOk
<1>8. PICK h \in Nat, q \in Nat, l \in Nat, n \in Nat :
        /\ h = Cardinality(HoldingOf(cl)) /\ q = Cardinality(QueuedOf(cl))
        /\ l = Cardinality(LeakedOf(cl)) /\ n = Len(line)
  BY <1>1, <1>7, FS_CardinalityType DEF LineOk
<1>9. IsFiniteSet(HoldingOf(cm)) /\ Cardinality(HoldingOf(cm)) = h - 1
  BY <1>5, <1>7, <1>8, FS_RemoveElement
<1>10. Cardinality(QueuedOf(cm)) = IF cl[c].wasQueued = TRUE THEN q - 1 ELSE q
  <2>1. CASE c \in QueuedOf(cl)
    <3>1. Cardinality(QueuedOf(cl) \ {c}) = Cardinality(QueuedOf(cl)) - 1
      BY <2>1, <1>7, FS_RemoveElement
    <3> QED
      BY <2>1, <3>1, <1>5, <1>8
  <2>2. CASE c \notin QueuedOf(cl)
    <3>1. QueuedOf(cl) \ {c} = QueuedOf(cl)
      BY <2>2
    <3> QED
      BY <2>2, <3>1, <1>5, <1>8
  <2> QED
    BY <2>1, <2>2
<1>11. free \in Nat /\ free + h = MaxConcurrent /\ slots = q + n + l
  BY <1>1, <1>8 DEF CountsOk
<1>12. free + 1 \in Nat /\ (free + 1) + (h - 1) = MaxConcurrent /\ slots - 1 = (q - 1) + n + l
  BY <1>11
<1>13. CountsOk(cm, free + 1, line, IF cl[c].wasQueued = TRUE THEN slots - 1 ELSE slots)
  BY <1>5, <1>7, <1>8, <1>9, <1>10, <1>11, <1>12 DEF CountsOk
<1> QED
  BY <1>2, <1>6, <1>13

\* The head of a line, and what is left without it.
LEMMA HeadAndTail ==
  ASSUME NEW cl, NEW line, LineOk(cl, line), line # << >>
  PROVE  /\ Head(line) \in Callers /\ cl[Head(line)].pc = "waiting"
         /\ Tail(line) \in Seq(Callers) /\ Len(line) \in Nat /\ Len(Tail(line)) = Len(line) - 1
         /\ \A i, j \in DOMAIN Tail(line) : Tail(line)[i] = Tail(line)[j] => i = j
         /\ \A x \in Callers : (\E i \in DOMAIN Tail(line) : Tail(line)[i] = x)
                               <=> cl[x].pc = "waiting" /\ x # Head(line)
<1>1. PICK n \in Nat : n = Len(line) /\ n > 0 /\ line \in Seq(Callers) /\ DOMAIN line = 1..n
  BY DEF LineOk
<1>2. PICK rest : rest = Tail(line)
  OBVIOUS
<1>3. /\ rest \in Seq(Callers) /\ Len(rest) = n - 1 /\ DOMAIN rest = 1..(n - 1)
      /\ \A i \in 1..(n - 1) : rest[i] = line[i + 1]
  BY <1>1, <1>2
<1>4. Head(line) = line[1] /\ 1 \in DOMAIN line /\ line[1] \in Callers
  BY <1>1
<1>5. \A i, j \in 1..n : line[i] = line[j] => i = j
  BY <1>1 DEF LineOk
<1>6. \A i, j \in 1..(n - 1) : rest[i] = rest[j] => i = j
  <2> SUFFICES ASSUME NEW i \in 1..(n - 1), NEW j \in 1..(n - 1), rest[i] = rest[j] PROVE i = j
    OBVIOUS
  <2>1. i + 1 \in 1..n /\ j + 1 \in 1..n /\ line[i + 1] = line[j + 1]
    BY <1>3
  <2>2. i + 1 = j + 1
    BY <2>1, <1>5
  <2> QED
    BY <2>2
<1>7. cl[Head(line)].pc = "waiting"
  BY <1>4 DEF LineOk
<1>8. ASSUME NEW x \in Callers
      PROVE  (\E i \in 1..(n - 1) : rest[i] = x) <=> cl[x].pc = "waiting" /\ x # line[1]
  <2>1. cl[x].pc = "waiting" <=> \E k \in 1..n : line[k] = x
    BY <1>1 DEF LineOk
  <2>2. ASSUME NEW i \in 1..(n - 1), rest[i] = x PROVE cl[x].pc = "waiting" /\ x # line[1]
    <3>1. i + 1 \in 1..n /\ line[i + 1] = x /\ i + 1 # 1 /\ 1 \in 1..n
      BY <2>2, <1>1, <1>3
    <3> QED
      BY <3>1, <2>1, <1>5
  <2>3. ASSUME NEW k \in 1..n, line[k] = x, x # line[1] PROVE \E i \in 1..(n - 1) : rest[i] = x
    <3>1. k - 1 \in 1..(n - 1) /\ (k - 1) + 1 = k
      BY <2>3
    <3>2. rest[k - 1] = x
      BY <3>1, <2>3, <1>3
    <3> QED
      BY <3>1, <3>2
  <2> QED
    BY <2>1, <2>2, <2>3
<1> QED
  BY <1>1, <1>2, <1>3, <1>4, <1>6, <1>7, <1>8

\* The first in line takes the permit that was given back.
LEMMA PassHead ==
  ASSUME NEW cl, NEW free \in Nat, NEW line, NEW slots, PhasesOk(cl), LineOk(cl, line),
         CountsOk(cl, free + 1, line, slots), line # << >>,
         NEW cm, Moved(cl, cm, Head(line)), cm[Head(line)].pc = "running",
         cm[Head(line)].wasQueued = cl[Head(line)].wasQueued
  PROVE  PhasesOk(cm) /\ LineOk(cm, Tail(line)) /\ CountsOk(cm, free, Tail(line), slots)
<1>1. PICK c : c = Head(line)
  OBVIOUS
<1>2. PICK rest : rest = Tail(line)
  OBVIOUS
<1>3. /\ c \in Callers /\ cl[c].pc = "waiting"
      /\ rest \in Seq(Callers) /\ Len(line) \in Nat /\ Len(rest) = Len(line) - 1
      /\ \A i, j \in DOMAIN rest : rest[i] = rest[j] => i = j
      /\ \A x \in Callers : (\E i \in DOMAIN rest : rest[i] = x) <=> cl[x].pc = "waiting" /\ x # c
  BY <1>1, <1>2, HeadAndTail
<1>4. Moved(cl, cm, c) /\ cm[c].pc = "running" /\ cm[c].wasQueued = cl[c].wasQueued
  BY <1>1
<1>5. PhasesOk(cm) /\ SetsMoved(cl, cm, c)
  BY <1>3, <1>4, OneMove
<1>6. \A x \in Callers : x # c => cm[x] = cl[x]
  BY <1>4 DEF Moved
<1>7. /\ cm[c].pc \in HoldPcs /\ cm[c].wasQueued = TRUE /\ cm[c].result # "leaked"
      /\ cl[c].pc \notin HoldPcs /\ cl[c].result # "leaked"
  BY <1>3, <1>4, <1>5 DEF HoldPcs, PhasesOk, Phase
<1>8. /\ HoldingOf(cm) = HoldingOf(cl) \cup {c} /\ c \notin HoldingOf(cl)
      /\ QueuedOf(cm) = QueuedOf(cl) \cup {c} /\ c \notin QueuedOf(cl)
      /\ LeakedOf(cm) = LeakedOf(cl)
  BY <1>5, <1>7 DEF SetsMoved, HoldingOf, QueuedOf, LeakedOf
<1>9. LineOk(cm, rest)
  BY <1>3, <1>4, <1>6 DEF LineOk
<1>10. IsFiniteSet(HoldingOf(cl)) /\ IsFiniteSet(QueuedOf(cl)) /\ IsFiniteSet(LeakedOf(cl))
  BY QueuedFinite DEF CountsOk
<1>11. PICK h \in Nat, q \in Nat, l \in Nat, n \in Nat :
        /\ h = Cardinality(HoldingOf(cl)) /\ q = Cardinality(QueuedOf(cl))
        /\ l = Cardinality(LeakedOf(cl)) /\ n = Len(line)
  BY <1>3, <1>10, FS_CardinalityType
<1>12. IsFiniteSet(HoldingOf(cm)) /\ Cardinality(HoldingOf(cm)) = h + 1
  BY <1>8, <1>10, <1>11, FS_AddElement
<1>13. Cardinality(QueuedOf(cm)) = q + 1
  BY <1>8, <1>10, <1>11, FS_AddElement
<1>14. (free + 1) + h = MaxConcurrent /\ slots = q + n + l
  BY <1>11 DEF CountsOk
<1>15. free + (h + 1) = MaxConcurrent /\ slots = (q + 1) + (n - 1) + l
  BY <1>14
<1>16. CountsOk(cm, free, rest, slots)
  BY <1>3, <1>8, <1>10, <1>11, <1>12, <1>13, <1>15 DEF CountsOk
<1> QED
  BY <1>2, <1>5, <1>9, <1>16

\* A caller is dropped while it stands in line: it leaves, its slot stays taken.
LEMMA LeaveLine ==
  ASSUME NEW cl, NEW free, NEW line, NEW slots, PathOk(cl, free, line, slots),
         NEW c \in Callers, NEW cm, Moved(cl, cm, c), cl[c].pc = "waiting",
         cm[c].pc = "done", cm[c].result = "leaked",
         NEW i \in DOMAIN line, line[i] = c
  PROVE  PathOk(cm, free, SubSeq(line, 1, i - 1) \o SubSeq(line, i + 1, Len(line)), slots)
<1>0. \A x \in Callers : x # c => cm[x] = cl[x]
  BY DEF Moved
<1>1. PhasesOk(cl) /\ LineOk(cl, line) /\ CountsOk(cl, free, line, slots) /\ free = 0
  BY DEF PathOk, BooksOk, LineOk
<1>2. PhasesOk(cm) /\ SetsMoved(cl, cm, c)
  BY <1>1, OneMove
<1>3. cm[c].pc \notin HoldPcs /\ cl[c].pc \notin HoldPcs /\ cl[c].result # "leaked"
  BY <1>1 DEF HoldPcs, PhasesOk, Phase
<1>4. /\ HoldingOf(cm) = HoldingOf(cl) /\ QueuedOf(cm) = QueuedOf(cl)
      /\ LeakedOf(cm) = LeakedOf(cl) \cup {c} /\ c \notin LeakedOf(cl)
  BY <1>2, <1>3 DEF SetsMoved, HoldingOf, QueuedOf, LeakedOf
<1>5. PICK n \in Nat : n = Len(line) /\ line \in Seq(Callers) /\ DOMAIN line = 1..n
  BY <1>1 DEF LineOk
<1>6. PICK rest : rest = SubSeq(line, 1, i - 1) \o SubSeq(line, i + 1, Len(line))
  OBVIOUS
<1>7. /\ rest \in Seq(Callers) /\ Len(rest) = n - 1 /\ DOMAIN rest = 1..(n - 1)
      /\ \A k \in 1..(n - 1) : rest[k] = IF k < i THEN line[k] ELSE line[k + 1]
  <2>1. PICK a : a = SubSeq(line, 1, i - 1)
    OBVIOUS
  <2>2. PICK b : b = SubSeq(line, i + 1, Len(line))
    OBVIOUS
  <2>3. i \in 1..n
    BY <1>5
  <2>4. a \in Seq(Callers) /\ Len(a) = i - 1 /\ \A k \in 1..(i - 1) : a[k] = line[k]
    BY <2>1, <2>3, <1>5
  <2>5. b \in Seq(Callers) /\ Len(b) = n - i /\ \A k \in 1..(n - i) : b[k] = line[i + k]
    BY <2>2, <2>3, <1>5
  <2>6. rest = a \o b
    BY <2>1, <2>2, <1>6
  <2>7. rest \in Seq(Callers) /\ Len(rest) = n - 1 /\ DOMAIN rest = 1..(n - 1)
    <3>1. rest \in Seq(Callers) /\ Len(rest) = Len(a) + Len(b)
      <4>1. a \in Seq(Callers) /\ b \in Seq(Callers)
        BY <2>4, <2>5
      <4> QED
        BY <4>1, <2>6, ConcatProperties
    <3>2. Len(a) + Len(b) = n - 1
      BY <2>3, <2>4, <2>5
    <3>3. DOMAIN rest = 1..Len(rest)
      BY <3>1
    <3> QED
      BY <3>1, <3>2, <3>3
  <2>8. ASSUME NEW k \in 1..(n - 1) PROVE rest[k] = IF k < i THEN line[k] ELSE line[k + 1]
    <3>1. CASE k < i
      BY <3>1, <2>3, <2>4, <2>5, <2>6
    <3>2. CASE ~(k < i)
      <4>1. k - (i - 1) \in 1..(n - i) /\ i + (k - (i - 1)) = k + 1
        BY <3>2, <2>3
      <4>2. rest[k] = b[k - (i - 1)]
        BY <3>2, <2>3, <2>4, <2>5, <2>6
      <4>3. b[k - (i - 1)] = line[i + (k - (i - 1))]
        BY <4>1, <2>5
      <4> QED
        BY <3>2, <4>1, <4>2, <4>3
    <3> QED
      BY <3>1, <3>2
  <2> QED
    BY <2>7, <2>8
<1>8. \A j, k \in 1..n : line[j] = line[k] => j = k
  BY <1>1, <1>5 DEF LineOk
<1>9. LineOk(cm, rest)
  <2>1. ASSUME NEW j \in 1..(n - 1), NEW k \in 1..(n - 1), rest[j] = rest[k] PROVE j = k
    <3>1. PICK p \in 1..n : p = IF j < i THEN j ELSE j + 1
      OBVIOUS
    <3>2. PICK q \in 1..n : q = IF k < i THEN k ELSE k + 1
      OBVIOUS
    <3>3. line[p] = line[q]
      BY <3>1, <3>2, <2>1, <1>7
    <3>4. p = q
      BY <3>3, <1>8
    <3> QED
      BY <3>1, <3>2, <3>4, <1>5
  <2>2. ASSUME NEW x \in Callers
        PROVE  cm[x].pc = "waiting" <=> \E k \in 1..(n - 1) : rest[k] = x
    <3>1. cl[x].pc = "waiting" <=> \E k \in 1..n : line[k] = x
      BY <1>1, <1>5 DEF LineOk
    <3>2. ASSUME NEW k \in 1..(n - 1), rest[k] = x PROVE x # c /\ \E p \in 1..n : line[p] = x
      <4>1. PICK p \in 1..n : p = IF k < i THEN k ELSE k + 1
        OBVIOUS
      <4>2. line[p] = x /\ p # i
        BY <4>1, <3>2, <1>5, <1>7
      <4>3. x # c
        BY <4>2, <1>5, <1>8
      <4> QED
        BY <4>2, <4>3
    <3>3. ASSUME NEW p \in 1..n, line[p] = x, x # c PROVE \E k \in 1..(n - 1) : rest[k] = x
      <4>1. p # i
        BY <3>3
      <4>2. PICK k \in 1..(n - 1) : p = IF k < i THEN k ELSE k + 1
        <5>1. CASE p < i
          <6>1. p \in 1..(n - 1)
            BY <5>1, <1>5
          <6> QED
            BY <6>1, <5>1
        <5>2. CASE p > i
          <6>1. p - 1 \in 1..(n - 1) /\ ~(p - 1 < i) /\ (p - 1) + 1 = p
            BY <5>2, <1>5
          <6> QED
            BY <6>1
        <5> QED
          BY <4>1, <5>1, <5>2, <1>5
      <4>3. rest[k] = x
        BY <4>2, <3>3, <1>7
      <4> QED
        BY <4>3
    <3>4. CASE x = c
      BY <3>2, <3>4
    <3>5. CASE x # c
      BY <3>1, <3>2, <3>3, <3>5, <1>0
    <3> QED
      BY <3>4, <3>5
  <2> QED
    BY <2>1, <2>2, <1>7 DEF LineOk
<1>10. BooksOk(cm, free, rest, slots)
  <2>1. IsFiniteSet(HoldingOf(cl)) /\ IsFiniteSet(QueuedOf(cl)) /\ IsFiniteSet(LeakedOf(cl))
    BY <1>1, QueuedFinite DEF CountsOk
  <2>2. PICK q \in Nat, l \in Nat : q = Cardinality(QueuedOf(cl)) /\ l = Cardinality(LeakedOf(cl))
    BY <2>1, FS_CardinalityType
  <2>3. IsFiniteSet(LeakedOf(cm)) /\ Cardinality(LeakedOf(cm)) = l + 1
    BY <2>1, <2>2, <1>4, FS_AddElement
  <2>4. slots = q + n + l
    BY <2>2, <1>1, <1>5 DEF CountsOk
  <2>5. slots = q + (n - 1) + (l + 1)
    BY <2>4
  <2> QED
    BY <2>1, <2>2, <2>3, <2>5, <1>1, <1>4, <1>7 DEF BooksOk, CountsOk
<1> QED
  BY <1>2, <1>6, <1>9, <1>10 DEF PathOk

\* What a step of the path keeps: the books, and nobody but a caller that
\* arrives is admitted.
PathKept ==
  /\ PathOk(call', permits', waiting', queued')
  /\ \A x \in Callers : call'[x].pc = "checked" => call[x].pc # "idle"

\* Set moves one caller.
LEMMA SetMoves ==
  ASSUME PhasesOk(call), NEW c \in Callers, NEW r \in CallRecords, Phase(r), Set(c, r)
  PROVE  Moved(call, call', c) /\ call'[c] = r
BY DEF Set, PhasesOk, Moved

\* A move that takes and gives back nothing, as a step.
LEMMA PlainStep ==
  ASSUME PathOk(call, permits, waiting, queued), NEW c \in Callers, NEW r \in CallRecords,
         Phase(r), Set(c, r), UNCHANGED <<permits, waiting, queued>>,
         call[c].pc # "waiting", r.pc # "waiting", call[c].result # "leaked", r.result # "leaked",
         r.pc \in HoldPcs <=> call[c].pc \in HoldPcs,
         r.pc \in HoldPcs => r.wasQueued = call[c].wasQueued
  PROVE  /\ PathOk(call', permits', waiting', queued')
         /\ \A x \in Callers : call'[x].pc = "checked" => (IF x = c THEN r.pc = "checked" ELSE call[x].pc = "checked")
<1>1. PhasesOk(call)
  BY DEF PathOk
<1>2. Moved(call, call', c) /\ call'[c] = r
  BY <1>1, SetMoves
<1>3. PathOk(call', permits, waiting, queued)
  BY <1>2, PlainMove
<1>4. \A x \in Callers : call'[x].pc = "checked" => (IF x = c THEN r.pc = "checked" ELSE call[x].pc = "checked")
  BY <1>2 DEF Moved
<1> QED
  BY <1>3, <1>4

\* A caller's record, by its place.
LEMMA CallType ==
  ASSUME PathOk(call, permits, waiting, queued), NEW c \in Callers
  PROVE  /\ PhasesOk(call) /\ call[c] \in CallRecords /\ Phase(call[c])
         /\ call[c].result = "leaked" => call[c].pc = "done"
BY DEF PathOk, PhasesOk, Phase

\* A caller that holds no permit ends, or one that holds one returns from its
\* handler.
LEMMA EndStep ==
  ASSUME PathOk(call, permits, waiting, queued), NEW c \in Callers,
         NEW place \in {"done", "returned"}, NEW result \in Results \ {"leaked"},
         Set(c, [call[c] EXCEPT !.pc = place, !.result = result]),
         UNCHANGED <<permits, waiting, queued>>,
         call[c].pc # "waiting", call[c].pc # "done", place = "returned" <=> call[c].pc \in HoldPcs
  PROVE  PathKept
<1>1. /\ PhasesOk(call) /\ call[c] \in CallRecords /\ Phase(call[c])
      /\ call[c].result # "leaked"
  BY CallType
<1>2. PICK r : r = [call[c] EXCEPT !.pc = place, !.result = result]
  OBVIOUS
<1>3. r \in CallRecords /\ Phase(r) /\ r.pc = place /\ r.result = result /\ r.wasQueued = call[c].wasQueued
  BY <1>1, <1>2 DEF CallRecords, Phase, HoldPcs
<1>4. Set(c, r)
  BY <1>2
<1>5. r.pc # "waiting" /\ r.pc # "checked" /\ r.result # "leaked" /\ (r.pc \in HoldPcs <=> call[c].pc \in HoldPcs)
  BY <1>3 DEF HoldPcs
<1>6. /\ PathOk(call', permits', waiting', queued')
      /\ \A x \in Callers : call'[x].pc = "checked" => (IF x = c THEN r.pc = "checked" ELSE call[x].pc = "checked")
  BY <1>1, <1>3, <1>4, <1>5, PlainStep
<1> QED
  BY <1>5, <1>6 DEF PathKept

\* A freed permit is passed on.
LEMMA PassKeeps ==
  ASSUME PathOk(call, permits, waiting, queued), NEW c \in Callers, NEW cm, Moved(call, cm, c),
         call[c].pc \in HoldPcs, cm[c].pc = "done", cm[c].result # "leaked",
         PassOn(waiting, cm), queued' = QueuedAfterDrop(c), clock \in Nat
  PROVE  PathKept
<1>1. PhasesOk(call) /\ LineOk(call, waiting) /\ BooksOk(call, permits, waiting, queued) /\ call[c] \in CallRecords
  BY DEF PathOk, PhasesOk
<1>2. PICK after : after = IF call[c].wasQueued = TRUE THEN queued - 1 ELSE queued
  OBVIOUS
<1>3. PhasesOk(cm) /\ LineOk(cm, waiting) /\ CountsOk(cm, permits + 1, waiting, after)
  BY <1>2, Drop
<1>4. queued' = after
  <2>1. call[c].wasQueued \in BOOLEAN
    BY <1>1 DEF CallRecords
  <2> QED
    BY <2>1, <1>2 DEF QueuedAfterDrop
<1>5. \A x \in Callers : cm[x].pc = "checked" => call[x].pc = "checked"
  BY DEF Moved
<1>6. CASE waiting = << >>
  <2>1. permits' = permits + 1 /\ waiting' = waiting /\ call' = cm
    BY <1>6 DEF PassOn
  <2>2. PathOk(cm, permits + 1, waiting, after)
    BY <1>3, <1>6 DEF PathOk, BooksOk
  <2> QED
    BY <2>1, <2>2, <1>4, <1>5 DEF PathKept
<1>7. CASE waiting # << >>
  <2>1. PICK h : h = Head(waiting)
    OBVIOUS
  <2>2. /\ permits' = permits /\ waiting' = Tail(waiting)
        /\ call' = [cm EXCEPT ![h].pc = "running", ![h].start = clock]
    BY <1>7, <2>1 DEF PassOn
  <2>3. h \in Callers /\ cm[h].pc = "waiting"
    BY <2>1, <1>3, <1>7, HeadAndTail
  <2>4. cm \in [Callers -> CallRecords] /\ cm[h] \in CallRecords /\ Phase(cm[h])
    BY <2>3, <1>3 DEF PhasesOk
  <2>5. /\ call'[h] = [cm[h] EXCEPT !.pc = "running", !.start = clock]
        /\ DOMAIN call' = Callers /\ \A x \in Callers : x # h => call'[x] = cm[x]
        /\ call' = [x \in Callers |-> call'[x]]
    BY <2>2, <2>3, <2>4
  <2>6. /\ call'[h] \in CallRecords /\ call'[h].pc = "running"
        /\ call'[h].wasQueued = cm[h].wasQueued /\ call'[h].result = cm[h].result
    BY <2>4, <2>5 DEF CallRecords, HoldPcs
  <2>7. Phase(call'[h])
    BY <2>3, <2>4, <2>6 DEF Phase
  <2>8. Moved(cm, call', h)
    <3>1. \A x \in Callers : call'[x] \in CallRecords
      BY <2>4, <2>5, <2>6
    <3>2. call' \in [Callers -> CallRecords]
      BY <3>1, <2>5
    <3> QED
      BY <3>2, <2>5, <2>7 DEF Moved
  <2>9. permits \in Nat /\ permits = 0
    BY <1>1, <1>7 DEF BooksOk, CountsOk
  <2>10. PhasesOk(call') /\ LineOk(call', Tail(waiting)) /\ CountsOk(call', permits, Tail(waiting), after)
    BY <2>1, <2>6, <2>8, <2>9, <1>3, <1>7, PassHead
  <2>11. PathOk(call', permits, Tail(waiting), after)
    BY <2>9, <2>10 DEF PathOk, BooksOk
  <2>12. \A x \in Callers : call'[x].pc = "checked" => call[x].pc # "idle"
    BY <2>5, <2>6, <1>5
  <2> QED
    BY <2>2, <2>11, <2>12, <1>4 DEF PathKept
<1> QED
  BY <1>6, <1>7

\* Every capability of a registered tool has its handler.
HandledOk == \A n \in DOMAIN tools : ToSet(tools[n].descriptor.caps) \subseteq tools[n].handlers

Rows == [at : Nat, n : Nat]

\* The closed breaker holds part of what it was told of, and all of what it
\* was told of at this instant.
BreakerOk ==
  /\ clock \in Nat
  /\ breaker \in [status : {"Closed", "Open", "HalfOpen"}, failures : SUBSET Rows, opened : Nat]
  /\ failLog \subseteq Rows /\ IsFiniteSet(failLog) /\ \A f \in failLog : f.at <= clock
  /\ breaker.status = "Closed" =>
       breaker.failures \subseteq failLog /\ \A f \in failLog : f.at = clock => f \in breaker.failures

ToolsInv == PathOk(call, permits, waiting, queued) /\ HandledOk /\ BreakerOk

\* The timeout of an invocation.
LEMMA TimeoutType ==
  ASSUME NEW t \in {0, MaxTimeout + 1}
  PROVE  ResolveTimeout(t, 0) \in Nat
BY ToolsAssumption DEF ResolveTimeout

\* A caller arrives: it is refused, or checked.
LEMMA BeginKeeps ==
  ASSUME ToolsInv, NEW c \in Callers, NEW name, NEW cap \in Capabilities,
         NEW t \in {0, MaxTimeout + 1}, Begin(c, name, cap, t)
  PROVE  /\ PathOk(call', permits', waiting', queued')
         /\ \A x \in Callers : call'[x].pc = "checked" => call[x].pc # "idle" \/ CheckVerdict # "refuse"
<1>1. PathOk(call, permits, waiting, queued) /\ HandledOk
  BY DEF ToolsInv
<1>2. /\ PhasesOk(call) /\ call[c] \in CallRecords /\ Phase(call[c])
      /\ call[c].pc = "idle" /\ call[c].result # "leaked" /\ call[c] = Idle
  BY <1>1, CallType DEF Begin, Phase
<1>3. UNCHANGED <<permits, waiting, queued>>
  BY DEF Begin
<1>4. PICK r : r = [call[c] EXCEPT !.pc = "checked", !.cap = cap, !.probe = CheckVerdict = "probe",
                                   !.timeout = ResolveTimeout(t, 0)]
  OBVIOUS
<1>5. \/ Finish(c, "ValidationFailed") \/ Finish(c, "Unavailable")
      \/ CheckVerdict # "refuse" /\ Set(c, r)
  <2>1. (name \in DOMAIN tools /\ cap \in ToSet(tools[name].descriptor.caps)) => cap \in tools[name].handlers
    BY <1>1 DEF HandledOk
  <2> QED
    BY <2>1, <1>4 DEF Begin
<1>6. ASSUME NEW result \in {"ValidationFailed", "Unavailable"}, Finish(c, result)
      PROVE  PathKept
  <2>1. Set(c, [call[c] EXCEPT !.pc = "done", !.result = result])
    BY <1>6 DEF Finish
  <2>2. result \in Results \ {"leaked"}
    BY DEF Results
  <2>3. call[c].pc # "waiting" /\ call[c].pc # "done" /\ call[c].pc \notin HoldPcs
    BY <1>2 DEF HoldPcs
  <2> QED
    BY <2>1, <2>2, <2>3, <1>1, <1>3, EndStep
<1>7. CASE CheckVerdict # "refuse" /\ Set(c, r)
  <2>1. ResolveTimeout(t, 0) \in Nat
    BY TimeoutType
  <2>2. /\ r \in CallRecords /\ r.pc = "checked" /\ r.result = call[c].result
        /\ r.wasQueued = call[c].wasQueued
    BY <2>1, <1>2, <1>4 DEF CallRecords
  <2>3. Phase(r) /\ r.pc \notin HoldPcs /\ call[c].pc \notin HoldPcs
    BY <2>2, <1>2 DEF Phase, Idle, HoldPcs
  <2>4. /\ PathOk(call', permits', waiting', queued')
        /\ \A x \in Callers : call'[x].pc = "checked" => (IF x = c THEN r.pc = "checked" ELSE call[x].pc = "checked")
    BY <2>2, <2>3, <1>1, <1>2, <1>3, <1>7, PlainStep
  <2> QED
    BY <2>4, <1>7
<1> QED
  BY <1>5, <1>6, <1>7 DEF PathKept

\* A caller asks for a permit: it gets one, is refused, or will queue.
LEMMA TryAcquireKeeps ==
  ASSUME ToolsInv, NEW c \in Callers, TryAcquire(c)
  PROVE  PathKept
<1>1. PathOk(call, permits, waiting, queued) /\ clock \in Nat
  BY DEF ToolsInv, BreakerOk
<1>2. /\ PhasesOk(call) /\ call[c] \in CallRecords /\ Phase(call[c])
      /\ call[c].pc = "checked" /\ call[c].result # "leaked" /\ call[c].wasQueued = FALSE
  BY <1>1, CallType DEF TryAcquire, Phase
<1>3. call[c].pc \notin HoldPcs
  BY <1>2 DEF HoldPcs
<1>4. CASE permits > 0
  <2>1. PICK r : r = [call[c] EXCEPT !.pc = "running", !.start = clock]
    OBVIOUS
  <2>2. Set(c, r) /\ permits' = permits - 1 /\ waiting' = waiting /\ queued' = queued
    BY <2>1, <1>4 DEF TryAcquire
  <2>3. /\ r \in CallRecords /\ r.pc = "running" /\ r.result = call[c].result /\ r.wasQueued = FALSE
    BY <2>1, <1>1, <1>2 DEF CallRecords, HoldPcs
  <2>4. Phase(r) /\ r.pc \in HoldPcs
    BY <2>3, <1>2 DEF Phase, HoldPcs
  <2>5. Moved(call, call', c) /\ call'[c] = r
    BY <2>2, <2>3, <2>4, <1>2, SetMoves
  <2>6. PathOk(call', permits - 1, waiting, IF call'[c].wasQueued = TRUE THEN queued + 1 ELSE queued)
    <3>1. call[c].pc \notin HoldPcs \cup {"waiting"} /\ call'[c].pc \in HoldPcs
      BY <2>4, <2>5, <1>2, <1>3
    <3> QED
      BY <3>1, <2>5, <1>1, <1>2, <1>4, TakePermit
  <2>7. \A x \in Callers : call'[x].pc = "checked" => call[x].pc # "idle"
    BY <2>3, <2>5 DEF Moved
  <2> QED
    BY <2>2, <2>3, <2>5, <2>6, <2>7 DEF PathKept
<1>5. CASE ~(permits > 0) /\ queued >= MaxQueued
  <2>1. Set(c, [call[c] EXCEPT !.pc = "done", !.result = "Overloaded"]) /\ UNCHANGED <<permits, waiting, queued>>
    BY <1>5 DEF TryAcquire, Finish
  <2>2. "Overloaded" \in Results \ {"leaked"}
    BY DEF Results
  <2> QED
    BY <2>1, <2>2, <1>1, <1>2, <1>3, EndStep
<1>6. CASE ~(permits > 0) /\ ~(queued >= MaxQueued)
  <2>1. PICK r : r = [call[c] EXCEPT !.pc = "loaded"]
    OBVIOUS
  <2>2. Set(c, r) /\ UNCHANGED <<permits, waiting, queued>>
    BY <2>1, <1>6 DEF TryAcquire
  <2>3. /\ r \in CallRecords /\ r.pc = "loaded" /\ r.result = call[c].result /\ r.wasQueued = FALSE
    BY <2>1, <1>2 DEF CallRecords
  <2>4. Phase(r) /\ r.pc \notin HoldPcs
    BY <2>3, <1>2 DEF Phase, HoldPcs
  <2>5. /\ PathOk(call', permits', waiting', queued')
        /\ \A x \in Callers : call'[x].pc = "checked" => (IF x = c THEN r.pc = "checked" ELSE call[x].pc = "checked")
    BY <2>2, <2>3, <2>4, <1>1, <1>2, <1>3, PlainStep
  <2> QED
    BY <2>3, <2>5 DEF PathKept
<1> QED
  BY <1>4, <1>5, <1>6

\* A caller takes a slot, and a permit or a place in line.
LEMMA EnqueueKeeps ==
  ASSUME ToolsInv, NEW c \in Callers, Enqueue(c)
  PROVE  PathKept
<1>1. PathOk(call, permits, waiting, queued) /\ clock \in Nat
  BY DEF ToolsInv, BreakerOk
<1>2. /\ PhasesOk(call) /\ call[c] \in CallRecords /\ Phase(call[c])
      /\ call[c].pc = "loaded" /\ call[c].result # "leaked" /\ call[c].wasQueued = FALSE
  BY <1>1, CallType DEF Enqueue, Phase
<1>3. call[c].pc \notin HoldPcs \cup {"waiting"}
  BY <1>2 DEF HoldPcs
<1>4. CASE permits > 0
  <2>1. PICK r : r = [call[c] EXCEPT !.pc = "running", !.wasQueued = TRUE, !.start = clock]
    OBVIOUS
  <2>2. Set(c, r) /\ permits' = permits - 1 /\ waiting' = waiting /\ queued' = queued + 1
    BY <2>1, <1>4 DEF Enqueue
  <2>3. /\ r \in CallRecords /\ r.pc = "running" /\ r.result = call[c].result /\ r.wasQueued = TRUE
    BY <2>1, <1>1, <1>2 DEF CallRecords, HoldPcs
  <2>4. Phase(r) /\ r.pc \in HoldPcs
    BY <2>3, <1>2 DEF Phase, HoldPcs
  <2>5. Moved(call, call', c) /\ call'[c] = r
    BY <2>2, <2>3, <2>4, <1>2, SetMoves
  <2>6. PathOk(call', permits - 1, waiting, IF call'[c].wasQueued = TRUE THEN queued + 1 ELSE queued)
    <3>1. call'[c].pc \in HoldPcs
      BY <2>4, <2>5
    <3> QED
      BY <3>1, <2>5, <1>1, <1>2, <1>3, <1>4, TakePermit
  <2>7. \A x \in Callers : call'[x].pc = "checked" => call[x].pc # "idle"
    BY <2>3, <2>5 DEF Moved
  <2> QED
    BY <2>2, <2>3, <2>5, <2>6, <2>7 DEF PathKept
<1>5. CASE ~(permits > 0)
  <2>1. PICK r : r = [call[c] EXCEPT !.pc = "waiting", !.wasQueued = TRUE]
    OBVIOUS
  <2>2. Set(c, r) /\ permits' = permits /\ waiting' = Append(waiting, c) /\ queued' = queued + 1
    BY <2>1, <1>5 DEF Enqueue
  <2>3. /\ r \in CallRecords /\ r.pc = "waiting" /\ r.result = call[c].result /\ r.wasQueued = TRUE
    BY <2>1, <1>2 DEF CallRecords
  <2>4. Phase(r)
    BY <2>3, <1>2 DEF Phase
  <2>5. Moved(call, call', c) /\ call'[c] = r
    BY <2>2, <2>3, <2>4, <1>2, SetMoves
  <2>6. permits = 0
    BY <1>1, <1>5 DEF PathOk, BooksOk, CountsOk
  <2>7. PathOk(call', permits, Append(waiting, c), queued + 1)
    <3>1. call'[c].pc = "waiting"
      BY <2>3, <2>5
    <3> QED
      BY <3>1, <2>5, <2>6, <1>1, <1>2, <1>3, JoinLine
  <2>8. \A x \in Callers : call'[x].pc = "checked" => call[x].pc # "idle"
    BY <2>3, <2>5 DEF Moved
  <2> QED
    BY <2>2, <2>7, <2>8 DEF PathKept
<1> QED
  BY <1>4, <1>5

\* What a handler can return.
LEMMA HandlerResultsType == HandlerResults \subseteq Results \ {"leaked"}
<1>1. /\ ProcessResult("notSpawned") = "InternalError" /\ ProcessResult("tooSlow") = "Timeout"
      /\ ProcessResult("exitZero") = "Ok" /\ ProcessResult("exitNonZero") = "InternalError"
  BY DEF ProcessResult
<1> QED
  BY <1>1 DEF HandlerResults, Results

\* A permit's holder returns from its handler, or before it.
LEMMA ReturnedKeeps ==
  ASSUME ToolsInv, NEW c \in Callers, call[c].pc \in {"running", "invoked"},
         NEW result \in Results \ {"leaked"}, Returned(c, result), UNCHANGED <<permits, waiting, queued>>
  PROVE  PathKept
<1>1. PathOk(call, permits, waiting, queued)
  BY DEF ToolsInv
<1>2. Set(c, [call[c] EXCEPT !.pc = "returned", !.result = result])
  BY DEF Returned
<1>3. call[c].pc # "waiting" /\ call[c].pc # "done" /\ call[c].pc \in HoldPcs
  BY DEF HoldPcs
<1> QED
  BY <1>1, <1>2, <1>3, EndStep

\* A permit's holder is given to its handler.
LEMMA InvokeKeeps ==
  ASSUME ToolsInv, NEW c \in Callers, NEW valid \in BOOLEAN, Invoke(c, valid)
  PROVE  PathKept
<1>1. PathOk(call, permits, waiting, queued) /\ clock \in Nat
  BY DEF ToolsInv, BreakerOk
<1>2. /\ PhasesOk(call) /\ call[c] \in CallRecords /\ Phase(call[c])
      /\ call[c].pc = "running" /\ call[c].result # "leaked" /\ UNCHANGED <<permits, waiting, queued>>
  BY <1>1, CallType DEF Invoke
<1>3. PICK r : r = [call[c] EXCEPT !.pc = "invoked", !.start = clock]
  OBVIOUS
<1>4. Returned(c, "ValidationFailed") \/ Returned(c, "Cancelled") \/ Set(c, r)
  BY <1>3 DEF Invoke
<1>5. {"ValidationFailed", "Cancelled"} \subseteq Results \ {"leaked"}
  BY DEF Results
<1>6. CASE Returned(c, "ValidationFailed") \/ Returned(c, "Cancelled")
  BY <1>2, <1>5, <1>6, ReturnedKeeps
<1>7. CASE Set(c, r)
  <2>1. /\ r \in CallRecords /\ r.pc = "invoked" /\ r.result = call[c].result
        /\ r.wasQueued = call[c].wasQueued
    BY <1>1, <1>2, <1>3 DEF CallRecords, HoldPcs
  <2>2. Phase(r) /\ r.pc \in HoldPcs /\ call[c].pc \in HoldPcs
    BY <2>1, <1>2 DEF Phase, HoldPcs
  <2>3. /\ PathOk(call', permits', waiting', queued')
        /\ \A x \in Callers : call'[x].pc = "checked" => (IF x = c THEN r.pc = "checked" ELSE call[x].pc = "checked")
    BY <2>1, <2>2, <1>1, <1>2, <1>7, PlainStep
  <2> QED
    BY <2>1, <2>3 DEF PathKept
<1> QED
  BY <1>4, <1>6, <1>7

\* The breaker is told of an outcome: the caller still holds its permit.
LEMMA RecordKeeps ==
  ASSUME ToolsInv, NEW c \in Callers, Record(c)
  PROVE  PathKept
<1>1. PathOk(call, permits, waiting, queued)
  BY DEF ToolsInv
<1>2. /\ PhasesOk(call) /\ call[c] \in CallRecords /\ Phase(call[c])
      /\ call[c].pc = "returned" /\ call[c].result # "leaked" /\ UNCHANGED <<permits, waiting, queued>>
  BY <1>1, CallType DEF Record
<1>3. PICK r : r = [call[c] EXCEPT !.pc = "recorded"]
  OBVIOUS
<1>4. Set(c, r)
  BY <1>3 DEF Record
<1>5. /\ r \in CallRecords /\ r.pc = "recorded" /\ r.result = call[c].result
      /\ r.wasQueued = call[c].wasQueued
  BY <1>2, <1>3 DEF CallRecords, HoldPcs
<1>6. Phase(r) /\ r.pc \in HoldPcs /\ call[c].pc \in HoldPcs
  BY <1>5, <1>2 DEF Phase, HoldPcs
<1>7. /\ PathOk(call', permits', waiting', queued')
      /\ \A x \in Callers : call'[x].pc = "checked" => (IF x = c THEN r.pc = "checked" ELSE call[x].pc = "checked")
  BY <1>1, <1>2, <1>4, <1>5, <1>6, PlainStep
<1> QED
  BY <1>5, <1>7 DEF PathKept

\* The caller takes its result away.
LEMMA ReturnKeeps ==
  ASSUME ToolsInv, NEW c \in Callers, Return(c)
  PROVE  PathKept
<1>1. PathOk(call, permits, waiting, queued)
  BY DEF ToolsInv
<1>2. /\ PhasesOk(call) /\ call[c] \in CallRecords /\ Phase(call[c])
      /\ call[c].pc = "done" /\ call[c].result # "leaked" /\ UNCHANGED <<permits, waiting, queued>>
  BY <1>1, CallType DEF Return
<1>3. PICK r : r = Idle
  OBVIOUS
<1>4. Set(c, r)
  BY <1>3 DEF Return, Set
<1>5. r \in CallRecords /\ r.pc = "idle" /\ r.result = "none"
  BY <1>3 DEF CallRecords, Idle, Results
<1>6. Phase(r) /\ r.pc \notin HoldPcs /\ call[c].pc \notin HoldPcs
  BY <1>2, <1>3, <1>5 DEF Phase, HoldPcs
<1>7. /\ PathOk(call', permits', waiting', queued')
      /\ \A x \in Callers : call'[x].pc = "checked" => (IF x = c THEN r.pc = "checked" ELSE call[x].pc = "checked")
  BY <1>1, <1>2, <1>4, <1>5, <1>6, PlainStep
<1> QED
  BY <1>5, <1>7 DEF PathKept

\* The permit guard is dropped when execute returns.
LEMMA ReleaseKeeps ==
  ASSUME ToolsInv, NEW c \in Callers, Release(c)
  PROVE  PathKept
<1>1. PathOk(call, permits, waiting, queued) /\ clock \in Nat
  BY DEF ToolsInv, BreakerOk
<1>2. /\ PhasesOk(call) /\ call[c] \in CallRecords /\ Phase(call[c])
      /\ call[c].pc = "recorded" /\ call[c].result # "leaked"
  BY <1>1, CallType DEF Release
<1>3. PICK cm : cm = [call EXCEPT ![c].pc = "done"]
  OBVIOUS
<1>4. PassOn(waiting, cm) /\ queued' = QueuedAfterDrop(c)
  BY <1>3 DEF Release
<1>5. PICK r : r = [call[c] EXCEPT !.pc = "done"]
  OBVIOUS
<1>6. r \in CallRecords /\ r.pc = "done" /\ r.result = call[c].result
  BY <1>2, <1>5 DEF CallRecords
<1>7. Phase(r)
  BY <1>2, <1>6 DEF Phase
<1>8. cm = [call EXCEPT ![c] = r]
  BY <1>3, <1>5
<1>9. Moved(call, cm, c) /\ cm[c] = r
  BY <1>2, <1>6, <1>7, <1>8 DEF Moved, PhasesOk
<1>10. call[c].pc \in HoldPcs
  BY <1>2 DEF HoldPcs
<1> QED
  BY <1>1, <1>2, <1>4, <1>6, <1>9, <1>10, PassKeeps

\* The future of an invocation is dropped: with a permit, or in line.
LEMMA AbandonKeeps ==
  ASSUME ToolsInv, NEW c \in Callers, Abandon(c)
  PROVE  PathKept
<1>1. PathOk(call, permits, waiting, queued) /\ clock \in Nat
  BY DEF ToolsInv, BreakerOk
<1>2. PhasesOk(call) /\ call[c] \in CallRecords /\ Phase(call[c])
  BY <1>1, CallType
<1>3. CASE call[c].pc \in {"running", "invoked"}
  <2>1. PICK cm : cm = [call EXCEPT ![c].pc = "done", ![c].result = "dropped"]
    OBVIOUS
  <2>2. PassOn(waiting, cm) /\ queued' = QueuedAfterDrop(c)
    BY <2>1, <1>3 DEF Abandon
  <2>3. PICK r : r = [call[c] EXCEPT !.pc = "done", !.result = "dropped"]
    OBVIOUS
  <2>4. r \in CallRecords /\ r.pc = "done" /\ r.result = "dropped"
    BY <2>3, <1>2 DEF CallRecords, Results
  <2>5. Phase(r)
    BY <2>4 DEF Phase
  <2>6. cm = [call EXCEPT ![c] = r]
    BY <2>1, <2>3, <1>2 DEF PhasesOk
  <2>7. Moved(call, cm, c) /\ cm[c] = r
    BY <2>4, <2>5, <2>6, <1>2 DEF Moved, PhasesOk
  <2>8. call[c].pc \in HoldPcs
    BY <1>3 DEF HoldPcs
  <2> QED
    BY <1>1, <2>2, <2>4, <2>7, <2>8, PassKeeps
<1>4. CASE call[c].pc = "waiting"
  <2>1. /\ Finish(c, "leaked") /\ permits' = permits /\ queued' = queued
        /\ \E i \in DOMAIN waiting :
             waiting[i] = c /\ waiting' = SubSeq(waiting, 1, i - 1) \o SubSeq(waiting, i + 1, Len(waiting))
    BY <1>4 DEF Abandon
  <2>2. PICK i \in DOMAIN waiting :
          waiting[i] = c /\ waiting' = SubSeq(waiting, 1, i - 1) \o SubSeq(waiting, i + 1, Len(waiting))
    BY <2>1
  <2>3. PICK r : r = [call[c] EXCEPT !.pc = "done", !.result = "leaked"]
    OBVIOUS
  <2>4. r \in CallRecords /\ r.pc = "done" /\ r.result = "leaked"
    BY <2>3, <1>2 DEF CallRecords, Results
  <2>5. Phase(r) /\ Set(c, r)
    BY <2>1, <2>3, <2>4 DEF Phase, Finish
  <2>6. Moved(call, call', c) /\ call'[c] = r
    BY <2>4, <2>5, <1>2, SetMoves
  <2>7. PathOk(call', permits, SubSeq(waiting, 1, i - 1) \o SubSeq(waiting, i + 1, Len(waiting)), queued)
    BY <2>2, <2>4, <2>6, <1>1, <1>4, LeaveLine
  <2>8. \A x \in Callers : call'[x].pc = "checked" => call[x].pc # "idle"
    BY <2>4, <2>6 DEF Moved
  <2> QED
    BY <2>1, <2>2, <2>7, <2>8 DEF PathKept
<1> QED
  BY <1>3, <1>4 DEF Abandon

\* With nobody on the path, the fresh limiter's books are right.
LEMMA EmptyPath ==
  ASSUME NEW cl, cl = [c \in Callers |-> Idle]
  PROVE  PathOk(cl, MaxConcurrent, << >>, 0)
<1>1. Idle \in CallRecords /\ Phase(Idle) /\ Idle.pc = "idle" /\ Idle.result = "none" /\ Idle.pc \notin HoldPcs
  BY DEF Idle, CallRecords, Phase, Results, HoldPcs
<1>2. PhasesOk(cl)
  BY <1>1 DEF PhasesOk
<1>3. LineOk(cl, << >>)
  BY <1>1 DEF LineOk
<1>4. HoldingOf(cl) = {} /\ QueuedOf(cl) = {} /\ LeakedOf(cl) = {}
  BY <1>1 DEF HoldingOf, QueuedOf, LeakedOf
<1>5. BooksOk(cl, MaxConcurrent, << >>, 0)
  <2>1. IsFiniteSet({}) /\ Cardinality({}) = 0
    BY FS_EmptySet
  <2>2. MaxConcurrent \in Nat /\ Len(<< >>) = 0
    BY ToolsAssumption
  <2> QED
    BY <2>1, <2>2, <1>4 DEF BooksOk, CountsOk
<1> QED
  BY <1>2, <1>3, <1>5 DEF PathOk

\* Registration happens when nobody is on the path.
LEMMA RegisterKeeps ==
  ASSUME ToolsInv, NEW name, NEW p, Register(name, p)
  PROVE  PathKept /\ HandledOk'
<1>1. PathOk(call, permits, waiting, queued) /\ HandledOk
  BY DEF ToolsInv
<1>2. call = [c \in Callers |-> Idle]
  BY <1>1 DEF PathOk, PhasesOk, Phase, Register, Quiescent
<1>3. permits' = MaxConcurrent /\ waiting' = << >> /\ queued' = 0 /\ call' = call
  BY DEF Register
<1>4. PathKept
  <2>1. PathOk(call, MaxConcurrent, << >>, 0)
    BY <1>2, EmptyPath
  <2>2. \A x \in Callers : call[x].pc # "checked"
    BY <1>2 DEF Idle
  <2> QED
    BY <2>1, <2>2, <1>3 DEF PathKept
<1>5. HandledOk'
  <2>1. ToSet(p.descriptor.caps) \subseteq p.handlers
    BY DEF Register, PackageError
  <2>2. tools' = [n \in DOMAIN tools \cup {name} |-> IF n = name THEN p ELSE tools[n]]
    BY DEF Register
  <2> QED
    BY <2>1, <2>2, <1>1 DEF HandledOk
<1> QED
  BY <1>4, <1>5

\* What a step may do to the breaker: it opens from closed only on enough
\* failures of one window.
BreakerStep ==
  /\ BreakerOk'
  /\ breaker.status = "Closed" /\ breaker'.status = "Open" =>
       Cardinality({f \in failLog' : f.at + Window >= clock}) >= Threshold

\* A closed breaker is told of a failure.
LEMMA ClosedFailureKeeps ==
  ASSUME BreakerOk, breaker.status = "Closed", breaker' = ClosedFailure,
         failLog' = failLog \cup {FailureRow(failLog)}, clock' = clock
  PROVE  BreakerStep
<1>1. /\ clock \in Nat /\ Window \in Nat /\ Threshold \in Nat
      /\ breaker \in [status : {"Closed", "Open", "HalfOpen"}, failures : SUBSET Rows, opened : Nat]
      /\ failLog \subseteq Rows /\ IsFiniteSet(failLog) /\ \A f \in failLog : f.at <= clock
      /\ breaker.failures \subseteq failLog /\ \A f \in failLog : f.at = clock => f \in breaker.failures
  BY ToolsAssumption DEF BreakerOk
<1>2. PICK young : young = {f \in breaker.failures : f.at + Window >= clock}
  OBVIOUS
<1>3. {f \in young : f.at = clock} = {f \in failLog : f.at = clock}
  <2>1. \A f \in failLog : f.at = clock => f.at + Window >= clock
    BY <1>1
  <2> QED
    BY <2>1, <1>1, <1>2
<1>4. PICK row : row = FailureRow(failLog)
  OBVIOUS
<1>5. FailureRow(young) = row
  BY <1>3, <1>4 DEF FailureRow
<1>6. row \in Rows /\ row.at = clock
  <2>1. IsFiniteSet({f \in failLog : f.at = clock})
    BY <1>1, FS_Subset
  <2>2. Cardinality({f \in failLog : f.at = clock}) \in Nat
    BY <2>1, FS_CardinalityType
  <2> QED
    BY <2>2, <1>1, <1>4 DEF FailureRow, Rows
<1>7. PICK failures : failures = young \cup {row}
  OBVIOUS
<1>8. breaker' = [breaker EXCEPT !.failures = failures,
                    !.status = IF Cardinality(failures) >= Threshold THEN "Open" ELSE breaker.status,
                    !.opened = IF Cardinality(failures) >= Threshold THEN clock ELSE breaker.opened]
  BY <1>1, <1>2, <1>5, <1>7 DEF ClosedFailure
<1>9. failures \subseteq Rows /\ failures \subseteq failLog'
  BY <1>1, <1>2, <1>4, <1>6, <1>7
<1>10. /\ breaker' \in [status : {"Closed", "Open", "HalfOpen"}, failures : SUBSET Rows, opened : Nat]
       /\ breaker'.failures = failures
       /\ breaker'.status = "Open" => Cardinality(failures) >= Threshold
  BY <1>1, <1>8, <1>9
<1>11. failLog' \subseteq Rows /\ IsFiniteSet(failLog') /\ \A f \in failLog' : f.at <= clock
  <2>1. IsFiniteSet(failLog \cup {row})
    BY <1>1, FS_AddElement
  <2> QED
    BY <2>1, <1>1, <1>4, <1>6
<1>12. \A f \in failLog' : f.at = clock => f \in failures
  <2>1. \A f \in failLog : f.at = clock => f \in young
    BY <1>3
  <2> QED
    BY <2>1, <1>4, <1>7
<1>13. BreakerOk'
  BY <1>1, <1>9, <1>10, <1>11, <1>12 DEF BreakerOk
<1>14. ASSUME breaker'.status = "Open"
       PROVE  Cardinality({f \in failLog' : f.at + Window >= clock}) >= Threshold
  <2>1. PICK window : window = {f \in failLog' : f.at + Window >= clock}
    OBVIOUS
  <2>2. failures \subseteq window
    <3>1. \A f \in failures : f.at + Window >= clock
      BY <1>1, <1>2, <1>6, <1>7
    <3> QED
      BY <3>1, <2>1, <1>9
  <2>3. IsFiniteSet(window)
    BY <2>1, <1>11, FS_Subset
  <2>4. /\ Cardinality(failures) <= Cardinality(window) /\ Cardinality(window) \in Nat
        /\ Cardinality(failures) \in Nat
    BY <2>2, <2>3, FS_Subset, FS_CardinalityType
  <2> QED
    BY <2>1, <2>4, <1>1, <1>10, <1>14
<1> QED
  BY <1>13, <1>14 DEF BreakerStep

\* The breaker is told of any outcome.
LEMMA RecordTells ==
  ASSUME ToolsInv, NEW c \in Callers, Record(c)
  PROVE  BreakerStep
<1>1. BreakerOk /\ clock' = clock
  BY DEF ToolsInv, Record
<1>2. PICK outcome : outcome = call[c].result
  OBVIOUS
<1>3. breaker' = Recorded(outcome)
  BY <1>2 DEF Record
<1>4. failLog' = IF Counts(outcome) /\ breaker.status = "Closed" THEN failLog \cup {FailureRow(failLog)}
                 ELSE IF breaker'.status = "Closed" /\ breaker.status # "Closed" THEN {} ELSE failLog
  BY <1>2 DEF Record
<1>5. CASE Counts(outcome) /\ breaker.status = "Closed"
  <2>1. breaker' = ClosedFailure
    BY <1>3, <1>5 DEF Recorded, Counts
  <2> QED
    BY <2>1, <1>1, <1>4, <1>5, ClosedFailureKeeps
<1>6. CASE Counts(outcome) /\ breaker.status = "HalfOpen"
  <2>1. breaker' = [breaker EXCEPT !.status = "Open", !.opened = clock]
    BY <1>3, <1>6 DEF Recorded, Counts
  <2>2. /\ breaker' \in [status : {"Closed", "Open", "HalfOpen"}, failures : SUBSET Rows, opened : Nat]
        /\ breaker'.status = "Open" /\ failLog' = failLog
    BY <2>1, <1>1, <1>4, <1>6 DEF BreakerOk
  <2> QED
    BY <2>2, <1>1, <1>6 DEF BreakerOk, BreakerStep
<1>7. CASE Counts(outcome) /\ breaker.status = "Open"
  <2>1. breaker' = breaker /\ failLog' = failLog
    BY <1>3, <1>4, <1>7 DEF Recorded, Counts
  <2> QED
    BY <2>1, <1>1, <1>7 DEF BreakerOk, BreakerStep
<1>8. CASE outcome = "Ok" /\ breaker.status = "HalfOpen"
  <2>1. breaker' = NewBreaker
    BY <1>3, <1>8 DEF Recorded
  <2>2. breaker'.status = "Closed" /\ breaker'.failures = {} /\ breaker'.opened = 0
        /\ breaker' \in [status : {"Closed", "Open", "HalfOpen"}, failures : SUBSET Rows, opened : Nat]
    BY <2>1 DEF NewBreaker
  <2>3. failLog' = {}
    BY <2>2, <1>4, <1>8 DEF Counts
  <2>4. IsFiniteSet({})
    BY FS_EmptySet
  <2> QED
    BY <2>2, <2>3, <2>4, <1>1, <1>8 DEF BreakerOk, BreakerStep
<1>9. CASE ~Counts(outcome) /\ ~(outcome = "Ok" /\ breaker.status = "HalfOpen")
  <2>1. breaker' = breaker
    BY <1>3, <1>9 DEF Recorded, Counts
  <2>2. failLog' = failLog
    BY <2>1, <1>4, <1>9
  <2> QED
    BY <2>1, <2>2, <1>1 DEF BreakerOk, BreakerStep
<1>10. breaker.status \in {"Closed", "Open", "HalfOpen"}
  BY <1>1 DEF BreakerOk
<1> QED
  BY <1>5, <1>6, <1>7, <1>8, <1>9, <1>10

\* An arrival may only turn an open breaker half open, after the cooldown.
LEMMA BeginTells ==
  ASSUME ToolsInv, NEW c \in Callers, NEW name, NEW cap, NEW t, Begin(c, name, cap, t)
  PROVE  BreakerStep
<1>1. BreakerOk /\ clock' = clock /\ failLog' = failLog
  BY DEF ToolsInv, Begin
<1>2. breaker' = breaker \/ (CheckVerdict = "probe" /\ breaker' = [breaker EXCEPT !.status = "HalfOpen"])
  BY DEF Begin
<1>3. CASE breaker' = breaker
  BY <1>1, <1>3 DEF BreakerOk, BreakerStep
<1>4. CASE breaker' = [breaker EXCEPT !.status = "HalfOpen"]
  <2>1. /\ breaker' \in [status : {"Closed", "Open", "HalfOpen"}, failures : SUBSET Rows, opened : Nat]
        /\ breaker'.status = "HalfOpen"
    BY <1>1, <1>4 DEF BreakerOk
  <2> QED
    BY <2>1, <1>1 DEF BreakerOk, BreakerStep
<1> QED
  BY <1>2, <1>3, <1>4

\* A verdict other than refusal.
LEMMA Admitted ==
  ASSUME BreakerOk, CheckVerdict # "refuse", breaker.status # "Closed"
  PROVE  breaker.status = "Open" /\ clock >= breaker.opened + Cooldown
<1>1. breaker.status \in {"Closed", "Open", "HalfOpen"} /\ breaker.opened \in Nat /\ clock \in Nat /\ Cooldown \in Nat
  BY ToolsAssumption DEF BreakerOk
<1>2. breaker.status = "Open"
  BY <1>1 DEF CheckVerdict
<1>3. clock - breaker.opened >= Cooldown
  BY <1>2 DEF CheckVerdict
<1> QED
  BY <1>1, <1>2, <1>3

\* What each step promises.
ToolStep ==
  /\ ToolsInv'
  /\ breaker.status = "Closed" /\ breaker'.status = "Open" =>
       Cardinality({f \in failLog' : f.at + Window >= clock}) >= Threshold
  /\ \A c \in Callers :
       (call[c].pc = "idle" /\ call'[c].pc = "checked" /\ breaker.status # "Closed")
         => breaker.status = "Open" /\ clock >= breaker.opened + Cooldown

\* A step of the path that leaves the breaker and the registry alone.
LEMMA PathStep ==
  ASSUME ToolsInv, PathKept, UNCHANGED <<tools, breaker, failLog, clock>>
  PROVE  ToolStep
<1>1. HandledOk' /\ BreakerOk'
  BY DEF ToolsInv, HandledOk, BreakerOk
<1>2. breaker.status = "Closed" => breaker'.status # "Open"
  OBVIOUS
<1> QED
  BY <1>1, <1>2 DEF ToolStep, ToolsInv, PathKept

\* Every step keeps the invariant, opens the breaker only for a cause and
\* admits nobody while it cools down.
LEMMA ToolsStep ==
  ASSUME ToolsInv, [ToolsNext]_toolVars
  PROVE  ToolStep
<1>0. PathOk(call, permits, waiting, queued) /\ HandledOk /\ BreakerOk
  BY DEF ToolsInv
<1>1. ASSUME NEW n \in ToolNames, NEW p, Register(n, p) PROVE ToolStep
  <2>1. PathKept /\ HandledOk'
    BY <1>1, RegisterKeeps
  <2>2. breaker' = NewBreaker /\ failLog' = {} /\ clock' = clock
    BY <1>1 DEF Register
  <2>3. /\ breaker' \in [status : {"Closed", "Open", "HalfOpen"}, failures : SUBSET Rows, opened : Nat]
        /\ breaker'.status = "Closed" /\ breaker'.failures = {}
    BY <2>2 DEF NewBreaker
  <2>4. IsFiniteSet({})
    BY FS_EmptySet
  <2>5. BreakerOk'
    BY <2>2, <2>3, <2>4, <1>0 DEF BreakerOk
  <2> QED
    BY <2>1, <2>3, <2>5 DEF ToolStep, ToolsInv, PathKept
<1>2. ASSUME NEW n \in ToolNames, Unregister(n) PROVE ToolStep
  <2>1. UNCHANGED <<breaker, permits, waiting, queued, call, clock, failLog>>
        /\ tools' = [m \in DOMAIN tools \ {n} |-> tools[m]]
    BY <1>2 DEF Unregister
  <2>2. HandledOk'
    BY <2>1, <1>0 DEF HandledOk
  <2>3. BreakerOk' /\ PathOk(call', permits', waiting', queued')
    BY <2>1, <1>0 DEF BreakerOk
  <2> QED
    BY <2>1, <2>2, <2>3 DEF ToolStep, ToolsInv
<1>3. ASSUME NEW c \in Callers, NEW n \in ToolNames, NEW cap \in Capabilities,
             NEW t \in {0, MaxTimeout + 1}, Begin(c, n, cap, t)
      PROVE  ToolStep
  <2>1. /\ PathOk(call', permits', waiting', queued')
        /\ \A x \in Callers : call'[x].pc = "checked" => call[x].pc # "idle" \/ CheckVerdict # "refuse"
    BY <1>3, BeginKeeps
  <2>2. BreakerStep
    BY <1>3, BeginTells
  <2>3. HandledOk'
    BY <1>0, <1>3 DEF Begin, HandledOk
  <2>4. (CheckVerdict # "refuse" /\ breaker.status # "Closed")
          => breaker.status = "Open" /\ clock >= breaker.opened + Cooldown
    BY <1>0, Admitted
  <2> QED
    BY <2>1, <2>2, <2>3, <2>4 DEF ToolStep, ToolsInv, BreakerStep
<1>4. ASSUME NEW c \in Callers, Record(c) PROVE ToolStep
  <2>1. PathKept /\ BreakerStep
    BY <1>4, RecordKeeps, RecordTells
  <2>2. HandledOk'
    BY <1>0, <1>4 DEF Record, HandledOk
  <2> QED
    BY <2>1, <2>2 DEF ToolStep, ToolsInv, BreakerStep, PathKept
<1>5. ASSUME NEW c \in Callers, TryAcquire(c) \/ Enqueue(c) \/ Release(c) \/ Abandon(c) \/ Return(c)
      PROVE  ToolStep
  <2>1. PathKept
    BY <1>5, TryAcquireKeeps, EnqueueKeeps, ReleaseKeeps, AbandonKeeps, ReturnKeeps
  <2>2. UNCHANGED <<tools, breaker, failLog, clock>>
    BY <1>5 DEF TryAcquire, Enqueue, Release, Abandon, Return
  <2> QED
    BY <2>1, <2>2, PathStep
<1>6. ASSUME NEW c \in Callers, NEW valid \in BOOLEAN, Invoke(c, valid) PROVE ToolStep
  <2>1. PathKept
    BY <1>6, InvokeKeeps
  <2>2. UNCHANGED <<tools, breaker, failLog, clock>>
    BY <1>6 DEF Invoke
  <2> QED
    BY <2>1, <2>2, PathStep
<1>7. ASSUME NEW c \in Callers, NEW o, Engine(c, o) PROVE ToolStep
  <2>1. o \in Results \ {"leaked"}
    BY <1>7, HandlerResultsType DEF Engine, Results
  <2>2. call[c].pc \in {"running", "invoked"} /\ Returned(c, o) /\ UNCHANGED <<permits, waiting, queued>>
    BY <1>7 DEF Engine
  <2>3. UNCHANGED <<tools, breaker, failLog, clock>>
    BY <1>7 DEF Engine
  <2> QED
    BY <2>1, <2>2, <2>3, ReturnedKeeps, PathStep
<1>8. ASSUME NEW c \in Callers, EngineTimeout(c) PROVE ToolStep
  <2>1. "Timeout" \in Results \ {"leaked"}
    BY DEF Results
  <2>2. call[c].pc \in {"running", "invoked"} /\ Returned(c, "Timeout") /\ UNCHANGED <<permits, waiting, queued>>
    BY <1>8 DEF EngineTimeout
  <2>3. UNCHANGED <<tools, breaker, failLog, clock>>
    BY <1>8 DEF EngineTimeout
  <2> QED
    BY <2>1, <2>2, <2>3, ReturnedKeeps, PathStep
<1>9. CASE CancelAgent \/ UNCHANGED toolVars
  <2>1. UNCHANGED <<tools, breaker, permits, waiting, queued, call, clock, failLog>>
    BY <1>9 DEF CancelAgent, toolVars
  <2>2. HandledOk' /\ BreakerOk' /\ PathOk(call', permits', waiting', queued')
    BY <2>1, <1>0 DEF HandledOk, BreakerOk
  <2> QED
    BY <2>1, <2>2 DEF ToolStep, ToolsInv
<1>10. CASE ToolTick
  <2>1. UNCHANGED <<tools, breaker, permits, waiting, queued, call, failLog>> /\ clock' = clock + 1
    BY <1>10 DEF ToolTick
  <2>2. HandledOk' /\ PathOk(call', permits', waiting', queued')
    BY <2>1, <1>0 DEF HandledOk
  <2>3. clock \in Nat /\ failLog \subseteq Rows /\ \A f \in failLog : f.at <= clock
    BY <1>0 DEF BreakerOk
  <2>4. \A f \in failLog : f.at <= clock + 1 /\ f.at # clock + 1
    BY <2>3 DEF Rows
  <2>5. BreakerOk'
    BY <2>1, <2>3, <2>4, <1>0 DEF BreakerOk
  <2> QED
    BY <2>1, <2>2, <2>5 DEF ToolStep, ToolsInv
<1> QED
  BY <1>1, <1>2, <1>3, <1>4, <1>5, <1>6, <1>7, <1>8, <1>9, <1>10 DEF ToolsNext

\* The tool path starts with nobody on it.
LEMMA ToolsInvInit == ToolsInit => ToolsInv
<1> SUFFICES ASSUME ToolsInit PROVE ToolsInv
  OBVIOUS
<1>1. PathOk(call, permits, waiting, queued)
  BY EmptyPath DEF ToolsInit
<1>2. HandledOk
  BY DEF ToolsInit, HandledOk
<1>3. IsFiniteSet({})
  BY FS_EmptySet
<1>4. BreakerOk
  BY <1>3 DEF ToolsInit, BreakerOk, NewBreaker
<1> QED
  BY <1>1, <1>2, <1>4 DEF ToolsInv

\* The books say what the properties of the path say.
LEMMA ToolsInvImplies == ToolsInv => PermitsConserved /\ QueueSlotsExact /\ NeverInconsistent
<1> SUFFICES ASSUME ToolsInv PROVE PermitsConserved /\ QueueSlotsExact /\ NeverInconsistent
  OBVIOUS
<1>1. call \in [Callers -> CallRecords] /\ BooksOk(call, permits, waiting, queued)
  BY DEF ToolsInv, PathOk, PhasesOk
<1>2. HoldingOf(call) = Holding /\ LeakedOf(call) = Leaked
  BY DEF HoldingOf, Holding, LeakedOf, Leaked, HoldPcs
<1>3. QueuedOf(call) = {c \in Holding : call[c].wasQueued}
  <2>1. \A c \in Callers : call[c].wasQueued \in BOOLEAN
    BY <1>1 DEF CallRecords
  <2> QED
    BY <2>1 DEF QueuedOf, Holding, HoldPcs
<1>4. NeverInconsistent
  BY <1>1 DEF NeverInconsistent, CallRecords, Results
<1> QED
  BY <1>1, <1>2, <1>3, <1>4 DEF BooksOk, CountsOk, PermitsConserved, QueueSlotsExact

\* For any callers, limits and breaker configuration: permits and queue slots
\* of the limiter are exact through every wait, drop and cancellation, an
\* invocation never meets a capability without its handler, and the breaker
\* opens only on enough failures of one window and then admits nobody before
\* its cooldown is over.
THEOREM ToolsAlwaysSound == ToolsSpec => ToolsSound
<1>1. ToolsInit => ToolsInv
  BY ToolsInvInit
<1>2. ToolsInv /\ [ToolsNext]_toolVars => ToolsInv'
  BY ToolsStep DEF ToolStep
<1>3. ToolsInv => PermitsConserved /\ QueueSlotsExact /\ NeverInconsistent
  BY ToolsInvImplies
<1>4. ToolsInv /\ [ToolsNext]_toolVars =>
        [breaker.status = "Closed" /\ breaker'.status = "Open" =>
           Cardinality({f \in failLog' : f.at + Window >= clock}) >= Threshold]_toolVars
  BY ToolsStep DEF ToolStep
<1>5. ToolsInv /\ [ToolsNext]_toolVars =>
        [\A c \in Callers :
           (call[c].pc = "idle" /\ call'[c].pc = "checked" /\ breaker.status # "Closed")
             => breaker.status = "Open" /\ clock >= breaker.opened + Cooldown]_toolVars
  BY ToolsStep DEF ToolStep
<1> QED
  BY <1>1, <1>2, <1>3, <1>4, <1>5, PTL DEF ToolsSpec, ToolsSound, TripsOnlyInWindow, OpenAdmitsNone

(* ---------------------------- calls and queues --------------------------- *)
Queues == {"agent", "coordinator", "highway"}
Ops == AgentUnary \cup CoordinatorUnary \cup HighwayUnary \cup Streaming
Things == [what : {"none", "envelope", "suspend", "signal", "entry"}, n : Nat]
Methods == {"query", "complete", "fetch", "commands", "wait", "suspend", "watch", "goal", "history", "approve"}

\* What a caller sees at the end of a call.
Seen == {"none", "ok", "Internal", "refused", "StreamEnded", "Timeout"} \cup Categories

ClientRecords ==
  [pc : {"idle", "want", "wait", "listen", "done"}, prog : Methods \cup {"none"}, run : Nat, at : Nat,
   env : Nat, res : Seen, status : Nat, ws : Nat, item : Things]

Requests == [from : Clients \cup {"peer"}, op : Ops, arg : Nat]

\* The call a client record stands before.
OpAt(c, r) == ProgramsOf(c)[r.prog][r.at]

\* A request whose sender waits for the reply.
Unary(r) == r.op \notin Streaming \cup {"reply"}

\* A client is inside one of its programs while it is busy, an item it took
\* ends a query only if it answers it, and complete goes on to its signal only
\* once the checkpoint is stored.
Course(c, r, stored) ==
  /\ r.pc \in {"want", "wait", "listen"} =>
       r.prog \in DOMAIN ProgramsOf(c) /\ r.at \in DOMAIN ProgramsOf(c)[r.prog]
  /\ r.pc = "wait" => OpAt(c, r) \notin Streaming
  /\ r.item # NoItem => r.pc = "done" /\ (r.prog = "query" => r.item.n = r.env)
  /\ r.pc \in {"want", "wait"} /\ r.prog = "complete" /\ r.at = 2 => c \in stored

ClientsOk(cl, stored) ==
  cl \in [Clients -> ClientRecords] /\ \A c \in Clients : Course(c, cl[c], stored)

\* A unary request belongs to a caller that waits for it.
Fits(cl, r) ==
  /\ r.op = "reply" \/ r.from \in Clients
  /\ Unary(r) => cl[r.from].pc = "wait" /\ r.op = OpAt(r.from, cl[r.from])

\* No caller has two of them.
OneEach(qu) ==
  \A s, z \in Queues : \A k \in DOMAIN qu[s], j \in DOMAIN qu[z] :
    Unary(qu[s][k]) /\ Unary(qu[z][j]) /\ qu[s][k].from = qu[z][j].from => s = z /\ k = j

AllFit(cl, qu) == \A s \in Queues : \A k \in DOMAIN qu[s] : Fits(cl, qu[s][k])

\* Every caller that waits has one.
AllAsked(cl, qu) ==
  \A c \in Clients : cl[c].pc = "wait" =>
    \E s \in Queues : \E k \in DOMAIN qu[s] : Unary(qu[s][k]) /\ qu[s][k].from = c

ReqsOk(cl, qu) ==
  qu \in [Queues -> Seq(Requests)] /\ AllFit(cl, qu) /\ OneEach(qu) /\ AllAsked(cl, qu)

\* The programs, one by one.
ProgramTexts ==
  {<<"send", "inbox">>, <<"checkpoint", "signal">>, <<"checkpoint", "read">>, <<"commands">>, <<"signals">>,
   <<"suspend">>, <<"trailStream">>, <<"submit">>, <<"trail">>, <<"gate">>}

\* A method's program is a short sequence of calls.
LEMMA ProgramText ==
  ASSUME NEW c \in Clients, NEW m \in DOMAIN ProgramsOf(c)
  PROVE  /\ m \in Methods /\ ProgramsOf(c)[m] \in ProgramTexts
         /\ m = "complete" <=> ProgramsOf(c)[m] = <<"checkpoint", "signal">>
         /\ m = "query" => c \in SdkTasks
<1>1. CASE c \in SdkTasks
  <2>1. ProgramsOf(c) = AgentProgram
    BY <1>1, ServicesAssumption DEF ProgramsOf
  <2>2. m \in {"query", "complete", "fetch", "commands"}
    BY <2>1 DEF AgentProgram
  <2>3. CASE m = "query"
    BY <1>1, <2>1, <2>3 DEF AgentProgram, ProgramTexts, Methods
  <2>4. CASE m = "complete"
    BY <2>1, <2>4 DEF AgentProgram, ProgramTexts, Methods
  <2>5. CASE m = "fetch"
    BY <2>1, <2>5 DEF AgentProgram, ProgramTexts, Methods
  <2>6. CASE m = "commands"
    BY <2>1, <2>6 DEF AgentProgram, ProgramTexts, Methods
  <2> QED
    BY <2>2, <2>3, <2>4, <2>5, <2>6
<1>2. CASE c \in CoordClients
  <2>1. ProgramsOf(c) = CoordinatorProgram
    BY <1>2, ServicesAssumption DEF ProgramsOf
  <2>2. m \in {"wait", "suspend"}
    BY <2>1 DEF CoordinatorProgram
  <2>3. CASE m = "wait"
    BY <2>1, <2>3 DEF CoordinatorProgram, ProgramTexts, Methods
  <2>4. CASE m = "suspend"
    BY <2>1, <2>4 DEF CoordinatorProgram, ProgramTexts, Methods
  <2> QED
    BY <2>2, <2>3, <2>4
<1>3. CASE c \in Operators
  <2>1. ProgramsOf(c) = OperatorProgram
    BY <1>3, ServicesAssumption DEF ProgramsOf
  <2>2. m \in {"watch", "goal", "history", "approve"}
    BY <2>1 DEF OperatorProgram
  <2>3. CASE m = "watch"
    BY <2>1, <2>3 DEF OperatorProgram, ProgramTexts, Methods
  <2>4. CASE m = "goal"
    BY <2>1, <2>4 DEF OperatorProgram, ProgramTexts, Methods
  <2>5. CASE m = "history"
    BY <2>1, <2>5 DEF OperatorProgram, ProgramTexts, Methods
  <2>6. CASE m = "approve"
    BY <2>1, <2>6 DEF OperatorProgram, ProgramTexts, Methods
  <2> QED
    BY <2>2, <2>3, <2>4, <2>5, <2>6
<1> QED
  BY <1>1, <1>2, <1>3 DEF Clients

\* A program is a run of calls; only complete's signals, and last.
WellCalled(p, complete) ==
  /\ Len(p) \in Nat \ {0} /\ DOMAIN p = 1..Len(p)
  /\ \A i \in DOMAIN p : p[i] \in Ops \ {"reply"} /\ (p[i] = "signal" => complete /\ i = 2)
  /\ complete => p[1] = "checkpoint"

\* The calls in a program.
LEMMA ProgramCalls ==
  ASSUME NEW p \in ProgramTexts
  PROVE  WellCalled(p, p = <<"checkpoint", "signal">>)
<1> USE DEF WellCalled, Ops, Streaming, AgentUnary, AgentStreams, CoordinatorUnary, CoordinatorStreams,
            HighwayUnary, HighwayStreams
<1>1. CASE p = <<"send", "inbox">>
  BY <1>1
<1>2. CASE p = <<"checkpoint", "signal">>
  BY <1>2
<1>3. CASE p = <<"checkpoint", "read">>
  BY <1>3
<1>4. CASE p = <<"commands">> \/ p = <<"signals">> \/ p = <<"suspend">>
  BY <1>4
<1>5. CASE p = <<"trailStream">> \/ p = <<"submit">>
  BY <1>5
<1>6. CASE p = <<"trail">> \/ p = <<"gate">>
  BY <1>6
<1> QED
  BY <1>1, <1>2, <1>3, <1>4, <1>5, <1>6 DEF ProgramTexts

\* What the programs consist of.
LEMMA Programs ==
  ASSUME NEW c \in Clients, NEW m \in DOMAIN ProgramsOf(c)
  PROVE  /\ m \in Methods /\ DOMAIN ProgramsOf(c)[m] = 1..Len(ProgramsOf(c)[m])
         /\ Len(ProgramsOf(c)[m]) \in Nat \ {0}
         /\ \A i \in DOMAIN ProgramsOf(c)[m] :
              /\ ProgramsOf(c)[m][i] \in Ops \ {"reply"}
              /\ ProgramsOf(c)[m][i] = "signal" => m = "complete" /\ i = 2
         /\ m = "complete" => ProgramsOf(c)[m][1] = "checkpoint"
         /\ m = "query" => c \in SdkTasks
<1>1. /\ m \in Methods
      /\ m = "query" => c \in SdkTasks
      /\ m = "complete" <=> ProgramsOf(c)[m] = <<"checkpoint", "signal">>
  BY ProgramText
<1>2. WellCalled(ProgramsOf(c)[m], ProgramsOf(c)[m] = <<"checkpoint", "signal">>)
  BY ProgramText, ProgramCalls
<1>3. WellCalled(ProgramsOf(c)[m], m = "complete")
  BY <1>1, <1>2 DEF WellCalled
<1> QED
  BY <1>1, <1>3 DEF WellCalled

\* The service of a call is one of the queues.
LEMMA ServiceType ==
  ASSUME NEW op \in Ops
  PROVE  ServiceOf(op) \in Queues
BY DEF ServiceOf, Ops, Queues, Streaming, AgentUnary, AgentStreams, CoordinatorUnary, CoordinatorStreams,
       HighwayUnary, HighwayStreams

\* Only c's record changed.
Changed(cl, cm, c) ==
  cm \in [Clients -> ClientRecords] /\ \A x \in Clients : x # c => cm[x] = cl[x]

\* A client that does not wait moves, and still does not.
LEMMA MoveKeepsReqs ==
  ASSUME NEW cl, NEW qu, ReqsOk(cl, qu), NEW c \in Clients, NEW cm, Changed(cl, cm, c),
         cl[c].pc # "wait", cm[c].pc # "wait"
  PROVE  ReqsOk(cm, qu)
<1>1. ASSUME NEW r, Fits(cl, r) PROVE Fits(cm, r)
  BY <1>1 DEF Fits, Changed, Unary
<1>2. AllFit(cm, qu)
  BY <1>1 DEF ReqsOk, AllFit
<1>3. \A x \in Clients : cm[x].pc = "wait" => cl[x].pc = "wait"
  BY DEF Changed
<1>4. AllAsked(cm, qu)
  BY <1>3 DEF ReqsOk, AllAsked
<1> QED
  BY <1>2, <1>4 DEF ReqsOk

\* A request is appended to a queue.
Longer(qu, qm, s, r) ==
  /\ qm \in [Queues -> Seq(Requests)] /\ \A z \in Queues : z # s => qm[z] = qu[z]
  /\ qm[s] = Append(qu[s], r)

\* Its place is new; all others keep theirs.
Grown(qu, qm, s, r, n) ==
  /\ n \in DOMAIN qm[s] /\ n \notin DOMAIN qu[s] /\ qm[s][n] = r
  /\ \A z \in Queues : \A k \in DOMAIN qu[z] : k \in DOMAIN qm[z] /\ qm[z][k] = qu[z][k]
  /\ \A z \in Queues : \A k \in DOMAIN qm[z] :
       (k \in DOMAIN qu[z] /\ qm[z][k] = qu[z][k]) \/ (z = s /\ k = n /\ qm[z][k] = r)

\* The positions of a queue that grew.
LEMMA LongerAt ==
  ASSUME NEW cl, NEW qu, ReqsOk(cl, qu), NEW qm, NEW s \in Queues, NEW r \in Requests, Longer(qu, qm, s, r)
  PROVE  \E n : Grown(qu, qm, s, r, n)
<1>1. qu[s] \in Seq(Requests)
  BY DEF ReqsOk
<1>2. PICK n \in Nat : n = Len(qu[s])
  BY <1>1
<1>3. DOMAIN qu[s] = 1..n /\ DOMAIN qm[s] = 1..(n + 1) /\ qm[s][n + 1] = r
  BY <1>1, <1>2 DEF Longer
<1>4. \A k \in 1..n : qm[s][k] = qu[s][k]
  BY <1>1, <1>2 DEF Longer
<1>5. \A z \in Queues : z # s => qm[z] = qu[z]
  BY DEF Longer
<1>6. \A z \in Queues : \A k \in DOMAIN qu[z] : k \in DOMAIN qm[z] /\ qm[z][k] = qu[z][k]
  <2> SUFFICES ASSUME NEW z \in Queues, NEW k \in DOMAIN qu[z]
               PROVE  k \in DOMAIN qm[z] /\ qm[z][k] = qu[z][k]
    OBVIOUS
  <2>1. CASE z = s
    BY <2>1, <1>3, <1>4
  <2>2. CASE z # s
    BY <2>2, <1>5
  <2> QED
    BY <2>1, <2>2
<1>7. ASSUME NEW z \in Queues, NEW k \in DOMAIN qm[z]
      PROVE  (k \in DOMAIN qu[z] /\ qm[z][k] = qu[z][k]) \/ (z = s /\ k = n + 1 /\ qm[z][k] = r)
  <2>1. CASE z = s
    BY <2>1, <1>3, <1>4
  <2>2. CASE z # s
    BY <2>2, <1>5
  <2> QED
    BY <2>1, <2>2
<1>8. n + 1 \in DOMAIN qm[s] /\ n + 1 \notin DOMAIN qu[s]
  BY <1>3
<1> QED
  BY <1>3, <1>6, <1>7, <1>8 DEF Grown

\* A caller sends a request and waits.
LEMMA AskKeepsReqs ==
  ASSUME NEW cl, NEW qu, ReqsOk(cl, qu), NEW c \in Clients, NEW cm, Changed(cl, cm, c),
         cl[c].pc # "wait", cm[c].pc = "wait",
         NEW s \in Queues, NEW r \in Requests, r.from = c, r.op = OpAt(c, cm[c]), Unary(r),
         NEW qm, Longer(qu, qm, s, r)
  PROVE  ReqsOk(cm, qm)
<1>1. PICK n : Grown(qu, qm, s, r, n)
  BY LongerAt
<1>2. /\ n \in DOMAIN qm[s] /\ qm[s][n] = r
      /\ \A z \in Queues : \A k \in DOMAIN qu[z] : k \in DOMAIN qm[z] /\ qm[z][k] = qu[z][k]
      /\ \A z \in Queues : \A k \in DOMAIN qm[z] :
           (k \in DOMAIN qu[z] /\ qm[z][k] = qu[z][k]) \/ (z = s /\ k = n /\ qm[z][k] = r)
  BY <1>1 DEF Grown
<1>3. \A z \in Queues : \A k \in DOMAIN qu[z] : Unary(qu[z][k]) => qu[z][k].from # c
  BY DEF ReqsOk, AllFit, Fits
<1>4. \A x \in Clients : x # c => cm[x] = cl[x]
  BY DEF Changed
<1>5. ASSUME NEW q, Fits(cl, q), Unary(q) => q.from # c PROVE Fits(cm, q)
  BY <1>4, <1>5 DEF Fits, Unary
<1>6. Fits(cm, r)
  BY DEF Fits
<1>7. AllFit(cm, qm)
  <2> SUFFICES ASSUME NEW z \in Queues, NEW k \in DOMAIN qm[z] PROVE Fits(cm, qm[z][k])
    BY DEF AllFit
  <2>1. CASE k \in DOMAIN qu[z] /\ qm[z][k] = qu[z][k]
    BY <2>1, <1>3, <1>5 DEF ReqsOk, AllFit
  <2>2. CASE qm[z][k] = r
    BY <2>2, <1>6
  <2> QED
    BY <2>1, <2>2, <1>2
<1>8. OneEach(qm)
  <2> SUFFICES ASSUME NEW y \in Queues, NEW z \in Queues, NEW k \in DOMAIN qm[y], NEW j \in DOMAIN qm[z],
                      Unary(qm[y][k]), Unary(qm[z][j]), qm[y][k].from = qm[z][j].from
               PROVE  y = z /\ k = j
    BY DEF OneEach
  <2>1. (k \in DOMAIN qu[y] /\ qm[y][k] = qu[y][k]) \/ (y = s /\ k = n /\ qm[y][k] = r)
    BY <1>2
  <2>2. (j \in DOMAIN qu[z] /\ qm[z][j] = qu[z][j]) \/ (z = s /\ j = n /\ qm[z][j] = r)
    BY <1>2
  <2>3. CASE k \in DOMAIN qu[y] /\ qm[y][k] = qu[y][k] /\ j \in DOMAIN qu[z] /\ qm[z][j] = qu[z][j]
    BY <2>3 DEF ReqsOk, OneEach
  <2> QED
    BY <2>1, <2>2, <2>3, <1>3
<1>9. AllAsked(cm, qm)
  <2> SUFFICES ASSUME NEW x \in Clients, cm[x].pc = "wait"
               PROVE  \E z \in Queues : \E k \in DOMAIN qm[z] : Unary(qm[z][k]) /\ qm[z][k].from = x
    BY DEF AllAsked
  <2>1. CASE x = c
    BY <2>1, <1>2
  <2>2. CASE x # c
    <3>1. PICK z \in Queues : \E k \in DOMAIN qu[z] : Unary(qu[z][k]) /\ qu[z][k].from = x
      BY <2>2, <1>4 DEF ReqsOk, AllAsked
    <3> QED
      BY <3>1, <1>2
  <2> QED
    BY <2>1, <2>2
<1> QED
  BY <1>7, <1>8, <1>9 DEF ReqsOk, Longer

\* A request nobody waits for is queued: a stream's registration, or a peer's
\* answer.
LEMMA NoteKeepsReqs ==
  ASSUME NEW cl, NEW qu, ReqsOk(cl, qu), NEW s \in Queues, NEW r \in Requests, ~Unary(r),
         r.op = "reply" \/ r.from \in Clients, NEW qm, Longer(qu, qm, s, r)
  PROVE  ReqsOk(cl, qm)
<1>1. PICK n : Grown(qu, qm, s, r, n)
  BY LongerAt
<1>2. /\ \A z \in Queues : \A k \in DOMAIN qu[z] : k \in DOMAIN qm[z] /\ qm[z][k] = qu[z][k]
      /\ \A z \in Queues : \A k \in DOMAIN qm[z] : (k \in DOMAIN qu[z] /\ qm[z][k] = qu[z][k]) \/ qm[z][k] = r
  BY <1>1 DEF Grown
<1>3. Fits(cl, r)
  BY DEF Fits
<1>4. AllFit(cl, qm)
  BY <1>2, <1>3 DEF ReqsOk, AllFit
<1>5. OneEach(qm)
  <2> SUFFICES ASSUME NEW y \in Queues, NEW z \in Queues, NEW k \in DOMAIN qm[y], NEW j \in DOMAIN qm[z],
                      Unary(qm[y][k]), Unary(qm[z][j]), qm[y][k].from = qm[z][j].from
               PROVE  y = z /\ k = j
    BY DEF OneEach
  <2>1. k \in DOMAIN qu[y] /\ qm[y][k] = qu[y][k] /\ j \in DOMAIN qu[z] /\ qm[z][j] = qu[z][j]
    BY <1>2
  <2> QED
    BY <2>1 DEF ReqsOk, OneEach
<1>6. AllAsked(cl, qm)
  <2> SUFFICES ASSUME NEW x \in Clients, cl[x].pc = "wait"
               PROVE  \E z \in Queues : \E k \in DOMAIN qm[z] : Unary(qm[z][k]) /\ qm[z][k].from = x
    BY DEF AllAsked
  <2>1. PICK z \in Queues : \E k \in DOMAIN qu[z] : Unary(qu[z][k]) /\ qu[z][k].from = x
    BY DEF ReqsOk, AllAsked
  <2> QED
    BY <2>1, <1>2
<1> QED
  BY <1>4, <1>5, <1>6 DEF ReqsOk, Longer

\* The head of a queue is taken.
Shorter(qu, qm, s) ==
  /\ qm \in [Queues -> Seq(Requests)] /\ \A z \in Queues : z # s => qm[z] = qu[z]
  /\ qm[s] = Tail(qu[s])

\* Where a request was before the head was taken.
Before(s, z, k) == IF z = s THEN k + 1 ELSE k

\* Only the head is gone.
Lost(qu, qm, s) ==
  /\ 1 \in DOMAIN qu[s] /\ Head(qu[s]) = qu[s][1]
  /\ \A z \in Queues : \A k \in DOMAIN qm[z] :
       /\ Before(s, z, k) \in DOMAIN qu[z] /\ ~(z = s /\ Before(s, z, k) = 1)
       /\ qm[z][k] = qu[z][Before(s, z, k)]
  /\ \A z \in Queues : \A k, j \in DOMAIN qm[z] : Before(s, z, k) = Before(s, z, j) => k = j
  /\ \A z \in Queues : \A k \in DOMAIN qu[z] :
       (z = s /\ k = 1) \/ \E j \in DOMAIN qm[z] : qm[z][j] = qu[z][k]

\* The positions of a queue that lost its head.
LEMMA ShorterAt ==
  ASSUME NEW cl, NEW qu, ReqsOk(cl, qu), NEW qm, NEW s \in Queues, qu[s] # << >>, Shorter(qu, qm, s)
  PROVE  Lost(qu, qm, s)
<1>1. qu[s] \in Seq(Requests)
  BY DEF ReqsOk
<1>2. PICK n \in Nat : n = Len(qu[s]) /\ n > 0 /\ DOMAIN qu[s] = 1..n
  BY <1>1
<1>3. /\ Len(qm[s]) = n - 1 /\ DOMAIN qm[s] = 1..(n - 1)
      /\ \A k \in 1..(n - 1) : qm[s][k] = qu[s][k + 1]
  BY <1>1, <1>2 DEF Shorter
<1>4. \A z \in Queues : z # s => qm[z] = qu[z]
  BY DEF Shorter
<1>5. 1 \in DOMAIN qu[s] /\ Head(qu[s]) = qu[s][1]
  BY <1>1, <1>2
<1>6. ASSUME NEW z \in Queues, NEW k \in DOMAIN qm[z]
      PROVE  /\ Before(s, z, k) \in DOMAIN qu[z] /\ ~(z = s /\ Before(s, z, k) = 1)
             /\ qm[z][k] = qu[z][Before(s, z, k)]
  <2>1. CASE z = s
    BY <2>1, <1>2, <1>3 DEF Before
  <2>2. CASE z # s
    BY <2>2, <1>4 DEF Before
  <2> QED
    BY <2>1, <2>2
<1>7. ASSUME NEW z \in Queues, NEW k \in DOMAIN qm[z], NEW j \in DOMAIN qm[z], Before(s, z, k) = Before(s, z, j)
      PROVE  k = j
  <2>1. CASE z = s
    BY <2>1, <1>2, <1>3, <1>7 DEF Before
  <2>2. CASE z # s
    BY <2>2, <1>7 DEF Before
  <2> QED
    BY <2>1, <2>2
<1>8. ASSUME NEW z \in Queues, NEW k \in DOMAIN qu[z]
      PROVE  (z = s /\ k = 1) \/ \E j \in DOMAIN qm[z] : qm[z][j] = qu[z][k]
  <2>1. CASE z = s /\ k # 1
    <3>1. k - 1 \in 1..(n - 1) /\ (k - 1) + 1 = k
      BY <2>1, <1>2
    <3> QED
      BY <3>1, <2>1, <1>3
  <2>2. CASE z # s
    BY <2>2, <1>4
  <2> QED
    BY <2>1, <2>2
<1> QED
  BY <1>5, <1>6, <1>7, <1>8 DEF Lost

\* Without its head the queue still has no caller twice.
LEMMA ShorterOnce ==
  ASSUME NEW qu, OneEach(qu), NEW qm, NEW s \in Queues, Lost(qu, qm, s)
  PROVE  OneEach(qm)
<1> SUFFICES ASSUME NEW y \in Queues, NEW z \in Queues, NEW k \in DOMAIN qm[y], NEW j \in DOMAIN qm[z],
                    Unary(qm[y][k]), Unary(qm[z][j]), qm[y][k].from = qm[z][j].from
             PROVE  y = z /\ k = j
  BY DEF OneEach
<1>1. Before(s, y, k) \in DOMAIN qu[y] /\ qm[y][k] = qu[y][Before(s, y, k)]
  BY DEF Lost
<1>2. Before(s, z, j) \in DOMAIN qu[z] /\ qm[z][j] = qu[z][Before(s, z, j)]
  BY DEF Lost
<1>3. y = z /\ Before(s, y, k) = Before(s, z, j)
  BY <1>1, <1>2 DEF OneEach
<1> QED
  BY <1>3 DEF Lost

\* The loop takes a request nobody waits for.
LEMMA TakeNoteKeepsReqs ==
  ASSUME NEW cl, NEW qu, ReqsOk(cl, qu), NEW s \in Queues, qu[s] # << >>, ~Unary(Head(qu[s])),
         NEW qm, Shorter(qu, qm, s)
  PROVE  ReqsOk(cl, qm)
<1>1. Lost(qu, qm, s)
  BY ShorterAt
<1>2. OneEach(qm)
  BY <1>1, ShorterOnce DEF ReqsOk
<1>3. AllFit(cl, qm)
  BY <1>1 DEF ReqsOk, AllFit, Lost
<1>4. AllAsked(cl, qm)
  <2> SUFFICES ASSUME NEW x \in Clients, cl[x].pc = "wait"
               PROVE  \E z \in Queues : \E k \in DOMAIN qm[z] : Unary(qm[z][k]) /\ qm[z][k].from = x
    BY DEF AllAsked
  <2>1. PICK z \in Queues : \E k \in DOMAIN qu[z] : Unary(qu[z][k]) /\ qu[z][k].from = x
    BY DEF ReqsOk, AllAsked
  <2>2. PICK k \in DOMAIN qu[z] : Unary(qu[z][k]) /\ qu[z][k].from = x
    BY <2>1
  <2>3. ~(z = s /\ k = 1)
    BY <2>2, <1>1 DEF Lost
  <2>4. PICK j \in DOMAIN qm[z] : qm[z][j] = qu[z][k]
    BY <2>3, <1>1 DEF Lost
  <2> QED
    BY <2>2, <2>4
<1> QED
  BY <1>2, <1>3, <1>4 DEF ReqsOk, Shorter

\* The loop takes a request and answers its caller, who stops waiting.
LEMMA AnswerKeepsReqs ==
  ASSUME NEW cl, NEW qu, ReqsOk(cl, qu), NEW s \in Queues, qu[s] # << >>, Unary(Head(qu[s])),
         NEW qm, Shorter(qu, qm, s),
         NEW c, c = Head(qu[s]).from, NEW cm, Changed(cl, cm, c), cm[c].pc # "wait"
  PROVE  ReqsOk(cm, qm)
<1>1. Lost(qu, qm, s)
  BY ShorterAt
<1>2. OneEach(qm)
  BY <1>1, ShorterOnce DEF ReqsOk
<1>3. \A x \in Clients : x # c => cm[x] = cl[x]
  BY DEF Changed
<1>4. ASSUME NEW z \in Queues, NEW k \in DOMAIN qu[z], Unary(qu[z][k]), qu[z][k].from = c
      PROVE  z = s /\ k = 1
  BY <1>1, <1>4 DEF ReqsOk, OneEach, Lost
<1>5. ASSUME NEW z \in Queues, NEW k \in DOMAIN qm[z] PROVE Fits(cm, qm[z][k])
  <2>1. PICK j \in DOMAIN qu[z] : qm[z][k] = qu[z][j] /\ ~(z = s /\ j = 1)
    BY <1>1 DEF Lost
  <2>2. Fits(cl, qu[z][j]) /\ (Unary(qu[z][j]) => qu[z][j].from # c)
    BY <2>1, <1>4 DEF ReqsOk, AllFit
  <2> QED
    BY <2>1, <2>2, <1>3 DEF Fits, Unary
<1>6. AllAsked(cm, qm)
  <2> SUFFICES ASSUME NEW x \in Clients, cm[x].pc = "wait"
               PROVE  \E z \in Queues : \E k \in DOMAIN qm[z] : Unary(qm[z][k]) /\ qm[z][k].from = x
    BY DEF AllAsked
  <2>0. x # c /\ cl[x].pc = "wait"
    BY <1>3
  <2>1. PICK z \in Queues : \E k \in DOMAIN qu[z] : Unary(qu[z][k]) /\ qu[z][k].from = x
    BY <2>0 DEF ReqsOk, AllAsked
  <2>2. PICK k \in DOMAIN qu[z] : Unary(qu[z][k]) /\ qu[z][k].from = x
    BY <2>1
  <2>3. ~(z = s /\ k = 1)
    BY <2>0, <2>2, <1>1 DEF Lost
  <2>4. PICK j \in DOMAIN qm[z] : qm[z][j] = qu[z][k]
    BY <2>3, <1>1 DEF Lost
  <2> QED
    BY <2>2, <2>4
<1> QED
  BY <1>2, <1>5, <1>6 DEF ReqsOk, AllFit, Shorter

(* ------------------------------ a call returns --------------------------- *)
\* The ways a call can end.
Outcomes == {"ok", "dropped", "unavailable"} \cup Categories

\* Every answer has its codes; a lost one is an internal error in all of them.
LEMMA CodesOf ==
  ASSUME NEW op \in Ops, NEW c, NEW outcome \in Outcomes
  PROVE  LET seen == ReplySeen(c, outcome)
         IN  /\ seen \in Seen /\ RestStatus(op, seen) \in Nat /\ WsStatus(seen) \in Nat
             /\ (seen = "ok") = (outcome = "ok")
             /\ outcome \in {"dropped", "unavailable"} =>
                  /\ seen = "Internal" /\ WsStatus(seen) = 32000
                  /\ op \in GatewayOps => RestStatus(op, seen) = 500
<1>1. PICK seen : seen = ReplySeen(c, outcome)
  OBVIOUS
<1>2. /\ seen \in {"ok", "Internal", "IllegalTransition", "NotFound"}
      /\ (seen = "ok") = (outcome = "ok")
      /\ outcome \in {"dropped", "unavailable"} => seen = "Internal"
  BY <1>1 DEF ReplySeen, Outcomes, Categories
<1>3. seen \in Seen
  BY <1>2 DEF Seen, Categories
<1>4. WsStatus(seen) \in Nat /\ (seen # "ok" => WsStatus(seen) = 32000)
  BY DEF WsStatus
<1>5. RestStatus(op, "ok") \in Nat
  <2>1. CASE op \notin GatewayOps
    BY <2>1 DEF RestStatus
  <2>2. CASE op \in GatewayOps
    BY <2>2 DEF RestStatus, GatewayOps
  <2> QED
    BY <2>1, <2>2
<1>6. /\ RestStatus(op, "Internal") \in Nat
      /\ op \in GatewayOps => RestStatus(op, "Internal") = 500
  <2>1. GrpcCode("Internal") = 13 /\ HttpStatus(13) = 500
    BY DEF GrpcCode, HttpStatus
  <2>2. CASE op \notin GatewayOps
    BY <2>2 DEF RestStatus
  <2>3. CASE op \in GatewayOps
    BY <2>1, <2>3 DEF RestStatus
  <2> QED
    BY <2>2, <2>3
<1>7. RestStatus(op, "IllegalTransition") \in Nat
  <2>1. GrpcCode("IllegalTransition") = 9 /\ HttpStatus(9) = 500
    BY DEF GrpcCode, HttpStatus
  <2>2. CASE op \notin GatewayOps
    BY <2>2 DEF RestStatus
  <2>3. CASE op \in GatewayOps
    BY <2>1, <2>3 DEF RestStatus
  <2> QED
    BY <2>2, <2>3
<1>8. RestStatus(op, "NotFound") \in Nat
  <2>1. GrpcCode("NotFound") = 5 /\ HttpStatus(5) = 404
    BY DEF GrpcCode, HttpStatus
  <2>2. CASE op \notin GatewayOps
    BY <2>2 DEF RestStatus
  <2>3. CASE op \in GatewayOps
    BY <2>1, <2>3 DEF RestStatus
  <2> QED
    BY <2>2, <2>3
<1> QED
  BY <1>1, <1>2, <1>3, <1>4, <1>5, <1>6, <1>7, <1>8

\* What Advanced makes of a client's record: the method ends, goes on to its next
\* call, or listens to the stream it opened last.
WentOn(c, r, a, outcome) ==
  /\ a \in ClientRecords /\ a.prog = r.prog /\ a.item = r.item /\ a.env = r.env /\ a.run = r.run
  /\ \/ a.pc = "done"
     \/ a.pc = "want" /\ outcome = "ok" /\ a.at = r.at + 1 /\ a.at \in DOMAIN ProgramsOf(c)[r.prog]
     \/ a.pc = "listen" /\ outcome = "ok" /\ a.at = r.at /\ OpAt(c, r) \in Streaming
  /\ outcome \in {"dropped", "unavailable"} =>
       /\ a.pc = "done" /\ a.res = "Internal" /\ a.ws = 32000
       /\ OpAt(c, r) \in GatewayOps => a.status = 500

\* After an outcome a client stands before its next call or is done.
LEMMA AdvancedGoesOn ==
  ASSUME ClientsOk(client, blobs), NEW c \in Clients, client[c].pc \in {"want", "wait"},
         NEW outcome \in Outcomes
  PROVE  WentOn(c, client[c], Advanced(c, outcome), outcome)
<1>1. PICK r : r = client[c]
  OBVIOUS
<1>2. r \in ClientRecords /\ r.prog \in DOMAIN ProgramsOf(c) /\ r.at \in DOMAIN ProgramsOf(c)[r.prog]
  BY <1>1 DEF ClientsOk, Course
<1>3. PICK p : p = ProgramsOf(c)[r.prog]
  OBVIOUS
<1>4. DOMAIN p = 1..Len(p) /\ Len(p) \in Nat /\ p[r.at] \in Ops
  BY <1>2, <1>3, Programs
<1>5. Calls(c) = p /\ CallOf(c) = p[r.at] /\ OpAt(c, r) = p[r.at]
  BY <1>1, <1>3 DEF Calls, CallOf, OpAt
<1>6. PICK seen : seen = ReplySeen(c, outcome)
  OBVIOUS
<1>7. PICK st \in Nat : st = RestStatus(p[r.at], seen)
  BY <1>4, <1>6, CodesOf
<1>8. PICK w \in Nat : w = WsStatus(seen)
  BY <1>4, <1>6, CodesOf
<1>9. /\ seen \in Seen /\ (seen = "ok") = (outcome = "ok")
      /\ outcome \in {"dropped", "unavailable"} =>
            seen = "Internal" /\ w = 32000 /\ (p[r.at] \in GatewayOps => st = 500)
  BY <1>4, <1>6, <1>7, <1>8, CodesOf
<1>10. PICK now : now = [r EXCEPT !.res = seen, !.status = st, !.ws = w]
  OBVIOUS
<1>11. PICK a : a = Advanced(c, outcome)
  OBVIOUS
<1>12. a = IF seen # "ok" THEN [now EXCEPT !.pc = "done"]
           ELSE IF r.at < Len(p) THEN [now EXCEPT !.pc = "want", !.at = r.at + 1]
           ELSE [now EXCEPT !.pc = IF p[r.at] \in Streaming THEN "listen" ELSE "done"]
  BY <1>1, <1>2, <1>5, <1>6, <1>7, <1>8, <1>10, <1>11 DEF Advanced, ClientRecords
<1>13. /\ now \in ClientRecords /\ now.prog = r.prog /\ now.item = r.item /\ now.env = r.env
       /\ now.run = r.run /\ now.at = r.at /\ now.res = seen /\ now.status = st /\ now.ws = w
  <2>0. seen \in Seen /\ r \in ClientRecords
    BY <1>2, <1>9
  <2>1. now \in ClientRecords
    BY <2>0, <1>10 DEF ClientRecords
  <2>2. now.prog = r.prog /\ now.item = r.item /\ now.env = r.env
    BY <1>2, <1>10 DEF ClientRecords
  <2>3. now.run = r.run /\ now.at = r.at
    BY <1>2, <1>10 DEF ClientRecords
  <2>4. now.res = seen /\ now.status = st /\ now.ws = w
    BY <1>2, <1>10 DEF ClientRecords
  <2> QED
    BY <2>1, <2>2, <2>3, <2>4
<1>14. CASE seen # "ok"
  <2>1. a = [now EXCEPT !.pc = "done"]
    BY <1>12, <1>14
  <2>2. /\ a \in ClientRecords /\ a.prog = r.prog /\ a.item = r.item /\ a.env = r.env
        /\ a.run = r.run /\ a.pc = "done" /\ a.res = seen /\ a.status = st /\ a.ws = w
    BY <2>1, <1>13 DEF ClientRecords
  <2> QED
    BY <2>2, <1>1, <1>5, <1>9, <1>11 DEF WentOn
<1>15. CASE seen = "ok" /\ r.at < Len(p)
  <2>1. a = [now EXCEPT !.pc = "want", !.at = r.at + 1]
    BY <1>12, <1>15
  <2>2. r.at + 1 \in Nat /\ r.at + 1 \in DOMAIN p
    BY <1>2, <1>3, <1>4, <1>15
  <2>3. /\ a \in ClientRecords /\ a.prog = r.prog /\ a.item = r.item /\ a.env = r.env
        /\ a.run = r.run /\ a.pc = "want" /\ a.at = r.at + 1
    BY <2>1, <2>2, <1>13 DEF ClientRecords
  <2> QED
    BY <2>2, <2>3, <1>1, <1>3, <1>9, <1>11, <1>15 DEF WentOn
<1>16. CASE seen = "ok" /\ ~(r.at < Len(p))
  <2>1. PICK pc : pc = IF p[r.at] \in Streaming THEN "listen" ELSE "done"
    OBVIOUS
  <2>2. a = [now EXCEPT !.pc = pc]
    BY <1>12, <1>16, <2>1
  <2>3. /\ a \in ClientRecords /\ a.prog = r.prog /\ a.item = r.item /\ a.env = r.env
        /\ a.run = r.run /\ a.at = r.at /\ a.pc = pc
    BY <2>1, <2>2, <1>13 DEF ClientRecords
  <2>4. pc = "done" \/ (pc = "listen" /\ p[r.at] \in Streaming)
    BY <2>1
  <2> QED
    BY <2>3, <2>4, <1>1, <1>5, <1>9, <1>11, <1>16 DEF WentOn
<1> QED
  BY <1>14, <1>15, <1>16

\* The record a call leaves is on its course, when complete has stored its
\* checkpoint before it goes on to the signal.
LEMMA WentOnCourse ==
  ASSUME NEW c \in Clients, NEW r, NEW a, NEW outcome, NEW stored, NEW now, WentOn(c, r, a, outcome),
         r.item = NoItem, r.prog \in DOMAIN ProgramsOf(c), r.at \in DOMAIN ProgramsOf(c)[r.prog],
         a.pc = "want" /\ r.prog = "complete" /\ a.at = 2 => c \in now
  PROVE  Course(c, a, now)
BY DEF Course, WentOn, OpAt

(* --------------------------------- streams ------------------------------- *)
\* What a client had of a stream is the run of `all' that starts after `from'.
Stretch(had, from, all) ==
  from + Len(had) <= Len(all) /\ \A k \in 1..Len(had) : had[k] = all[from + k]

\* Such a run is a subsequence.
LEMMA StretchIsSubSeq ==
  ASSUME NEW had \in Seq(Things), NEW from \in Nat, NEW all \in Seq(Things), Stretch(had, from, all)
  PROVE  had = SubSeq(all, from + 1, from + Len(had))
<1>1. PICK n \in Nat : n = Len(had)
  OBVIOUS
<1>2. PICK t : t = SubSeq(all, from + 1, from + n)
  OBVIOUS
<1>3. PICK m \in Nat : m = Len(all)
  OBVIOUS
<1>4. from + n <= m
  BY <1>1, <1>3 DEF Stretch
<1>5. t \in Seq(Things) /\ Len(t) = n /\ \A k \in 1..n : t[k] = all[from + k]
  <2>1. CASE n = 0
    BY <2>1, <1>2, <1>3, <1>4
  <2>2. CASE n # 0
    <3>1. from + 1 \in 1..m /\ from + n \in 1..m /\ from + 1 <= from + n
      BY <2>2, <1>4
    <3>2. t \in Seq(Things) /\ Len(t) = (from + n) - (from + 1) + 1
      BY <1>2, <1>3, <3>1, SubSeqProperties
    <3>3. \A k \in 1..n : t[k] = all[(from + 1) + k - 1]
      BY <1>2, <1>3, <3>1, SubSeqProperties
    <3> QED
      BY <3>2, <3>3
  <2> QED
    BY <2>1, <2>2
<1>6. \A k \in 1..n : had[k] = t[k]
  BY <1>1, <1>5 DEF Stretch
<1>7. had = t
  BY <1>1, <1>5, <1>6, SeqEqual
<1> QED
  BY <1>1, <1>2, <1>7

\* It stays one when the stream goes on.
LEMMA StretchStays ==
  ASSUME NEW had \in Seq(Things), NEW from \in Nat, NEW all \in Seq(Things), Stretch(had, from, all),
         NEW item \in Things
  PROVE  Stretch(had, from, Append(all, item))
<1>1. PICK n \in Nat : n = Len(had)
  OBVIOUS
<1>2. PICK m \in Nat : m = Len(all)
  OBVIOUS
<1>3. from + n <= m
  BY <1>1, <1>2 DEF Stretch
<1>4. Len(Append(all, item)) = m + 1 /\ \A j \in 1..m : Append(all, item)[j] = all[j]
  BY <1>2
<1>5. \A k \in 1..n : from + k \in 1..m
  BY <1>3
<1> QED
  BY <1>1, <1>2, <1>3, <1>4, <1>5 DEF Stretch

\* A run up to the end grows with the stream.
LEMMA StretchGrows ==
  ASSUME NEW had \in Seq(Things), NEW from \in Nat, NEW all \in Seq(Things), Stretch(had, from, all),
         NEW item \in Things, from + Len(had) = Len(all)
  PROVE  /\ Stretch(Append(had, item), from, Append(all, item))
         /\ from + Len(Append(had, item)) = Len(Append(all, item))
<1>1. PICK n \in Nat : n = Len(had)
  OBVIOUS
<1>2. PICK m \in Nat : m = Len(all) /\ m = from + n
  BY <1>1
<1>0. m = Len(all)
  BY <1>2
<1>3. /\ Len(Append(all, item)) = m + 1 /\ Append(all, item)[m + 1] = item
      /\ \A j \in 1..m : Append(all, item)[j] = all[j]
  BY <1>0
<1>4. /\ Len(Append(had, item)) = n + 1 /\ Append(had, item)[n + 1] = item
      /\ \A j \in 1..n : Append(had, item)[j] = had[j]
  BY <1>1
<1>5. ASSUME NEW k \in 1..(n + 1) PROVE Append(had, item)[k] = Append(all, item)[from + k]
  <2>1. CASE k = n + 1
    <3>1. from + k = m + 1
      BY <2>1, <1>2
    <3> QED
      BY <3>1, <2>1, <1>3, <1>4
  <2>2. CASE k # n + 1
    <3>0. k \in 1..n
      BY <2>2
    <3>1. from + k \in 1..m
      BY <3>0, <1>2
    <3>2. had[k] = all[from + k]
      BY <3>0, <1>1 DEF Stretch
    <3> QED
      BY <3>0, <3>1, <3>2, <1>3, <1>4
  <2> QED
    BY <2>1, <2>2
<1>6. from + (n + 1) = m + 1
  BY <1>2
<1> QED
  BY <1>3, <1>4, <1>5, <1>6 DEF Stretch

\* What was read and what is buffered, when an item is read.
LEMMA JoinTake ==
  ASSUME NEW got \in Seq(Things), NEW buf \in Seq(Things), buf # << >>
  PROVE  /\ Head(buf) \in Things /\ Tail(buf) \in Seq(Things) /\ Append(got, Head(buf)) \in Seq(Things)
         /\ Append(got, Head(buf)) \o Tail(buf) = got \o buf
<1>1. PICK b \in Nat : b = Len(buf) /\ b > 0
  OBVIOUS
<1>2. PICK g \in Nat : g = Len(got)
  OBVIOUS
<1>3. PICK h : h = Append(got, Head(buf))
  OBVIOUS
<1>4. PICK t : t = Tail(buf)
  OBVIOUS
<1>5. Head(buf) \in Things /\ Head(buf) = buf[1]
  BY <1>1
<1>6. /\ h \in Seq(Things) /\ Len(h) = g + 1 /\ h[g + 1] = buf[1]
      /\ \A k \in 1..g : h[k] = got[k]
  BY <1>2, <1>3, <1>5
<1>7. t \in Seq(Things) /\ Len(t) = b - 1 /\ \A k \in 1..(b - 1) : t[k] = buf[k + 1]
  BY <1>1, <1>4
<1>8. PICK x : x = h \o t
  OBVIOUS
<1>9. PICK y : y = got \o buf
  OBVIOUS
<1>10. /\ x \in Seq(Things) /\ Len(x) = g + b
       /\ \A k \in 1..(g + 1) : x[k] = h[k]
       /\ \A k \in 1..(g + b) : k > g + 1 => x[k] = t[k - (g + 1)]
  <2>1. h \in Seq(Things) /\ t \in Seq(Things) /\ Len(h) + Len(t) = g + b /\ Len(h) = g + 1
    BY <1>6, <1>7
  <2>2. x \in Seq(Things) /\ Len(x) = Len(h) + Len(t)
    BY <2>1, <1>8, ConcatProperties
  <2>3. \A k \in 1..(Len(h) + Len(t)) : x[k] = IF k <= Len(h) THEN h[k] ELSE t[k - Len(h)]
    BY <2>1, <1>8, ConcatProperties
  <2>4. \A k \in 1..(g + b) : x[k] = IF k <= g + 1 THEN h[k] ELSE t[k - (g + 1)]
    BY <2>1, <2>3
  <2>5. \A k \in 1..(g + 1) : x[k] = h[k]
    BY <2>4, <1>1
  <2>6. \A k \in 1..(g + b) : k > g + 1 => x[k] = t[k - (g + 1)]
    BY <2>4
  <2> QED
    BY <2>1, <2>2, <2>5, <2>6
<1>11. /\ y \in Seq(Things) /\ Len(y) = g + b
       /\ \A k \in 1..(g + b) : y[k] = IF k <= g THEN got[k] ELSE buf[k - g]
  BY <1>1, <1>2, <1>9, ConcatProperties
<1>12. ASSUME NEW k \in 1..(g + b) PROVE x[k] = y[k]
  <2>1. CASE k <= g
    BY <2>1, <1>6, <1>10, <1>11
  <2>2. CASE k = g + 1
    BY <2>2, <1>6, <1>10, <1>11
  <2>3. CASE k > g + 1
    <3>1. k - (g + 1) \in 1..(b - 1) /\ (k - (g + 1)) + 1 = k - g
      BY <2>3
    <3>2. x[k] = buf[k - g]
      BY <2>3, <3>1, <1>7, <1>10
    <3> QED
      BY <2>3, <3>2, <1>11
  <2> QED
    BY <2>1, <2>2, <2>3
<1>13. x = y
  BY <1>10, <1>11, <1>12, SeqEqual
<1> QED
  BY <1>3, <1>4, <1>5, <1>6, <1>7, <1>8, <1>9, <1>13

\* And when one is buffered.
LEMMA JoinPush ==
  ASSUME NEW got \in Seq(Things), NEW buf \in Seq(Things), NEW item \in Things
  PROVE  got \o Append(buf, item) = Append(got \o buf, item)
OBVIOUS

SubRecords ==
  [kind : Kinds \cup {"none"}, state : {"none", "asked", "on", "cut"}, open : BOOLEAN, buf : Seq(Things),
   got : Seq(Things), from : Nat, run : Nat]

\* What a client has of its stream `all': nothing before it is registered, then
\* a run that reaches the end while it is fed.
Has(b, all) ==
  /\ b.state = "asked" => b.got = << >> /\ b.buf = << >> /\ b.from = 0
  /\ b.state \in {"on", "cut"} => Stretch(b.got \o b.buf, b.from, all)
  /\ b.state = "on" /\ b.open => b.from + Len(b.got \o b.buf) = Len(all)

SubOk(b, pu) ==
  b \in SubRecords /\ (b.state # "none" => b.kind \in Kinds) /\ (b.kind \in Kinds => Has(b, pu[b.kind]))

SubsOk(sb, pu) ==
  /\ pu \in [Kinds -> Seq(Things)] /\ sb \in [Clients -> SubRecords]
  /\ \A c \in Clients : SubOk(sb[c], pu)

\* try_send to one subscriber.
Offered(b, kind, item) ==
  IF b.kind # kind \/ b.state # "on" THEN b
  ELSE IF b.open /\ Len(b.buf) < BufCap THEN [b EXCEPT !.buf = Append(@, item)]
  ELSE [b EXCEPT !.state = "cut"]

\* The subscriber's stream went on by the item exactly if it was its kind.
Extended(b, kind, item, pu, pm) ==
  \A k \in Kinds : b.kind = k =>
    pm[k] = IF k = kind THEN Append(pu[k], item) ELSE pu[k]

\* An item offered to a subscription.
LEMMA OfferKeeps ==
  ASSUME NEW pu \in [Kinds -> Seq(Things)], NEW pm, NEW b, SubOk(b, pu), NEW kind \in Kinds,
         NEW item \in Things, Extended(b, kind, item, pu, pm)
  PROVE  SubOk(Offered(b, kind, item), pm) /\ Offered(b, kind, item).open = b.open
<1>1. PICK o : o = Offered(b, kind, item)
  OBVIOUS
<1>2. b \in SubRecords /\ b.got \in Seq(Things) /\ b.buf \in Seq(Things) /\ b.from \in Nat
  BY DEF SubOk, SubRecords
<1>3. PICK had \in Seq(Things) : had = b.got \o b.buf
  BY <1>2, ConcatProperties
<1>4. CASE b.kind # kind
  <2>1. o = b
    BY <1>1, <1>4 DEF Offered
  <2>2. b.kind \in Kinds => pm[b.kind] = pu[b.kind]
    BY <1>4 DEF Extended
  <2> QED
    BY <2>1, <2>2, <1>1 DEF SubOk
<1>5. CASE b.kind = kind /\ b.state # "on"
  <2>1. o = b
    BY <1>1, <1>5 DEF Offered
  <2>2. pm[kind] = Append(pu[kind], item) /\ pu[kind] \in Seq(Things)
    BY <1>5 DEF Extended
  <2>3. Has(b, pu[kind])
    BY <1>5 DEF SubOk
  <2>4. Has(b, pm[kind])
    BY <2>2, <2>3, <1>2, <1>3, <1>5, StretchStays DEF Has
  <2> QED
    BY <2>1, <2>4, <1>1, <1>5 DEF SubOk
<1>6. CASE b.kind = kind /\ b.state = "on" /\ b.open /\ Len(b.buf) < BufCap
  <2>1. o = [b EXCEPT !.buf = Append(b.buf, item)]
    BY <1>1, <1>2, <1>6 DEF Offered, SubRecords
  <2>2. pm[kind] = Append(pu[kind], item) /\ pu[kind] \in Seq(Things)
    BY <1>6 DEF Extended
  <2>3. PICK f : f = Append(b.buf, item)
    OBVIOUS
  <2>4. f \in Seq(Things)
    BY <1>2, <2>3
  <2>5. /\ o \in SubRecords /\ o.kind = kind /\ o.state = "on" /\ o.open = b.open /\ o.got = b.got
        /\ o.from = b.from /\ o.buf = f
    BY <1>2, <1>6, <2>1, <2>3, <2>4 DEF SubRecords
  <2>6. Stretch(had, b.from, pu[kind]) /\ b.from + Len(had) = Len(pu[kind])
    BY <1>3, <1>6 DEF SubOk, Has
  <2>7. o.got \o o.buf = Append(had, item)
    <3>1. b.got \o Append(b.buf, item) = Append(b.got \o b.buf, item)
      BY <1>2, JoinPush
    <3> QED
      BY <3>1, <2>3, <2>5, <1>3
  <2>8. Stretch(Append(had, item), b.from, pm[kind]) /\ b.from + Len(Append(had, item)) = Len(pm[kind])
    BY <2>2, <2>6, <1>2, StretchGrows
  <2>9. Has(o, pm[kind])
    BY <2>5, <2>7, <2>8 DEF Has
  <2> QED
    BY <2>5, <2>9, <1>1 DEF SubOk
<1>7. CASE b.kind = kind /\ b.state = "on" /\ ~(b.open /\ Len(b.buf) < BufCap)
  <2>1. o = [b EXCEPT !.state = "cut"]
    BY <1>1, <1>7 DEF Offered
  <2>2. pm[kind] = Append(pu[kind], item) /\ pu[kind] \in Seq(Things)
    BY <1>7 DEF Extended
  <2>3. /\ o \in SubRecords /\ o.kind = kind /\ o.state = "cut" /\ o.open = b.open /\ o.got = b.got
        /\ o.from = b.from /\ o.buf = b.buf
    BY <1>2, <1>7, <2>1 DEF SubRecords
  <2>4. Stretch(had, b.from, pm[kind])
    BY <1>2, <1>3, <1>7, <2>2, StretchStays DEF SubOk, Has
  <2>5. Has(o, pm[kind])
    BY <2>3, <2>4, <1>3 DEF Has
  <2> QED
    BY <2>3, <2>5, <1>1 DEF SubOk
<1> QED
  BY <1>4, <1>5, <1>6, <1>7

\* The loop registers a stream it was asked for.
LEMMA SubscribeKeeps ==
  ASSUME NEW pu \in [Kinds -> Seq(Things)], NEW b, SubOk(b, pu), b.state = "asked",
         NEW o, o = [b EXCEPT !.state = "on", !.from = Len(pu[b.kind])]
  PROVE  SubOk(o, pu) /\ o.open = b.open
<1>1. PICK k \in Kinds : k = b.kind
  BY DEF SubOk
<1>2. b \in SubRecords /\ b.got = << >> /\ b.buf = << >>
  BY <1>1 DEF SubOk, Has
<1>3. PICK n \in Nat : n = Len(pu[k])
  OBVIOUS
<1>4. /\ o \in SubRecords /\ o.kind = k /\ o.state = "on" /\ o.got = << >> /\ o.buf = << >> /\ o.from = n
      /\ o.open = b.open
  BY <1>1, <1>2, <1>3 DEF SubRecords
<1>5. Len(<< >> \o << >>) = 0 /\ o.got \o o.buf = << >> \o << >>
  BY <1>4
<1>6. n + 0 = n /\ n <= n /\ 1..0 = {}
  OBVIOUS
<1>7. Stretch(o.got \o o.buf, o.from, pu[k]) /\ o.from + Len(o.got \o o.buf) = Len(pu[k])
  BY <1>3, <1>4, <1>5, <1>6 DEF Stretch
<1>8. Has(o, pu[k])
  BY <1>4, <1>7 DEF Has
<1> QED
  BY <1>4, <1>8 DEF SubOk

\* A client reads an item, and may let go of the stream.
LEMMA ReadKeeps ==
  ASSUME NEW pu, NEW b, SubOk(b, pu), b.buf # << >>, NEW stay \in BOOLEAN, stay => b.open, NEW o,
         o = [b EXCEPT !.buf = Tail(b.buf), !.got = Append(b.got, Head(b.buf)), !.open = stay]
  PROVE  SubOk(o, pu) /\ o.open = stay
<1>1. b \in SubRecords /\ b.got \in Seq(Things) /\ b.buf \in Seq(Things)
  BY DEF SubOk, SubRecords
<1>2. PICK t : t = Tail(b.buf)
  OBVIOUS
<1>3. PICK g : g = Append(b.got, Head(b.buf))
  OBVIOUS
<1>4. t \in Seq(Things) /\ g \in Seq(Things) /\ g \o t = b.got \o b.buf
  BY <1>1, <1>2, <1>3, JoinTake
<1>5. /\ o \in SubRecords /\ o.kind = b.kind /\ o.state = b.state /\ o.from = b.from
      /\ o.got = g /\ o.buf = t /\ o.open = stay
  BY <1>1, <1>2, <1>3, <1>4 DEF SubRecords
<1> QED
  BY <1>4, <1>5 DEF SubOk, Has

\* Letting go of a stream, or losing its sender.
LEMMA CloseKeeps ==
  ASSUME NEW pu, NEW b, SubOk(b, pu), NEW o, o = [b EXCEPT !.open = FALSE]
  PROVE  SubOk(o, pu)
<1>1. b \in SubRecords
  BY DEF SubOk
<1>2. /\ o \in SubRecords /\ o.kind = b.kind /\ o.state = b.state /\ o.from = b.from
      /\ o.got = b.got /\ o.buf = b.buf /\ o.open = FALSE
  BY <1>1 DEF SubRecords
<1> QED
  BY <1>2 DEF SubOk, Has

\* A subscription cut keeps what it had.
LEMMA CutKeeps ==
  ASSUME NEW pu \in [Kinds -> Seq(Things)], NEW b, SubOk(b, pu), b.state # "none", NEW o,
         o = [b EXCEPT !.state = "cut"]
  PROVE  SubOk(o, pu) /\ o.open = b.open
<1>1. b \in SubRecords
  BY DEF SubOk
<1>2. /\ o \in SubRecords /\ o.kind = b.kind /\ o.state = "cut" /\ o.from = b.from
      /\ o.got = b.got /\ o.buf = b.buf /\ o.open = b.open
  BY <1>1 DEF SubRecords
<1>3. PICK k \in Kinds : k = b.kind
  BY DEF SubOk
<1>4. Has(b, pu[k])
  BY <1>3 DEF SubOk
<1>5. CASE b.state = "asked"
  <2>1. b.got = << >> /\ b.buf = << >> /\ b.from = 0
    BY <1>4, <1>5 DEF Has
  <2>2. Len(b.got \o b.buf) = 0
    BY <2>1
  <2>3. Len(pu[k]) \in Nat
    OBVIOUS
  <2>4. Stretch(b.got \o b.buf, b.from, pu[k])
    BY <2>1, <2>2, <2>3 DEF Stretch
  <2> QED
    BY <2>4, <1>2, <1>3 DEF SubOk, Has
<1>6. CASE b.state # "asked"
  <2>1. Stretch(b.got \o b.buf, b.from, pu[k])
    BY <1>1, <1>4, <1>6 DEF Has, SubRecords
  <2> QED
    BY <2>1, <1>2, <1>3 DEF SubOk, Has
<1> QED
  BY <1>5, <1>6

(* ------------------------------ the invariant ---------------------------- *)
\* The mutex is held by a task that waits for a reply.
LockOk(cl, l) == l \in SdkTasks \cup {"none"} /\ (l # "none" => cl[l].pc = "wait")

\* Who listens has not let go of the stream.
Listening(cl, sb) == \A c \in Clients : cl[c].pc = "listen" => sb[c].open = TRUE

NumbersOk(ev, as, en, st) == ev \in Seq({"signal", "suspend"}) /\ as \subseteq Nat /\ en \in Nat /\ st \in Nat

ServicesInv ==
  /\ ClientsOk(client, blobs) /\ ReqsOk(client, queue) /\ LockOk(client, lock)
  /\ SubsOk(sub, pushed) /\ Listening(client, sub)
  /\ NumbersOk(events, asked, envelopes, started) /\ completed \subseteq blobs

\* A client that rests, and no stream.
LEMMA RestIsFine ==
  /\ Resting \in ClientRecords /\ NoSub \in SubRecords
  /\ \A stored : \A c \in Clients : Course(c, Resting, stored)
  /\ \A pu : SubOk(NoSub, pu)
<1>1. NoItem \in Things
  BY DEF NoItem, Item, Things
<1>2. Resting \in ClientRecords
  BY <1>1 DEF Resting, ClientRecords, Seen
<1>3. << >> \in Seq(Things)
  OBVIOUS
<1>4. NoSub \in SubRecords
  BY <1>3 DEF NoSub, SubRecords
<1>5. ASSUME NEW c \in Clients, NEW stored PROVE Course(c, Resting, stored)
  BY DEF Course, Resting
<1>6. ASSUME NEW pu PROVE SubOk(NoSub, pu)
  <2>1. NoSub.kind \notin Kinds /\ NoSub.state = "none"
    BY DEF NoSub, Kinds
  <2> QED
    BY <2>1, <1>4 DEF SubOk
<1> QED
  BY <1>2, <1>4, <1>5, <1>6

\* g is f with a at c.
Put(f, g, c, a) == g = [f EXCEPT ![c] = a]

\* One client's record is replaced; what is stored may grow.
LEMMA ClientMoves ==
  ASSUME NEW cl, NEW st, ClientsOk(cl, st), NEW c \in Clients, NEW a \in ClientRecords, NEW sm,
         Course(c, a, sm), st \subseteq sm, NEW cm, Put(cl, cm, c, a)
  PROVE  ClientsOk(cm, sm) /\ Changed(cl, cm, c) /\ cm[c] = a
<1>1. cl \in [Clients -> ClientRecords]
  BY DEF ClientsOk
<1>2. cm \in [Clients -> ClientRecords] /\ cm[c] = a /\ \A x \in Clients : x # c => cm[x] = cl[x]
  BY <1>1 DEF Put
<1>3. ASSUME NEW x \in Clients, x # c PROVE Course(x, cl[x], sm)
  BY <1>3 DEF ClientsOk, Course
<1> QED
  BY <1>2, <1>3 DEF ClientsOk, Changed

\* More may be stored.
LEMMA StoredGrows ==
  ASSUME NEW cl, NEW st, ClientsOk(cl, st), NEW sm, st \subseteq sm
  PROVE  ClientsOk(cl, sm)
BY DEF ClientsOk, Course

\* One client's stream is replaced.
LEMMA SubMoves ==
  ASSUME NEW sb, NEW pu, SubsOk(sb, pu), NEW c \in Clients, NEW o, SubOk(o, pu), NEW sm, Put(sb, sm, c, o)
  PROVE  SubsOk(sm, pu) /\ sm[c] = o /\ \A x \in Clients : x # c => sm[x] = sb[x]
<1>1. o \in SubRecords /\ sb \in [Clients -> SubRecords]
  BY DEF SubOk, SubsOk
<1>2. sm \in [Clients -> SubRecords] /\ sm[c] = o /\ \A x \in Clients : x # c => sm[x] = sb[x]
  BY <1>1 DEF Put
<1> QED
  BY <1>2 DEF SubsOk

\* A client that does not wait moves without the lock.
LEMMA LockStays ==
  ASSUME NEW cl, NEW cm, NEW c \in Clients, NEW l, LockOk(cl, l), Changed(cl, cm, c),
         cl[c].pc # "wait"
  PROVE  LockOk(cm, l)
BY DEF LockOk, Changed, Clients

\* Who listens listens still, when only c moved.
LEMMA ListeningStays ==
  ASSUME NEW cl, NEW cm, NEW c \in Clients, NEW sb, NEW sm, Listening(cl, sb), Changed(cl, cm, c),
         cm[c].pc = "listen" => sm[c].open = TRUE,
         \A x \in Clients : x # c => sm[x].open = sb[x].open
  PROVE  Listening(cm, sm)
BY DEF Listening, Changed

\* Init.
LEMMA ServicesInvInit == ServicesInit => ServicesInv
<1> SUFFICES ASSUME ServicesInit PROVE ServicesInv
  OBVIOUS
<1>1. client \in [Clients -> ClientRecords] /\ \A c \in Clients : client[c] = Resting
  BY RestIsFine DEF ServicesInit
<1>2. ClientsOk(client, blobs)
  BY <1>1, RestIsFine DEF ClientsOk
<1>3. \A c \in Clients : client[c].pc = "idle"
  BY <1>1 DEF Resting
<1>4. queue \in [Queues -> Seq(Requests)] /\ \A z \in Queues : queue[z] = << >> /\ DOMAIN queue[z] = {}
  BY DEF ServicesInit, Queues
<1>5. ReqsOk(client, queue)
  BY <1>3, <1>4 DEF ReqsOk, AllFit, OneEach, AllAsked
<1>6. pushed \in [Kinds -> Seq(Things)]
  BY DEF ServicesInit
<1>7. sub \in [Clients -> SubRecords] /\ \A c \in Clients : sub[c] = NoSub
  BY RestIsFine DEF ServicesInit
<1>8. SubsOk(sub, pushed)
  BY <1>6, <1>7, RestIsFine DEF SubsOk
<1>9. LockOk(client, lock) /\ Listening(client, sub) /\ NumbersOk(events, asked, envelopes, started)
  BY <1>3 DEF ServicesInit, LockOk, Listening, NumbersOk
<1> QED
  BY <1>2, <1>5, <1>8, <1>9 DEF ServicesInv, ServicesInit

(* ------------------------------- the actions ----------------------------- *)
LEMMA StartProgramKeeps ==
  ASSUME ServicesInv, NEW c \in Clients, NEW m \in DOMAIN ProgramsOf(c), StartProgram(c, m)
  PROVE  ServicesInv'
<1> USE DEF ServicesInv
<1>1. PICK n \in Nat : n = started + 1
  BY DEF NumbersOk
<1>2. PICK a : a = [Resting EXCEPT !.pc = "want", !.prog = m, !.at = 1, !.run = n]
  OBVIOUS
<1>3. m \in Methods /\ 1 \in DOMAIN ProgramsOf(c)[m]
  BY Programs
<1>4. Resting \in ClientRecords /\ Resting.item = NoItem
  BY RestIsFine DEF Resting
<1>5. /\ a \in ClientRecords /\ a.pc = "want" /\ a.prog = m /\ a.at = 1 /\ a.item = NoItem
  BY <1>2, <1>3, <1>4 DEF ClientRecords
<1>6. Course(c, a, blobs)
  BY <1>3, <1>5 DEF Course
<1>7. Put(client, client', c, a)
  BY <1>1, <1>2 DEF StartProgram, Put
<1>8. blobs' = blobs /\ queue' = queue /\ lock' = lock /\ pushed' = pushed
  BY DEF StartProgram
<1>9. ClientsOk(client', blobs) /\ Changed(client, client', c) /\ client'[c] = a
  BY <1>5, <1>6, <1>7, ClientMoves
<1>10. client[c].pc # "wait"
  BY DEF StartProgram
<1>11. ReqsOk(client', queue)
  BY <1>5, <1>9, <1>10, MoveKeepsReqs
<1>12. Put(sub, sub', c, NoSub) /\ SubOk(NoSub, pushed)
  BY RestIsFine DEF StartProgram, Put
<1>13. SubsOk(sub', pushed) /\ \A x \in Clients : x # c => sub'[x] = sub[x]
  BY <1>12, SubMoves
<1>14. LockOk(client', lock)
  BY <1>9, <1>10, LockStays
<1>15. Listening(client', sub')
  BY <1>5, <1>9, <1>13, ListeningStays
<1>16. NumbersOk(events, asked, envelopes, started)' /\ (completed \subseteq blobs)'
  BY <1>1 DEF StartProgram, NumbersOk
<1> QED
  BY <1>8, <1>9, <1>11, <1>13, <1>14, <1>15, <1>16

\* Input refused by the client library.
LEMMA RefuseInputKeeps ==
  ASSUME ServicesInv, NEW c \in Clients, NEW input \in BadInputs, RefuseInput(c, input)
  PROVE  ServicesInv'
<1> USE DEF ServicesInv
<1>1. PICK st \in Nat : st = RestRefusal(input)
  BY DEF RestRefusal
<1>2. PICK w \in Nat : w = WsRefusal(input)
  BY DEF WsRefusal
<1>3. PICK a : a = [Resting EXCEPT !.pc = "done", !.res = "refused", !.status = st, !.ws = w]
  OBVIOUS
<1>4. Resting \in ClientRecords /\ Resting.item = NoItem
  BY RestIsFine DEF Resting
<1>5. "refused" \in Seen
  BY DEF Seen
<1>6. a \in ClientRecords /\ a.pc = "done" /\ a.item = NoItem
  BY <1>3, <1>4, <1>5 DEF ClientRecords
<1>7. Course(c, a, blobs)
  BY <1>6 DEF Course
<1>8. Put(client, client', c, a)
  BY <1>1, <1>2, <1>3 DEF RefuseInput, Put
<1>9. blobs' = blobs /\ queue' = queue /\ lock' = lock /\ pushed' = pushed /\ sub' = sub
  BY DEF RefuseInput
<1>10. ClientsOk(client', blobs) /\ Changed(client, client', c) /\ client'[c] = a
  BY <1>6, <1>7, <1>8, ClientMoves
<1>11. client[c].pc # "wait"
  BY DEF RefuseInput
<1>12. ReqsOk(client', queue)
  BY <1>6, <1>10, <1>11, MoveKeepsReqs
<1>13. LockOk(client', lock)
  BY <1>10, <1>11, LockStays
<1>14. Listening(client', sub)
  BY <1>6, <1>10, ListeningStays
<1>15. NumbersOk(events, asked, envelopes, started)' /\ (completed \subseteq blobs)'
  BY DEF RefuseInput, NumbersOk
<1> QED
  BY <1>9, <1>10, <1>12, <1>13, <1>14, <1>15

\* The request c sends, and the queue it goes to.
LEMMA IssueKeeps ==
  ASSUME ServicesInv, NEW c \in Clients, Issue(c)
  PROVE  ServicesInv'
<1> USE DEF ServicesInv
<1>1. PICK r : r = client[c]
  OBVIOUS
<1>2. /\ r \in ClientRecords /\ r.pc = "want" /\ r.prog \in DOMAIN ProgramsOf(c)
      /\ r.at \in DOMAIN ProgramsOf(c)[r.prog] /\ r.item = NoItem
      /\ r.prog = "complete" /\ r.at = 2 => c \in blobs
  BY <1>1 DEF ClientsOk, Course, Issue
<1>3. PICK op \in Ops : op = CallOf(c) /\ op = OpAt(c, r) /\ op # "reply"
  BY <1>1, <1>2, Programs DEF CallOf, Calls, OpAt
<1>4. PICK s \in Queues : s = ServiceOf(op)
  BY ServiceType
<1>5. /\ blobs' = blobs /\ pushed' = pushed /\ completed' = completed
      /\ NumbersOk(events, asked, envelopes, started)'
  BY DEF Issue, NumbersOk
<1>6. CASE loop = "stopped"
  <2>1. PICK a : a = Advanced(c, "unavailable")
    OBVIOUS
  <2>2. Put(client, client', c, a) /\ queue' = queue /\ sub' = sub /\ lock' = lock
    BY <2>1, <1>6 DEF Issue, Put
  <2>3. "unavailable" \in Outcomes /\ client[c].pc \in {"want", "wait"}
    BY <1>1, <1>2 DEF Outcomes
  <2>4. WentOn(c, r, a, "unavailable")
    BY <2>1, <2>3, <1>1, AdvancedGoesOn
  <2>5. a \in ClientRecords /\ a.pc = "done" /\ a.item = NoItem
    BY <2>4, <1>2 DEF WentOn
  <2>6. Course(c, a, blobs)
    BY <2>5 DEF Course
  <2>7. ClientsOk(client', blobs) /\ Changed(client, client', c) /\ client'[c] = a
    BY <2>2, <2>5, <2>6, ClientMoves
  <2>8. client[c].pc # "wait" /\ client'[c].pc # "wait" /\ client'[c].pc # "listen"
    BY <2>5, <2>7, <1>1, <1>2
  <2>9. ReqsOk(client', queue)
    BY <2>7, <2>8, MoveKeepsReqs
  <2>10. LockOk(client', lock)
    BY <2>7, <2>8, LockStays
  <2>11. Listening(client', sub)
    BY <2>7, <2>8, ListeningStays
  <2> QED
    BY <1>5, <2>2, <2>7, <2>9, <2>10, <2>11
<1>7. CASE loop = "running"
  <2>1. PICK q : q = [from |-> c, op |-> op, arg |-> r.run]
    OBVIOUS
  <2>2. q \in Requests /\ q.from = c /\ q.op = op
    BY <2>1, <1>2 DEF Requests, ClientRecords
  <2>3. queue' = [queue EXCEPT ![s] = Append(queue[s], q)]
    BY <2>1, <1>1, <1>3, <1>4, <1>7 DEF Issue
  <2>4. queue \in [Queues -> Seq(Requests)]
    BY DEF ReqsOk
  <2>5. Longer(queue, queue', s, q)
    BY <2>2, <2>3, <2>4 DEF Longer
  <2>6. CASE op \in Streaming
    <3>1. PICK a : a = Advanced(c, "ok")
      OBVIOUS
    <3>2. Put(client, client', c, a) /\ lock' = lock
      BY <3>1, <1>3, <1>7, <2>6 DEF Issue, Put
    <3>3. "ok" \in Outcomes /\ client[c].pc \in {"want", "wait"}
      BY <1>1, <1>2 DEF Outcomes
    <3>4. WentOn(c, r, a, "ok")
      BY <3>1, <3>3, <1>1, AdvancedGoesOn
    <3>5. a \in ClientRecords /\ a.pc \in {"want", "listen", "done"}
      BY <3>4 DEF WentOn
    <3>6. a.pc = "want" /\ r.prog = "complete" /\ a.at = 2 => c \in blobs
      <4> SUFFICES ASSUME a.pc = "want", r.prog = "complete", a.at = 2 PROVE FALSE
        OBVIOUS
      <4>1. 2 = r.at + 1 /\ r.at \in Nat
        BY <3>4, <1>2 DEF WentOn, ClientRecords
      <4>2. r.at = 1
        BY <4>1
      <4>3. op = "checkpoint"
        BY <4>2, <1>2, <1>3, Programs DEF OpAt
      <4> QED
        BY <4>3, <2>6 DEF Streaming, AgentStreams, CoordinatorStreams, HighwayStreams
    <3>7. Course(c, a, blobs)
      BY <3>4, <3>6, <1>2, WentOnCourse
    <3>8. ClientsOk(client', blobs) /\ Changed(client, client', c) /\ client'[c] = a
      BY <3>2, <3>5, <3>7, ClientMoves
    <3>9. client[c].pc # "wait" /\ client'[c].pc # "wait"
      BY <3>5, <3>8, <1>1, <1>2
    <3>10. ReqsOk(client', queue)
      BY <3>8, <3>9, MoveKeepsReqs
    <3>11. ~Unary(q) /\ q.from \in Clients
      BY <2>2, <2>6 DEF Unary
    <3>12. ReqsOk(client', queue')
      BY <3>10, <3>11, <2>2, <2>5, NoteKeepsReqs
    <3>13. PICK o : o = [NoSub EXCEPT !.kind = op, !.state = "asked", !.open = TRUE, !.run = r.run]
      OBVIOUS
    <3>14. Put(sub, sub', c, o)
      BY <3>13, <1>1, <1>3, <1>7, <2>6 DEF Issue, Put
    <3>15. op \in Kinds
      BY <2>6 DEF Kinds, Streaming, AgentStreams, CoordinatorStreams, HighwayStreams
    <3>16. /\ o \in SubRecords /\ o.kind = op /\ o.state = "asked" /\ o.open = TRUE
           /\ o.got = << >> /\ o.buf = << >> /\ o.from = 0
      <4>1. r.run \in Nat /\ << >> \in Seq(Things)
        BY <1>2 DEF ClientRecords
      <4> QED
        BY <3>13, <3>15, <4>1 DEF SubRecords, NoSub
    <3>17. SubOk(o, pushed)
      BY <3>15, <3>16 DEF SubOk, Has
    <3>18. SubsOk(sub', pushed) /\ sub'[c] = o /\ \A x \in Clients : x # c => sub'[x] = sub[x]
      BY <3>14, <3>17, SubMoves
    <3>19. LockOk(client', lock)
      BY <3>8, <3>9, LockStays
    <3>20. Listening(client', sub')
      BY <3>8, <3>16, <3>18, ListeningStays
    <3> QED
      BY <1>5, <3>2, <3>8, <3>12, <3>18, <3>19, <3>20
  <2>7. CASE op \notin Streaming
    <3>1. PICK a : a = [r EXCEPT !.pc = "wait"]
      OBVIOUS
    <3>2. Put(client, client', c, a) /\ lock' = Locked(c) /\ sub' = sub
      BY <3>1, <1>1, <1>3, <1>7, <2>7 DEF Issue, Put, ClientsOk
    <3>3. /\ a \in ClientRecords /\ a.pc = "wait" /\ a.prog = r.prog /\ a.at = r.at /\ a.item = r.item
      BY <3>1, <1>2 DEF ClientRecords
    <3>4. OpAt(c, a) = op
      BY <3>3, <1>3 DEF OpAt
    <3>5. Course(c, a, blobs)
      BY <3>3, <3>4, <1>2, <2>7 DEF Course
    <3>6. ClientsOk(client', blobs) /\ Changed(client, client', c) /\ client'[c] = a
      BY <3>2, <3>3, <3>5, ClientMoves
    <3>7. Unary(q) /\ q.op = OpAt(c, client'[c])
      BY <3>4, <3>6, <2>2, <2>7, <1>3 DEF Unary
    <3>8. client[c].pc # "wait" /\ client'[c].pc = "wait"
      BY <3>3, <3>6, <1>1, <1>2
    <3>9. ReqsOk(client', queue')
      BY <3>6, <3>7, <3>8, <2>2, <2>5, AskKeepsReqs
    <3>10. LockOk(client', lock')
      <4>1. CASE c \in SdkTasks
        BY <4>1, <3>2, <3>8 DEF Locked, LockOk
      <4>2. CASE c \notin SdkTasks
        <5>1. lock' = lock
          BY <4>2, <3>2 DEF Locked
        <5> QED
          BY <5>1, <3>6, <3>8, LockStays
      <4> QED
        BY <4>1, <4>2
    <3>11. Listening(client', sub)
      BY <3>6, <3>8, ListeningStays
    <3> QED
      BY <1>5, <3>2, <3>6, <3>9, <3>10, <3>11
  <2> QED
    BY <2>6, <2>7
<1> QED
  BY <1>6, <1>7 DEF Issue

\* A peer's answer joins the agent's queue.
LEMMA AnswerKeeps ==
  ASSUME ServicesInv, NEW q \in asked, Answer(q)
  PROVE  ServicesInv'
<1> USE DEF ServicesInv
<1>1. PICK r : r = [from |-> "peer", op |-> "reply", arg |-> q]
  OBVIOUS
<1>2. r \in Requests /\ r.op = "reply" /\ ~Unary(r)
  BY <1>1 DEF Requests, Unary, NumbersOk, Ops, AgentUnary
<1>3. queue \in [Queues -> Seq(Requests)] /\ "agent" \in Queues
  BY DEF ReqsOk, Queues
<1>4. queue' = [queue EXCEPT !["agent"] = Append(queue["agent"], r)]
  BY <1>1 DEF Answer
<1>5. Longer(queue, queue', "agent", r)
  BY <1>2, <1>3, <1>4 DEF Longer
<1>6. ReqsOk(client, queue')
  BY <1>2, <1>3, <1>5, NoteKeepsReqs
<1>7. /\ client' = client /\ blobs' = blobs /\ lock' = lock /\ sub' = sub /\ pushed' = pushed
      /\ completed' = completed /\ NumbersOk(events, asked, envelopes, started)'
  BY DEF Answer, NumbersOk
<1> QED
  BY <1>6, <1>7

\* A new process keeps what is on disk and what clients know.
LEMMA StartLoopKeeps ==
  ASSUME ServicesInv, StartLoop
  PROVE  ServicesInv'
BY DEF ServicesInv, StartLoop

\* A listening client reads.
LEMMA TakeKeeps ==
  ASSUME ServicesInv, NEW c \in Clients, Take(c)
  PROVE  ServicesInv'
<1> USE DEF ServicesInv
<1>1. PICK r : r = client[c]
  OBVIOUS
<1>2. r \in ClientRecords /\ r.pc = "listen"
  BY <1>1 DEF ClientsOk, Take
<1>3. PICK b : b = sub[c]
  OBVIOUS
<1>4. SubOk(b, pushed) /\ b.open = TRUE /\ b.buf # << >>
  BY <1>1, <1>2, <1>3 DEF SubsOk, Listening, Take
<1>5. b \in SubRecords /\ b.got \in Seq(Things) /\ b.buf \in Seq(Things)
  BY <1>4 DEF SubOk, SubRecords
<1>6. PICK item \in Things : item = Head(b.buf)
  BY <1>4, <1>5, JoinTake
<1>7. PICK done \in BOOLEAN : done = (Wanted(c, item) /\ client[c].prog # "watch")
  BY DEF Wanted
<1>8. PICK o : o = [b EXCEPT !.buf = Tail(b.buf), !.got = Append(b.got, Head(b.buf)), !.open = ~done]
  OBVIOUS
<1>9. Put(sub, sub', c, o)
  <2>1. sub \in [Clients -> SubRecords]
    BY DEF SubsOk
  <2> QED
    BY <2>1, <1>3, <1>5, <1>6, <1>7, <1>8 DEF Take, Put, SubRecords
<1>10. SubOk(o, pushed) /\ o.open = ~done
  <2>1. (~done) \in BOOLEAN
    OBVIOUS
  <2> QED
    BY <2>1, <1>4, <1>8, ReadKeeps
<1>11. SubsOk(sub', pushed) /\ sub'[c] = o /\ \A x \in Clients : x # c => sub'[x] = sub[x]
  BY <1>9, <1>10, SubMoves
<1>12. /\ blobs' = blobs /\ queue' = queue /\ lock' = lock /\ pushed' = pushed /\ completed' = completed
       /\ NumbersOk(events, asked, envelopes, started)'
  BY DEF Take, NumbersOk
<1>13. CASE done
  <2>1. PICK a : a = [r EXCEPT !.pc = "done", !.item = item]
    OBVIOUS
  <2>2. Put(client, client', c, a)
    BY <2>1, <1>1, <1>3, <1>6, <1>7, <1>13 DEF Take, Put, ClientsOk
  <2>3. /\ a \in ClientRecords /\ a.pc = "done" /\ a.item = item /\ a.prog = r.prog /\ a.env = r.env
    BY <2>1, <1>2 DEF ClientRecords
  <2>4. r.prog = "query" => item.n = r.env
    BY <1>1, <1>7, <1>13 DEF Wanted
  <2>5. Course(c, a, blobs)
    BY <2>3, <2>4 DEF Course
  <2>6. ClientsOk(client', blobs) /\ Changed(client, client', c) /\ client'[c] = a
    BY <2>2, <2>3, <2>5, ClientMoves
  <2>7. client[c].pc # "wait" /\ client'[c].pc # "wait" /\ client'[c].pc # "listen"
    BY <2>3, <2>6, <1>1, <1>2
  <2>8. ReqsOk(client', queue) /\ LockOk(client', lock)
    BY <2>6, <2>7, MoveKeepsReqs, LockStays
  <2>9. Listening(client', sub')
    BY <2>6, <2>7, <1>11, ListeningStays
  <2> QED
    BY <1>11, <1>12, <2>6, <2>8, <2>9
<1>14. CASE ~done
  <2>1. client' = client
    BY <1>3, <1>6, <1>7, <1>14 DEF Take
  <2>2. sub'[c].open = TRUE
    BY <1>10, <1>11, <1>14
  <2>3. Listening(client', sub')
    BY <2>1, <2>2, <1>11 DEF Listening
  <2> QED
    BY <1>11, <1>12, <2>1, <2>3
<1> QED
  BY <1>13, <1>14

\* A client gives up its stream and stands at `a' afterwards.
LEMMA LetGoKeeps ==
  ASSUME ServicesInv, NEW c \in Clients, client[c].pc # "wait", NEW a \in ClientRecords, Course(c, a, blobs),
         a.pc \in {"idle", "done"}, Put(client, client', c, a), sub' = [sub EXCEPT ![c].open = FALSE],
         blobs' = blobs, queue' = queue, lock' = lock, pushed' = pushed, completed' = completed,
         NumbersOk(events, asked, envelopes, started)'
  PROVE  ServicesInv'
<1> USE DEF ServicesInv
<1>1. PICK b : b = sub[c]
  OBVIOUS
<1>2. PICK o : o = [b EXCEPT !.open = FALSE]
  OBVIOUS
<1>3. SubOk(b, pushed)
  BY <1>1 DEF SubsOk
<1>4. SubOk(o, pushed)
  BY <1>2, <1>3, CloseKeeps
<1>5. Put(sub, sub', c, o)
  BY <1>1, <1>2 DEF Put, SubsOk
<1>6. SubsOk(sub', pushed) /\ \A x \in Clients : x # c => sub'[x] = sub[x]
  BY <1>4, <1>5, SubMoves
<1>7. ClientsOk(client', blobs) /\ Changed(client, client', c) /\ client'[c] = a
  BY ClientMoves
<1>8. client'[c].pc # "wait" /\ client'[c].pc # "listen"
  BY <1>7
<1>9. ReqsOk(client', queue) /\ LockOk(client', lock)
  BY <1>7, <1>8, MoveKeepsReqs, LockStays
<1>10. Listening(client', sub')
  BY <1>6, <1>7, <1>8, ListeningStays
<1> QED
  BY <1>6, <1>7, <1>9, <1>10

\* The stream ended, or the client waited long enough.
LEMMA QuitKeeps ==
  ASSUME ServicesInv, NEW c \in Clients, Quit(c)
  PROVE  ServicesInv'
<1>1. PICK r : r = client[c]
  OBVIOUS
<1>2. r \in ClientRecords /\ r.pc = "listen" /\ r.item = NoItem
  BY <1>1 DEF ServicesInv, ClientsOk, Course, Quit
<1>3. PICK why \in {"StreamEnded", "Timeout"} : client' = [client EXCEPT ![c].pc = "done", ![c].res = why]
  BY DEF Quit
<1>4. PICK a : a = [r EXCEPT !.pc = "done", !.res = why]
  OBVIOUS
<1>5. why \in Seen
  BY DEF Seen
<1>6. a \in ClientRecords /\ a.pc = "done" /\ a.item = NoItem
  BY <1>2, <1>4, <1>5 DEF ClientRecords
<1>7. Course(c, a, blobs)
  BY <1>6 DEF Course
<1>8. Put(client, client', c, a)
  BY <1>1, <1>3, <1>4 DEF ServicesInv, ClientsOk, Put
<1>9. /\ sub' = [sub EXCEPT ![c].open = FALSE]
      /\ blobs' = blobs /\ queue' = queue /\ lock' = lock /\ pushed' = pushed /\ completed' = completed
      /\ NumbersOk(events, asked, envelopes, started)'
  BY DEF Quit, NumbersOk, ServicesInv
<1>10. client[c].pc # "wait" /\ a.pc \in {"idle", "done"}
  BY <1>1, <1>2, <1>6
<1> QED
  BY <1>6, <1>7, <1>8, <1>9, <1>10, LetGoKeeps

\* The method returned.
LEMMA ReturnCallKeeps ==
  ASSUME ServicesInv, NEW c \in Clients, ReturnCall(c)
  PROVE  ServicesInv'
<1>1. Resting \in ClientRecords /\ Course(c, Resting, blobs)
  BY RestIsFine
<1>2. Put(client, client', c, Resting) /\ client[c].pc # "wait" /\ Resting.pc \in {"idle", "done"}
  BY DEF ReturnCall, Put, Resting
<1>3. /\ sub' = [sub EXCEPT ![c].open = FALSE]
      /\ blobs' = blobs /\ queue' = queue /\ lock' = lock /\ pushed' = pushed /\ completed' = completed
      /\ NumbersOk(events, asked, envelopes, started)'
  BY DEF ReturnCall, NumbersOk, ServicesInv
<1> QED
  BY <1>1, <1>2, <1>3, LetGoKeeps

\* A workspace event goes to the trail's subscribers, and a signal to those of
\* signals.
LEMMA FanOutKeeps ==
  ASSUME ServicesInv, FanOut
  PROVE  ServicesInv'
<1> USE DEF ServicesInv
<1>1. events \in Seq({"signal", "suspend"}) /\ events # << >>
  BY DEF NumbersOk, FanOut
<1>2. PICK e \in {"signal", "suspend"} : e = Head(events)
  BY <1>1
<1>3. pushed \in [Kinds -> Seq(Things)] /\ sub \in [Clients -> SubRecords]
  BY DEF SubsOk
<1>4. PICK n \in Nat : n = Len(pushed["trailStream"]) + 1
  BY <1>3 DEF Kinds
<1>5. PICK entry \in Things : entry = Item("entry", n)
  BY <1>4 DEF Item, Things
<1>6. PICK note \in Things : note = Item(e, 0)
  BY <1>2 DEF Item, Things
<1>7. pushed' = [pushed EXCEPT !["trailStream"] = Append(pushed["trailStream"], entry),
           !["signals"] = IF e = "signal" THEN Append(pushed["signals"], note) ELSE pushed["signals"]]
  BY <1>2, <1>3, <1>4, <1>5, <1>6 DEF FanOut, Kinds
<1>8. /\ pushed' \in [Kinds -> Seq(Things)]
      /\ pushed'["trailStream"] = Append(pushed["trailStream"], entry)
      /\ pushed'["signals"] = IF e = "signal" THEN Append(pushed["signals"], note) ELSE pushed["signals"]
      /\ \A k \in Kinds : k \notin {"trailStream", "signals"} => pushed'[k] = pushed[k]
  <2>1. PICK ts : ts = Append(pushed["trailStream"], entry)
    OBVIOUS
  <2>2. PICK ss : ss = IF e = "signal" THEN Append(pushed["signals"], note) ELSE pushed["signals"]
    OBVIOUS
  <2>3. pushed["trailStream"] \in Seq(Things) /\ pushed["signals"] \in Seq(Things)
    BY <1>3 DEF Kinds
  <2>4. ts \in Seq(Things) /\ ss \in Seq(Things)
    BY <2>1, <2>2, <2>3
  <2>5. pushed' = [pushed EXCEPT !["trailStream"] = ts, !["signals"] = ss]
    BY <1>7, <2>1, <2>2
  <2>6. /\ pushed' \in [Kinds -> Seq(Things)] /\ pushed'["trailStream"] = ts /\ pushed'["signals"] = ss
        /\ \A k \in Kinds : k \notin {"trailStream", "signals"} => pushed'[k] = pushed[k]
    BY <1>3, <2>4, <2>5 DEF Kinds
  <2> QED
    BY <2>1, <2>2, <2>6
<1>9. ASSUME NEW c \in Clients
      PROVE  SubOk(sub'[c], pushed') /\ sub'[c].open = sub[c].open
  <2>1. SubOk(sub[c], pushed)
    BY DEF SubsOk
  <2>2. CASE sub[c].kind = "signals" /\ e = "signal"
    <3>1. sub'[c] = Offered(sub[c], "signals", note)
      BY <2>2, <1>2, <1>6 DEF FanOut, Delivered, Offered
    <3>2. Extended(sub[c], "signals", note, pushed, pushed')
      BY <2>2, <1>8 DEF Extended
    <3>3. "signals" \in Kinds
      BY DEF Kinds
    <3> QED
      BY <3>1, <3>2, <3>3, <2>1, <1>3, OfferKeeps
  <2>3. CASE ~(sub[c].kind = "signals" /\ e = "signal")
    <3>1. sub'[c] = Offered(sub[c], "trailStream", entry)
      BY <2>3, <1>2, <1>4, <1>5 DEF FanOut, Delivered, Offered
    <3>2. Extended(sub[c], "trailStream", entry, pushed, pushed')
      BY <2>3, <1>8 DEF Extended
    <3>3. "trailStream" \in Kinds
      BY DEF Kinds
    <3> QED
      BY <3>1, <3>2, <3>3, <2>1, <1>3, OfferKeeps
  <2> QED
    BY <2>2, <2>3
<1>10. DOMAIN sub' = Clients /\ sub' = [c \in Clients |-> sub'[c]]
  BY DEF FanOut
<1>11. sub' \in [Clients -> SubRecords]
  BY <1>9, <1>10 DEF SubOk
<1>12. SubsOk(sub', pushed')
  BY <1>8, <1>9, <1>11 DEF SubsOk
<1>13. Listening(client, sub')
  BY <1>9 DEF Listening
<1>14. /\ client' = client /\ blobs' = blobs /\ queue' = queue /\ lock' = lock /\ completed' = completed
  BY DEF FanOut
<1>15. NumbersOk(events, asked, envelopes, started)'
  BY <1>1 DEF FanOut, NumbersOk
<1> QED
  BY <1>12, <1>13, <1>14, <1>15

\* What StopLoop makes of c.
Left(c) == IF DropsReply(c) THEN Advanced(c, "dropped") ELSE client[c]

\* A caller the loop leaves behind is told so.
LEMMA LeftIsTold ==
  ASSUME ServicesInv, NEW c \in Clients
  PROVE  /\ Left(c) \in ClientRecords /\ Course(c, Left(c), blobs) /\ Left(c).pc # "wait"
         /\ Left(c).pc = "listen" => client[c].pc = "listen"
         /\ client[c].pc = "wait" => /\ Left(c).res = "Internal" /\ Left(c).ws = 32000
                                     /\ CallOf(c) \in GatewayOps => Left(c).status = 500
<1>1. PICK r : r = client[c]
  OBVIOUS
<1>2. r \in ClientRecords /\ Course(c, r, blobs)
  BY <1>1 DEF ServicesInv, ClientsOk
<1>3. CASE r.pc = "wait"
  <2>1. PICK a : a = Advanced(c, "dropped")
    OBVIOUS
  <2>2. Left(c) = a
    BY <2>1, <1>1, <1>3 DEF Left, DropsReply
  <2>3. "dropped" \in Outcomes /\ client[c].pc \in {"want", "wait"} /\ ClientsOk(client, blobs)
    BY <1>1, <1>3 DEF Outcomes, ServicesInv
  <2>4. WentOn(c, r, a, "dropped")
    BY <2>1, <2>3, <1>1, AdvancedGoesOn
  <2>5. OpAt(c, r) = CallOf(c)
    BY <1>1 DEF OpAt, CallOf, Calls
  <2>6. /\ a \in ClientRecords /\ a.pc = "done" /\ a.item = r.item /\ a.res = "Internal" /\ a.ws = 32000
        /\ CallOf(c) \in GatewayOps => a.status = 500
    BY <2>4, <2>5 DEF WentOn
  <2>7. r.item = NoItem
    BY <1>2, <1>3 DEF Course
  <2>8. Course(c, a, blobs)
    BY <2>6, <2>7 DEF Course
  <2> QED
    BY <2>2, <2>6, <2>8
<1>4. CASE r.pc # "wait"
  <2>1. Left(c) = r
    BY <1>1, <1>4 DEF Left, DropsReply
  <2> QED
    BY <2>1, <1>1, <1>2, <1>4
<1> QED
  BY <1>3, <1>4

\* The loop ends.
LEMMA StopLoopKeeps ==
  ASSUME ServicesInv, StopLoop
  PROVE  ServicesInv'
<1> USE DEF ServicesInv
<1>1. client' = [c \in Clients |-> Left(c)]
  BY DEF StopLoop, Left
<1>2. client' \in [Clients -> ClientRecords] /\ \A c \in Clients : client'[c] = Left(c)
  BY <1>1, LeftIsTold
<1>3. ClientsOk(client', blobs)
  BY <1>2, LeftIsTold DEF ClientsOk
<1>4. DOMAIN queue = Queues
  BY DEF ReqsOk
<1>5. queue' \in [Queues -> Seq(Requests)] /\ \A z \in Queues : DOMAIN queue'[z] = {}
  BY <1>4 DEF StopLoop
<1>6. \A c \in Clients : client'[c].pc # "wait"
  BY <1>2, LeftIsTold
<1>7. ReqsOk(client', queue')
  BY <1>5, <1>6 DEF ReqsOk, AllFit, OneEach, AllAsked
<1>8. lock' = "none"
  BY DEF StopLoop, DropsReply, LockOk
<1>9. LockOk(client', lock')
  BY <1>8 DEF LockOk
<1>10. pushed \in [Kinds -> Seq(Things)] /\ sub \in [Clients -> SubRecords]
  BY DEF SubsOk
<1>11. ASSUME NEW c \in Clients
       PROVE  SubOk(sub'[c], pushed) /\ sub'[c].open = sub[c].open
  <2>1. SubOk(sub[c], pushed)
    BY DEF SubsOk
  <2>2. CASE sub[c].state = "none"
    <3>1. sub'[c] = sub[c]
      BY <2>2 DEF StopLoop
    <3> QED
      BY <3>1, <2>1
  <2>3. CASE sub[c].state # "none"
    <3>1. PICK o : o = [sub[c] EXCEPT !.state = "cut"]
      OBVIOUS
    <3>2. sub'[c] = o
      BY <2>3, <3>1 DEF StopLoop
    <3> QED
      BY <3>1, <3>2, <2>1, <2>3, <1>10, CutKeeps
  <2> QED
    BY <2>2, <2>3
<1>12. DOMAIN sub' = Clients /\ sub' = [c \in Clients |-> sub'[c]]
  BY DEF StopLoop
<1>13. sub' \in [Clients -> SubRecords]
  BY <1>11, <1>12 DEF SubOk
<1>14. SubsOk(sub', pushed)
  BY <1>10, <1>11, <1>13 DEF SubsOk
<1>15. Listening(client', sub')
  <2>1. \A c \in Clients : client'[c].pc = "listen" => client[c].pc = "listen"
    BY <1>2, LeftIsTold
  <2> QED
    BY <2>1, <1>11 DEF Listening
<1>16. pushed' = pushed /\ blobs' = blobs /\ completed' = completed /\ NumbersOk(events, asked, envelopes, started)'
  BY DEF StopLoop, NumbersOk
<1> QED
  BY <1>3, <1>7, <1>9, <1>14, <1>15, <1>16

\* The streams a step leaves behind.
Streamed == SubsOk(sub', pushed') /\ \A c \in Clients : sub'[c].open = sub[c].open

\* An item goes to every subscriber of its kind.
LEMMA PushKeeps ==
  ASSUME SubsOk(sub, pushed), NEW kind \in Kinds, NEW item \in Things, Push(kind, item)
  PROVE  Streamed
<1>1. pushed \in [Kinds -> Seq(Things)] /\ sub \in [Clients -> SubRecords]
  BY DEF SubsOk
<1>2. /\ pushed' \in [Kinds -> Seq(Things)] /\ pushed'[kind] = Append(pushed[kind], item)
      /\ \A k \in Kinds : k # kind => pushed'[k] = pushed[k]
  BY <1>1 DEF Push
<1>3. ASSUME NEW c \in Clients
      PROVE  SubOk(sub'[c], pushed') /\ sub'[c].open = sub[c].open
  <2>1. SubOk(sub[c], pushed)
    BY DEF SubsOk
  <2>2. sub'[c] = Offered(sub[c], kind, item)
    BY DEF Push, Delivered, Offered
  <2>3. Extended(sub[c], kind, item, pushed, pushed')
    BY <1>2 DEF Extended
  <2> QED
    BY <2>1, <2>2, <2>3, <1>1, OfferKeeps
<1>4. DOMAIN sub' = Clients /\ sub' = [c \in Clients |-> sub'[c]]
  BY DEF Push, Delivered
<1>5. sub' \in [Clients -> SubRecords]
  BY <1>3, <1>4 DEF SubOk
<1> QED
  BY <1>2, <1>3, <1>5 DEF Streamed, SubsOk

\* A handler that succeeds.
LEMMA ServeOkStreams ==
  ASSUME SubsOk(sub, pushed), NEW r \in Requests, r.op = "reply" \/ r.from \in Clients, ServeOk(r)
  PROVE  Streamed
<1>0. "reply" \notin Streaming /\ "suspend" \notin Streaming
  BY DEF Streaming, AgentStreams, CoordinatorStreams, HighwayStreams
<1>1. CASE r.op \in Streaming
  <2>1. RegisterSub(r.from, r.arg) /\ pushed' = pushed
    BY <1>0, <1>1 DEF ServeOk
  <2>2. PICK c \in Clients : c = r.from
    BY <1>0, <1>1
  <2>3. CASE sub[c].state = "asked" /\ sub[c].run = r.arg
    <3>1. PICK b : b = sub[c]
      OBVIOUS
    <3>2. PICK o : o = [b EXCEPT !.state = "on", !.from = Len(pushed[b.kind])]
      OBVIOUS
    <3>3. SubOk(b, pushed) /\ pushed \in [Kinds -> Seq(Things)] /\ b.state = "asked"
      BY <3>1, <2>3 DEF SubsOk
    <3>4. SubOk(o, pushed) /\ o.open = b.open
      BY <3>2, <3>3, SubscribeKeeps
    <3>5. Put(sub, sub', c, o)
      BY <2>1, <2>2, <2>3, <3>1, <3>2 DEF RegisterSub, Put, SubsOk
    <3>6. SubsOk(sub', pushed) /\ sub'[c] = o /\ \A x \in Clients : x # c => sub'[x] = sub[x]
      BY <3>4, <3>5, SubMoves
    <3> QED
      BY <3>1, <3>4, <3>6, <2>1 DEF Streamed
  <2>4. CASE ~(sub[c].state = "asked" /\ sub[c].run = r.arg)
    <3>1. sub' = sub
      BY <2>1, <2>2, <2>4 DEF RegisterSub
    <3> QED
      BY <3>1, <2>1 DEF Streamed
  <2> QED
    BY <2>3, <2>4
<1>2. CASE r.op = "reply"
  <2>1. Push("inbox", Item("envelope", r.arg)) /\ "inbox" \in Kinds
    BY <1>0, <1>2 DEF ServeOk, Kinds
  <2>2. Item("envelope", r.arg) \in Things
    BY DEF Item, Things, Requests
  <2> QED
    BY <2>1, <2>2, PushKeeps
<1>3. CASE r.op = "suspend"
  <2>1. Push("commands", Item("suspend", 0)) /\ "commands" \in Kinds
    BY <1>0, <1>3 DEF ServeOk, Kinds
  <2>2. Item("suspend", 0) \in Things
    BY DEF Item, Things
  <2> QED
    BY <2>1, <2>2, PushKeeps
<1>4. CASE r.op \notin Streaming \cup {"reply", "suspend"}
  <2>1. sub' = sub /\ pushed' = pushed
    BY <1>4 DEF ServeOk
  <2> QED
    BY <2>1 DEF Streamed
<1> QED
  BY <1>1, <1>2, <1>3, <1>4

\* The loop serves a request.
LEMMA ServeKeeps ==
  ASSUME ServicesInv, NEW s \in Queues, NEW x \in {"ok"} \cup Categories, Serve(s, x)
  PROVE  ServicesInv'
<1> USE DEF ServicesInv
<1>1. queue \in [Queues -> Seq(Requests)] /\ queue[s] # << >>
  BY DEF ReqsOk, Serve
<1>2. PICK r \in Requests : r = Head(queue[s])
  BY <1>1
<1>3. Fits(client, r)
  <2>1. 1 \in DOMAIN queue[s] /\ Head(queue[s]) = queue[s][1]
    BY <1>1
  <2> QED
    BY <2>1, <1>2 DEF ReqsOk, AllFit
<1>4. Shorter(queue, queue', s)
  <2>1. queue' = [queue EXCEPT ![s] = Tail(queue[s])]
    BY DEF Serve
  <2>2. Tail(queue[s]) \in Seq(Requests)
    BY <1>1
  <2> QED
    BY <2>1, <2>2, <1>1 DEF Shorter
<1>5. Streamed
  <2>1. CASE x = "ok"
    BY <2>1, <1>2, <1>3, ServeOkStreams DEF Serve, Fits
  <2>2. CASE x # "ok"
    BY <2>2, <1>2 DEF Serve, Streamed
  <2> QED
    BY <2>1, <2>2
<1>6. /\ blobs \subseteq blobs' /\ (x = "ok" /\ r.op = "checkpoint" => r.from \in blobs')
      /\ NumbersOk(events, asked, envelopes, started)'
  <2>1. CASE x = "ok"
    <3>1. ServeOk(r) /\ started' = started
      BY <2>1, <1>2 DEF Serve
    <3>2. blobs \subseteq blobs' /\ (r.op = "checkpoint" => r.from \in blobs')
      BY <3>1 DEF ServeOk
    <3>3. envelopes' \in Nat /\ asked' \subseteq Nat
      BY <3>1 DEF ServeOk, NumbersOk
    <3>4. events' \in Seq({"signal", "suspend"})
      <4>1. events \in Seq({"signal", "suspend"})
        BY DEF NumbersOk
      <4>2. CASE r.op \in {"signal", "suspend"}
        <5>1. events' = Append(events, r.op)
          BY <4>2, <3>1 DEF ServeOk
        <5> QED
          BY <5>1, <4>1, <4>2
      <4>3. CASE r.op \notin {"signal", "suspend"}
        BY <4>1, <4>3, <3>1 DEF ServeOk
      <4> QED
        BY <4>2, <4>3
    <3> QED
      BY <3>1, <3>2, <3>3, <3>4 DEF NumbersOk
  <2>2. CASE x # "ok"
    BY <2>2, <1>2 DEF Serve, NumbersOk
  <2> QED
    BY <2>1, <2>2
<1>7. completed' = completed \/ (r.op = "signal" /\ completed' = completed \cup {r.from})
  <2>1. CASE x = "ok"
    BY <2>1, <1>2 DEF Serve, ServeOk
  <2>2. CASE x # "ok"
    BY <2>2, <1>2 DEF Serve
  <2> QED
    BY <2>1, <2>2
<1>8. CASE ~Unary(r)
  <2>1. client' = client /\ lock' = lock
    BY <1>2, <1>8 DEF Serve, Unary
  <2>2. ReqsOk(client, queue')
    BY <1>1, <1>2, <1>4, <1>8, TakeNoteKeepsReqs
  <2>3. ClientsOk(client, blobs')
    BY <1>6, StoredGrows
  <2>4. r.op # "signal"
    BY <1>8 DEF Unary, Streaming, AgentStreams, CoordinatorStreams, HighwayStreams
  <2>5. Listening(client, sub')
    BY <1>5 DEF Listening, Streamed
  <2> QED
    BY <1>5, <1>6, <1>7, <2>1, <2>2, <2>3, <2>4, <2>5 DEF Streamed
<1>9. CASE Unary(r)
  <2>1. PICK c \in Clients : c = r.from
    BY <1>3, <1>9 DEF Fits, Unary
  <2>2. PICK k : k = client[c]
    OBVIOUS
  <2>3. /\ k \in ClientRecords /\ k.pc = "wait" /\ r.op = OpAt(c, k) /\ Course(c, k, blobs)
    BY <1>3, <1>9, <2>1, <2>2 DEF Fits, ClientsOk
  <2>4. /\ k.prog \in DOMAIN ProgramsOf(c) /\ k.at \in DOMAIN ProgramsOf(c)[k.prog] /\ k.item = NoItem
        /\ r.op \notin Streaming
    BY <2>3 DEF Course
  <2>5. PICK m : m = Advanced(c, x)
    OBVIOUS
  <2>6. x \in Outcomes /\ client[c].pc \in {"want", "wait"}
    BY <2>2, <2>3 DEF Outcomes
  <2>7. WentOn(c, k, m, x)
    BY <2>2, <2>5, <2>6, AdvancedGoesOn
  <2>8. m \in ClientRecords /\ m.item = NoItem /\ m.pc \in {"want", "done"}
    BY <2>3, <2>4, <2>7 DEF WentOn
  <2>9. PICK e \in Nat : e = IF r.op = "send" /\ x = "ok" THEN envelopes + 1 ELSE m.env
    BY <2>8 DEF NumbersOk, ClientRecords
  <2>10. PICK a : a = [m EXCEPT !.env = e]
    OBVIOUS
  <2>11. /\ a \in ClientRecords /\ a.pc = m.pc /\ a.item = NoItem /\ a.prog = m.prog /\ a.at = m.at
    BY <2>8, <2>10 DEF ClientRecords
  <2>12. Put(client, client', c, a) /\ lock' = Unlocked(c)
    BY <1>2, <1>9, <2>1, <2>5, <2>8, <2>9, <2>10 DEF Serve, Unary, Put, ClientRecords
  <2>13. m.pc = "want" /\ k.prog = "complete" /\ m.at = 2 => c \in blobs'
    <3> SUFFICES ASSUME m.pc = "want", k.prog = "complete", m.at = 2 PROVE c \in blobs'
      OBVIOUS
    <3>1. 2 = k.at + 1 /\ k.at \in Nat /\ x = "ok"
      BY <2>3, <2>7 DEF WentOn, ClientRecords
    <3>2. k.at = 1
      BY <3>1
    <3>3. r.op = "checkpoint"
      BY <3>2, <2>3, <2>4, Programs DEF OpAt
    <3> QED
      BY <3>1, <3>3, <1>6, <2>1
  <2>14. Course(c, m, blobs')
    BY <2>4, <2>7, <2>13, WentOnCourse
  <2>15. Course(c, a, blobs')
    BY <2>8, <2>11, <2>14 DEF Course
  <2>16. ClientsOk(client', blobs') /\ Changed(client, client', c) /\ client'[c] = a
    BY <2>11, <2>12, <2>15, <1>6, ClientMoves
  <2>17. client'[c].pc # "wait" /\ client'[c].pc # "listen"
    BY <2>8, <2>11, <2>16
  <2>18. ReqsOk(client', queue')
    BY <1>1, <1>2, <1>4, <1>9, <2>1, <2>16, <2>17, AnswerKeepsReqs
  <2>19. LockOk(client', lock')
    <3>1. CASE lock = c
      BY <3>1, <2>12 DEF Unlocked, LockOk
    <3>2. CASE lock # c
      BY <3>2, <2>12, <2>16 DEF Unlocked, LockOk, Changed, Clients
    <3> QED
      BY <3>1, <3>2
  <2>20. Listening(client', sub')
    BY <1>5, <2>16, <2>17, ListeningStays DEF Streamed
  <2>21. r.op = "signal" => c \in blobs
    <3> SUFFICES ASSUME r.op = "signal" PROVE c \in blobs
      OBVIOUS
    <3>1. k.prog = "complete" /\ k.at = 2
      BY <2>3, <2>4, Programs DEF OpAt
    <3> QED
      BY <3>1, <2>3 DEF Course
  <2>22. completed' \subseteq blobs'
    BY <1>6, <1>7, <2>1, <2>21
  <2> QED
    BY <1>5, <1>6, <2>16, <2>18, <2>19, <2>20, <2>22 DEF Streamed
<1> QED
  BY <1>8, <1>9

\* Every step keeps the invariant.
LEMMA ServicesInvNext ==
  ASSUME ServicesInv, [ServicesNext]_serviceVars
  PROVE  ServicesInv'
<1>1. CASE UNCHANGED serviceVars
  BY <1>1 DEF serviceVars, ServicesInv
<1>2. DOMAIN queue = Queues
  BY DEF ServicesInv, ReqsOk
<1>3. ASSUME NEW c \in Clients, NEW m \in DOMAIN ProgramsOf(c), StartProgram(c, m) PROVE ServicesInv'
  BY <1>3, StartProgramKeeps
<1>4. ASSUME NEW c \in Clients, NEW i \in BadInputs, RefuseInput(c, i) PROVE ServicesInv'
  BY <1>4, RefuseInputKeeps
<1>5. ASSUME NEW c \in Clients, Issue(c) \/ Take(c) \/ Quit(c) \/ ReturnCall(c) PROVE ServicesInv'
  BY <1>5, IssueKeeps, TakeKeeps, QuitKeeps, ReturnCallKeeps
<1>6. ASSUME NEW s \in DOMAIN queue, NEW x \in {"ok"} \cup Categories, Serve(s, x) PROVE ServicesInv'
  BY <1>2, <1>6, ServeKeeps
<1>7. ASSUME NEW q \in asked, Answer(q) PROVE ServicesInv'
  BY <1>7, AnswerKeeps
<1>8. CASE FanOut \/ StopLoop \/ StartLoop
  BY <1>8, FanOutKeeps, StopLoopKeeps, StartLoopKeeps
<1> QED
  BY <1>1, <1>3, <1>4, <1>5, <1>6, <1>7, <1>8 DEF ServicesNext

\* The invariant gives every safety part.
LEMMA ServicesInvImplies ==
  ServicesInv => AnswerIsForMe /\ CompleteNeedsCheckpoint /\ NoHoles /\ NoOrphanCall
<1> SUFFICES ASSUME ServicesInv PROVE AnswerIsForMe /\ CompleteNeedsCheckpoint /\ NoHoles /\ NoOrphanCall
  OBVIOUS
<1> USE DEF ServicesInv
<1>1. AnswerIsForMe
  BY DEF AnswerIsForMe, ClientsOk, Course, Clients
<1>2. CompleteNeedsCheckpoint
  BY DEF CompleteNeedsCheckpoint
<1>3. NoHoles
  <2> SUFFICES ASSUME NEW c \in Clients, sub[c].state \in {"on", "cut"}
               PROVE  LET had == sub[c].got \o sub[c].buf
                          all == pushed[sub[c].kind]
                      IN  /\ sub[c].from + Len(had) <= Len(all)
                          /\ had = SubSeq(all, sub[c].from + 1, sub[c].from + Len(had))
                          /\ sub[c].state = "on" /\ sub[c].open => sub[c].from + Len(had) = Len(all)
    BY DEF NoHoles
  <2>1. PICK b : b = sub[c]
    OBVIOUS
  <2>2. b \in SubRecords /\ b.kind \in Kinds /\ Has(b, pushed[b.kind]) /\ pushed \in [Kinds -> Seq(Things)]
    BY <2>1 DEF SubsOk, SubOk
  <2>3. PICK had \in Seq(Things) : had = b.got \o b.buf
    BY <2>2, ConcatProperties DEF SubRecords
  <2>4. PICK all \in Seq(Things) : all = pushed[b.kind]
    BY <2>2
  <2>5. PICK from \in Nat : from = b.from
    BY <2>2 DEF SubRecords
  <2>6. Stretch(had, from, all) /\ (b.state = "on" /\ b.open => from + Len(had) = Len(all))
    BY <2>1, <2>2, <2>3, <2>4, <2>5 DEF Has
  <2>7. had = SubSeq(all, from + 1, from + Len(had))
    BY <2>6, StretchIsSubSeq
  <2>8. from + Len(had) <= Len(all)
    BY <2>6 DEF Stretch
  <2> QED
    BY <2>1, <2>3, <2>4, <2>5, <2>6, <2>7, <2>8
<1>4. NoOrphanCall
  <2>1. DOMAIN queue = Queues
    BY DEF ReqsOk
  <2>2. \A c \in Clients : client[c].pc = "wait" =>
          \E s \in DOMAIN queue : \E k \in DOMAIN queue[s] : queue[s][k].from = c
    BY <2>1 DEF ReqsOk, AllAsked
  <2> QED
    BY <2>2 DEF NoOrphanCall, LockOk
<1> QED
  BY <1>1, <1>2, <1>3, <1>4

\* What a step tells the callers whose loop is gone.
Told ==
  \A c \in Clients :
    client[c].pc = "wait" /\ client'[c].pc # "wait" /\ loop' = "stopped" =>
      /\ client'[c].res # "ok" /\ client'[c].ws # 0
      /\ CallOf(c) \in GatewayOps => client'[c].status = 500

\* Only a handler or the loop's end answers a waiting caller.
LEMMA StepTells ==
  ASSUME ServicesInv, [ServicesNext]_serviceVars
  PROVE  Told
<1> SUFFICES ASSUME NEW d \in Clients, client[d].pc = "wait", client'[d].pc # "wait", loop' = "stopped"
             PROVE  /\ client'[d].res # "ok" /\ client'[d].ws # 0
                    /\ CallOf(d) \in GatewayOps => client'[d].status = 500
  BY DEF Told
<1>0. client \in [Clients -> ClientRecords]
  BY DEF ServicesInv, ClientsOk
<1>1. CASE UNCHANGED serviceVars
  BY <1>1 DEF serviceVars
<1>3. ASSUME NEW c \in Clients, NEW m \in DOMAIN ProgramsOf(c), StartProgram(c, m) PROVE FALSE
  BY <1>0, <1>3 DEF StartProgram
<1>4. ASSUME NEW c \in Clients, NEW i \in BadInputs, RefuseInput(c, i) PROVE FALSE
  BY <1>0, <1>4 DEF RefuseInput
<1>5. ASSUME NEW c \in Clients, Issue(c) PROVE FALSE
  <2>1. client[c].pc = "want" /\ \A y \in Clients : y # c => client'[y] = client[y]
    BY <1>0, <1>5 DEF Issue
  <2> QED
    BY <2>1
<1>6. ASSUME NEW c \in Clients, Take(c) PROVE FALSE
  <2>1. client[c].pc = "listen" /\ \A y \in Clients : y # c => client'[y] = client[y]
    BY <1>0, <1>6 DEF Take
  <2> QED
    BY <2>1
<1>7. ASSUME NEW c \in Clients, Quit(c) PROVE FALSE
  <2>1. client[c].pc = "listen" /\ \A y \in Clients : y # c => client'[y] = client[y]
    BY <1>0, <1>7 DEF Quit
  <2> QED
    BY <2>1
<1>8. ASSUME NEW c \in Clients, ReturnCall(c) PROVE FALSE
  BY <1>0, <1>8 DEF ReturnCall
<1>9. ASSUME NEW s \in DOMAIN queue, NEW x \in {"ok"} \cup Categories, Serve(s, x) PROVE FALSE
  BY <1>9 DEF Serve
<1>10. ASSUME NEW q \in asked, Answer(q) PROVE FALSE
  BY <1>10 DEF Answer
<1>11. CASE FanOut \/ StartLoop
  BY <1>11 DEF FanOut, StartLoop
<1>12. CASE StopLoop
  <2>1. client'[d] = Left(d)
    BY <1>12 DEF StopLoop, Left
  <2>2. client[d].pc = "wait" => /\ Left(d).res = "Internal" /\ Left(d).ws = 32000
                                 /\ CallOf(d) \in GatewayOps => Left(d).status = 500
    BY LeftIsTold
  <2> QED
    BY <2>1, <2>2
<1>13. CASE \E c \in Clients :
              \/ \E p \in DOMAIN ProgramsOf(c) : StartProgram(c, p)
              \/ \E i \in BadInputs : RefuseInput(c, i)
              \/ Issue(c) \/ Take(c) \/ Quit(c) \/ ReturnCall(c)
  BY <1>3, <1>4, <1>5, <1>6, <1>7, <1>8, <1>13
<1>14. CASE (\E s \in DOMAIN queue, x \in {"ok"} \cup Categories : Serve(s, x)) \/ \E q \in asked : Answer(q)
  BY <1>9, <1>10, <1>14
<1> QED
  BY <1>1, <1>11, <1>12, <1>13, <1>14 DEF ServicesNext

\* Every caller of the services gets the answer to its own call or an error, also
\* when the event loop stops and starts: for any clients and any capacities of
\* the queues and streams.
THEOREM ServicesAlwaysSound == ServicesSpec => ServicesSound
<1>1. ServicesInit => ServicesInv
  BY ServicesInvInit
<1>2. ServicesInv /\ [ServicesNext]_serviceVars => ServicesInv'
  BY ServicesInvNext
<1>3. ServicesInv => AnswerIsForMe /\ CompleteNeedsCheckpoint /\ NoHoles /\ NoOrphanCall
  BY ServicesInvImplies
<1>4. ServicesInv /\ [ServicesNext]_serviceVars =>
        [\A c \in Clients :
           client[c].pc = "wait" /\ client'[c].pc # "wait" /\ loop' = "stopped" =>
             /\ client'[c].res # "ok" /\ client'[c].ws # 0
             /\ CallOf(c) \in GatewayOps => client'[c].status = 500]_serviceVars
  BY StepTells DEF Told
<1> QED
  BY <1>1, <1>2, <1>3, <1>4, PTL DEF ServicesSpec, ServicesSound, SuccessMeansServed

(* ------------------------------ the gateway ----------------------------- *)
LogEntry == [at : Nat, tokens : Nat]

\* The entries of a log in the window, by position, and what check keeps.
Fresh(log, t) == {k \in DOMAIN log : log[k].at + LlmWindow >= t}
Kept(log, t) ==
  IF Fresh(log, t) = {} THEN <<>>
  ELSE LET first == CHOOSE k \in Fresh(log, t) : \A j \in Fresh(log, t) : k <= j
       IN  SubSeq(log, first, Len(log))

Sent(us) == {u \in LlmCallers : us[u].pc = "sent"}

\* The two sums of the bound.
Overshoot(log, t, us) ==
  MaxRequests > 0 =>
    Cardinality(Fresh(log, t)) + Cardinality(Sent(us)) <= MaxRequests - 1 + Cardinality(LlmCallers)

\* A non-empty set of natural numbers has a least element.
LEMMA LeastNumber ==
  ASSUME NEW T \in SUBSET Nat, T # {}
  PROVE  \E m \in T : \A n \in T : m <= n
<1>1. PICK F : F = {1..n : n \in T}
  OBVIOUS
<1>2. F \subseteq FiniteSubsetsOf(Nat)
  <2> SUFFICES ASSUME NEW n \in T PROVE 1..n \in FiniteSubsetsOf(Nat)
    BY <1>1
  <2>1. n \in Int /\ 1 \in Int
    OBVIOUS
  <2>2. IsFiniteSet(1..n)
    BY <2>1, FS_Interval
  <2> QED
    BY <2>2 DEF FiniteSubsetsOf
<1>3. F # {}
  BY <1>1
<1>4. PICK x \in F : \A y \in F : ~ (<<y, x>> \in StrictSubsetOrdering(Nat))
  BY <1>2, <1>3, FS_StrictSubsetOrderingWellFounded, WFMin
<1>5. PICK m \in T : x = 1..m
  BY <1>1
<1>6. ASSUME NEW n \in T, n < m PROVE FALSE
  <2>1. 1..n \in F /\ 1..n \subseteq 1..m /\ 1..n # 1..m
    BY <1>1, <1>6
  <2>2. 1..n \in SUBSET Nat /\ 1..m \in SUBSET Nat
    OBVIOUS
  <2>3. <<1..n, 1..m>> \in StrictSubsetOrdering(Nat)
    BY <2>1, <2>2 DEF StrictSubsetOrdering
  <2> QED
    BY <2>1, <2>3, <1>4, <1>5
<1> QED
  BY <1>6

\* The entries in the window are finitely many.
LEMMA FreshFinite ==
  ASSUME NEW log \in Seq(LogEntry), NEW t
  PROVE  IsFiniteSet(Fresh(log, t)) /\ Cardinality(Fresh(log, t)) \in Nat
         /\ Fresh(log, t) \subseteq 1..Len(log) /\ Cardinality(Fresh(log, t)) <= Len(log)
<1>1. PICK n \in Nat : n = Len(log)
  OBVIOUS
<1>2. IsFiniteSet(1..n) /\ Cardinality(1..n) = n
  <2>1. 1 \in Int /\ n \in Int
    OBVIOUS
  <2>2. IsFiniteSet(1..n) /\ Cardinality(1..n) = IF 1 > n THEN 0 ELSE n - 1 + 1
    BY <2>1, FS_Interval
  <2> QED
    BY <2>2
<1>3. Fresh(log, t) \subseteq 1..n
  BY <1>1 DEF Fresh
<1> QED
  BY <1>1, <1>2, <1>3, FS_Subset, FS_CardinalityType

\* The callers whose request is under way.
LEMMA SentFinite ==
  ASSUME NEW us
  PROVE  IsFiniteSet(Sent(us)) /\ Cardinality(Sent(us)) \in Nat /\ Cardinality(LlmCallers) \in Nat
         /\ Cardinality(Sent(us)) <= Cardinality(LlmCallers)
<1>1. Sent(us) \subseteq LlmCallers
  BY DEF Sent
<1> QED
  BY <1>1, LlmAssumption, FS_Subset, FS_CardinalityType

\* Pruning keeps a log, and no more of it is in the window than before.
LEMMA PruningKeeps ==
  ASSUME NEW log \in Seq(LogEntry), NEW t \in Nat
  PROVE  /\ Kept(log, t) \in Seq(LogEntry)
         /\ Cardinality(Fresh(Kept(log, t), t)) <= Cardinality(Fresh(log, t))
<1>1. PICK F : F = Fresh(log, t)
  OBVIOUS
<1>2. PICK n \in Nat : n = Len(log)
  OBVIOUS
<1>3. CASE F = {}
  <2>1. Kept(log, t) = << >>
    BY <1>1, <1>3 DEF Kept
  <2>2. << >> \in Seq(LogEntry) /\ DOMAIN << >> = {}
    OBVIOUS
  <2>3. Fresh(<< >>, t) = {}
    BY <2>2 DEF Fresh
  <2>4. Fresh(Kept(log, t), t) = F /\ Cardinality(F) = 0
    BY <2>1, <2>3, <1>3, FS_EmptySet
  <2> QED
    BY <2>1, <2>2, <2>4, <1>1
<1>4. CASE F # {}
  <2>1. F \in SUBSET Nat /\ F \subseteq 1..n
    BY <1>1, <1>2, FreshFinite
  <2>2. PICK first : first = CHOOSE k \in F : \A j \in F : k <= j
    OBVIOUS
  <2>3. first \in F /\ \A j \in F : first <= j
    <3>1. \E k \in F : \A j \in F : k <= j
      BY <2>1, <1>4, LeastNumber
    <3> QED
      BY <3>1, <2>2
  <2>4. PICK kept : kept = SubSeq(log, first, n)
    OBVIOUS
  <2>5. Kept(log, t) = kept
    BY <1>1, <1>2, <1>4, <2>2, <2>4 DEF Kept
  <2>6. first \in Int /\ n \in Int /\ first >= 1 /\ first <= n
    BY <2>1, <2>3
  <2>7. \A i \in first..n : log[i] \in LogEntry
    <3> TAKE i \in first..n
    <3>1. i \in 1..Len(log)
      BY <1>2, <2>6
    <3> QED
      BY <3>1
  <2>8. /\ kept \in Seq(LogEntry) /\ Len(kept) = n - first + 1
        /\ \A i \in 1..(n - first + 1) : kept[i] = log[first + i - 1]
    BY <2>4, <2>6, <2>7, SubSeqProperties
  <2>9. PICK G : G = Fresh(kept, t)
    OBVIOUS
  <2>10. ASSUME NEW i \in G PROVE i \in 1..(n - first + 1) /\ first + i - 1 \in F
    <3>1. i \in 1..(n - first + 1) /\ kept[i].at + LlmWindow >= t
      BY <2>8, <2>9 DEF Fresh
    <3>2. first + i - 1 \in 1..n /\ kept[i] = log[first + i - 1]
      BY <3>1, <2>6, <2>8
    <3> QED
      BY <3>1, <3>2, <1>1, <1>2 DEF Fresh
  <2>11. PICK f : f = [i \in G |-> first + i - 1]
    OBVIOUS
  <2>12. f \in [G -> F]
    BY <2>10, <2>11
  <2>13. \A i, j \in G : f[i] = f[j] => i = j
    <3> TAKE i \in G, j \in G
    <3>1. i \in Int /\ j \in Int /\ f[i] = first + i - 1 /\ f[j] = first + j - 1
      BY <2>10, <2>11
    <3> QED
      BY <3>1, <2>6
  <2>14. f \in Injection(G, F)
    BY <2>12, <2>13 DEF Injection, IsInjective
  <2>15. Cardinality(G) <= Cardinality(F)
    <3>1. IsFiniteSet(F)
      BY <1>1, FreshFinite
    <3> QED
      BY <3>1, <2>14, FS_Injection
  <2> QED
    BY <2>5, <2>8, <2>9, <2>15, <1>1
<1> QED
  BY <1>3, <1>4

\* The steps of the limiter, on the bound.
LEMMA OvershootSteps ==
  ASSUME NEW log \in Seq(LogEntry), NEW t \in Nat, NEW us, Overshoot(log, t, us),
         NEW vs
  PROVE  /\ Sent(vs) \subseteq Sent(us) =>
              Overshoot(log, t, vs) /\ Overshoot(Kept(log, t), t, vs) /\ Overshoot(log, t + 1, vs)
         /\ (MaxRequests > 0 => Len(Kept(log, t)) < MaxRequests) => Overshoot(Kept(log, t), t, vs)
         /\ \A tokens \in Nat, u \in Sent(us) : Sent(vs) = Sent(us) \ {u} =>
              Overshoot(Append(log, [at |-> t, tokens |-> tokens]), t, vs)
<1>0. PICK N \in Nat : N = Cardinality(LlmCallers)
  BY SentFinite
<1>1. PICK c \in Nat, s \in Nat : c = Cardinality(Fresh(log, t)) /\ s = Cardinality(Sent(us))
  BY FreshFinite, SentFinite
<1>2. MaxRequests \in Nat /\ LlmWindow \in Nat
  BY LlmAssumption
<1>3. MaxRequests > 0 => c + s <= MaxRequests - 1 + N
  BY <1>0, <1>1 DEF Overshoot
<1>4. PICK kept \in Seq(LogEntry) : kept = Kept(log, t)
  BY PruningKeeps
<1>5. PICK d \in Nat : d = Cardinality(Fresh(kept, t)) /\ d <= c /\ d <= Len(kept)
  BY <1>1, <1>4, PruningKeeps, FreshFinite
<1>6. PICK v \in Nat : v = Cardinality(Sent(vs)) /\ v <= N
  BY <1>0, SentFinite
<1>7. ASSUME Sent(vs) \subseteq Sent(us)
      PROVE  Overshoot(log, t, vs) /\ Overshoot(Kept(log, t), t, vs) /\ Overshoot(log, t + 1, vs)
  <2>1. v <= s
    BY <1>1, <1>6, <1>7, SentFinite, FS_Subset
  <2>2. PICK e \in Nat : e = Cardinality(Fresh(log, t + 1)) /\ e <= c
    <3>1. Fresh(log, t + 1) \subseteq Fresh(log, t)
      <4> SUFFICES ASSUME NEW k \in Fresh(log, t + 1) PROVE k \in Fresh(log, t)
        OBVIOUS
      <4>1. k \in DOMAIN log /\ log[k] \in LogEntry /\ log[k].at + LlmWindow >= t + 1
        BY DEF Fresh
      <4>2. log[k].at \in Nat
        BY <4>1 DEF LogEntry
      <4> QED
        BY <4>1, <4>2, <1>2 DEF Fresh
    <3> QED
      BY <3>1, <1>1, FreshFinite, FS_Subset
  <2> QED
    BY <2>1, <2>2, <1>0, <1>1, <1>2, <1>3, <1>4, <1>5, <1>6 DEF Overshoot
<1>8. ASSUME MaxRequests > 0 => Len(Kept(log, t)) < MaxRequests
      PROVE  Overshoot(Kept(log, t), t, vs)
  <2>1. PICK n \in Nat : n = Len(kept)
    BY <1>4
  <2> QED
    BY <2>1, <1>0, <1>2, <1>4, <1>5, <1>6, <1>8 DEF Overshoot
<1>9. ASSUME NEW tokens \in Nat, NEW u \in Sent(us), Sent(vs) = Sent(us) \ {u}
      PROVE  Overshoot(Append(log, [at |-> t, tokens |-> tokens]), t, vs)
  <2>1. v = s - 1
    BY <1>1, <1>6, <1>9, SentFinite, FS_RemoveElement
  <2>2. PICK entry \in LogEntry : entry = [at |-> t, tokens |-> tokens]
    BY DEF LogEntry
  <2>3. PICK more \in Seq(LogEntry) : more = Append(log, entry)
    <3>1. Append(log, entry) \in Seq(LogEntry)
      BY AppendProperties
    <3> QED
      BY <3>1
  <2>4. Len(more) = Len(log) + 1 /\ more[Len(log) + 1] = entry /\ Len(log) \in Nat
        /\ \A k \in 1..Len(log) : more[k] = log[k]
    BY <2>3
  <2>5. Fresh(more, t) \subseteq Fresh(log, t) \cup {Len(log) + 1}
    BY <2>4 DEF Fresh
  <2>6. PICK e \in Nat : e = Cardinality(Fresh(more, t)) /\ e <= c + 1
    <3>1. Len(log) + 1 \notin Fresh(log, t)
      BY DEF Fresh
    <3>2. IsFiniteSet(Fresh(log, t) \cup {Len(log) + 1})
          /\ Cardinality(Fresh(log, t) \cup {Len(log) + 1}) = c + 1
      BY <3>1, <1>1, FreshFinite, FS_AddElement
    <3> QED
      BY <3>2, <2>5, FreshFinite, FS_Subset
  <2>7. Overshoot(more, t, vs)
    <3>1. MaxRequests > 0 => e + v <= MaxRequests - 1 + N
      BY <2>1, <2>6, <1>2, <1>3
    <3> QED
      BY <3>1, <2>6, <1>0, <1>6 DEF Overshoot
  <2> QED
    BY <2>2, <2>3, <2>7
<1> QED
  BY <1>7, <1>8, <1>9

\* What a division drops is less than the unit.
LEMMA Truncated ==
  ASSUME NEW a \in Nat, NEW unit \in Nat \ {0}
  PROVE  /\ a \div unit \in Nat
         /\ (a \div unit) * unit <= a /\ a <= (a \div unit) * unit + unit
<1>1. PICK q \in Nat : q = a \div unit
  OBVIOUS
<1>2. q * unit <= a /\ a <= q * unit + unit
  BY <1>1
<1> QED
  BY <1>1, <1>2

\* lookup_pricing finds the real price of a model it has a price for.
LEMMA PriceFound ==
  ASSUME NEW model \in Models, NEW p \in LookupPricing(model)
  PROVE  /\ p.in \in Nat /\ p.out \in Nat
         /\ p.in = TruePrice(model).in /\ p.out = TruePrice(model).out
<1> DEFINE short == [prefix |-> <<"o3">>, in |-> 8, out |-> 13]
           long  == [prefix |-> <<"o3", "mini">>, in |-> 3, out |-> 7]
<1>1. p \in PricingTable /\ IsPrefix(p.prefix, model)
      /\ \A q \in PricingTable : IsPrefix(q.prefix, model) => Len(q.prefix) <= Len(p.prefix)
  BY DEF LookupPricing
<1>2. p = short \/ p = long
  BY <1>1 DEF PricingTable
<1>3. CASE model = <<"o3">>
  <2>1. ~IsPrefix(long.prefix, model)
    BY <1>3 DEF IsPrefix
  <2>2. p = short
    BY <1>1, <1>2, <2>1
  <2> QED
    BY <2>2, <1>3 DEF TruePrice
<1>4. CASE model = <<"o3", "mini", "2025">>
  <2>1. IsPrefix(long.prefix, model)
    <3>1. SubSeq(<<"o3", "mini">>, 1, 2) = SubSeq(<<"o3", "mini", "2025">>, 1, 2)
      OBVIOUS
    <3> QED
      BY <3>1, <1>4 DEF IsPrefix
  <2>2. Len(short.prefix) = 1 /\ Len(long.prefix) = 2 /\ long \in PricingTable
    BY DEF PricingTable
  <2>3. p = long
    <3>1. Len(long.prefix) <= Len(p.prefix)
      BY <1>1, <2>1, <2>2
    <3>2. CASE p = short
      BY <3>1, <3>2, <2>2
    <3> QED
      BY <3>2, <1>2
  <2>4. model # <<"o3">>
    BY <1>4
  <2> QED
    BY <2>3, <2>4 DEF TruePrice
<1>5. CASE model = <<"llama">>
  <2>1. <<"llama">>[1] = "llama" /\ <<"o3">>[1] = "o3" /\ <<"o3", "mini">>[1] = "o3"
    OBVIOUS
  <2>2. ~IsPrefix(short.prefix, model) /\ ~IsPrefix(long.prefix, model)
    BY <1>5, <2>1 DEF IsPrefix
  <2> QED
    BY <1>1, <1>2, <2>2
<1> QED
  BY <1>3, <1>4, <1>5 DEF Models

\* What the completions cost, and what was charged for them.
CostsOk(total, e) ==
  /\ total \in Nat /\ e.cost \in Nat /\ e.count \in Nat
  /\ total * PriceUnit <= e.cost
  /\ e.cost <= (total + 2 * e.count) * PriceUnit

\* One more completion: each of its two parts is truncated once.
LEMMA ChargeKeeps ==
  ASSUME NEW total \in Nat, NEW cost \in Nat, NEW count \in Nat, NEW a \in Nat, NEW b \in Nat,
         total * PriceUnit <= cost, cost <= (total + 2 * count) * PriceUnit
  PROVE  LET more == a \div PriceUnit + b \div PriceUnit
         IN  /\ more \in Nat
             /\ (total + more) * PriceUnit <= cost + a + b
             /\ cost + a + b <= ((total + more) + 2 * (count + 1)) * PriceUnit
<1>1. PICK unit \in Nat \ {0} : unit = PriceUnit
  BY LlmAssumption
<1>2. PICK q \in Nat : q = a \div unit /\ q * unit <= a /\ a <= q * unit + unit
  BY Truncated
<1>3. PICK r \in Nat : r = b \div unit /\ r * unit <= b /\ b <= r * unit + unit
  BY Truncated
<1>4. (total + (q + r)) * unit = total * unit + q * unit + r * unit
  OBVIOUS
<1>5. ((total + (q + r)) + 2 * (count + 1)) * unit
      = (total + 2 * count) * unit + q * unit + r * unit + unit + unit
  OBVIOUS
<1>6. (total + (q + r)) * unit <= cost + a + b
  <2>1. PICK x \in Nat, y \in Nat, z \in Nat : x = total * unit /\ y = q * unit /\ z = r * unit
    OBVIOUS
  <2>2. x <= cost /\ y <= a /\ z <= b
    BY <2>1, <1>1, <1>2, <1>3
  <2>3. (total + (q + r)) * unit = x + y + z
    BY <2>1, <1>4
  <2> QED
    BY <2>2, <2>3
<1>7. cost + a + b <= ((total + (q + r)) + 2 * (count + 1)) * unit
  <2>1. PICK x \in Nat, y \in Nat, z \in Nat :
           x = (total + 2 * count) * unit /\ y = q * unit /\ z = r * unit
    OBVIOUS
  <2>2. cost <= x /\ a <= y + unit /\ b <= z + unit
    BY <2>1, <1>1, <1>2, <1>3
  <2>3. ((total + (q + r)) + 2 * (count + 1)) * unit = x + y + z + unit + unit
    BY <2>1, <1>5
  <2> QED
    BY <2>2, <2>3
<1> QED
  BY <1>1, <1>2, <1>3, <1>6, <1>7

GatewayOk(log, t, us, total, e) ==
  /\ log \in Seq(LogEntry) /\ t \in Nat
  /\ DOMAIN us = LlmCallers
  /\ Overshoot(log, t, us) /\ CostsOk(total, e)

\* One caller's turn.
LEMMA TurnMoves ==
  ASSUME DOMAIN user = LlmCallers, NEW u \in LlmCallers, NEW pc, NEW attempt, NEW at,
         Turn(u, pc, attempt, at)
  PROVE  /\ DOMAIN user' = LlmCallers
         /\ pc # "sent" => Sent(user') = Sent(user) \ {u}
<1>1. user' = [user EXCEPT ![u] = Caller(pc, attempt, at)]
  BY DEF Turn
<1>2. DOMAIN user' = LlmCallers /\ user'[u].pc = pc
      /\ \A v \in LlmCallers : v # u => user'[v] = user[v]
  BY <1>1 DEF Caller
<1> QED
  BY <1>2 DEF Sent

\* The steps of the gateway.
LEMMA GatewaySteps ==
  ASSUME GatewayOk(recent, llmNow, user, spent.total, exact), GatewayNext
  PROVE  GatewayOk(recent', llmNow', user', spent'.total, exact')
<1>0. /\ recent \in Seq(LogEntry) /\ llmNow \in Nat /\ DOMAIN user = LlmCallers
      /\ Overshoot(recent, llmNow, user) /\ CostsOk(spent.total, exact)
  BY DEF GatewayOk
<1>1. ASSUME NEW u \in LlmCallers, CheckLimit(u, 1)
      PROVE  GatewayOk(recent', llmNow', user', spent'.total, exact')
  <2>1. PICK kept \in Seq(LogEntry) : kept = Kept(recent, llmNow)
    BY <1>0, PruningKeeps
  <2>2. Pruned = kept
    BY <2>1 DEF Pruned, InWindow, Kept, Fresh
  <2>3. recent' = kept /\ llmNow' = llmNow /\ spent' = spent /\ exact' = exact
    BY <1>1, <2>2 DEF CheckLimit
  <2>4. CASE LimitVerdict(1).allowed
    <3>1. Turn(u, "sent", user[u].attempt, user[u].at)
      BY <1>1, <2>4 DEF CheckLimit
    <3>2. MaxRequests > 0 => Len(kept) < MaxRequests
      <4>1. ~(MaxRequests > 0 /\ Len(kept) >= MaxRequests)
        BY <2>2, <2>4 DEF LimitVerdict
      <4>2. MaxRequests \in Nat /\ Len(kept) \in Nat
        BY LlmAssumption
      <4> QED
        BY <4>1, <4>2
    <3>3. Overshoot(kept, llmNow, user')
      BY <3>2, <2>1, <1>0, OvershootSteps
    <3> QED
      BY <3>1, <3>3, <2>3, <1>0, TurnMoves DEF GatewayOk
  <2>5. CASE ~LimitVerdict(1).allowed
    <3>1. PICK at : Turn(u, "limited", user[u].attempt, at)
      BY <1>1, <2>5 DEF CheckLimit
    <3>2. Sent(user') = Sent(user) \ {u} /\ DOMAIN user' = LlmCallers
      BY <3>1, <1>0, TurnMoves
    <3>3. Overshoot(kept, llmNow, user')
      BY <3>2, <2>1, <1>0, OvershootSteps
    <3> QED
      BY <3>2, <3>3, <2>3, <1>0 DEF GatewayOk
  <2> QED
    BY <2>4, <2>5
<1>2. ASSUME NEW u \in LlmCallers, NEW model \in Models, NEW usage \in Usages,
             NEW ws \in CostCentres \cup {"none"}, Succeed(u, model, usage, ws)
      PROVE  GatewayOk(recent', llmNow', user', spent'.total, exact')
  <2>1. usage.in \in Nat /\ usage.out \in Nat
    BY DEF Usages
  <2>2. PICK tokens \in Nat : tokens = usage.in + usage.out
    BY <2>1
  <2>3. /\ Turn(u, "idle", 0, user[u].at) /\ u \in Sent(user) /\ llmNow' = llmNow
        /\ recent' = Append(recent, [at |-> llmNow, tokens |-> tokens])
    BY <1>2, <2>2 DEF Succeed, Sent
  <2>4. Sent(user') = Sent(user) \ {u} /\ DOMAIN user' = LlmCallers
    BY <2>3, <1>0, TurnMoves
  <2>5. Overshoot(recent', llmNow, user')
    BY <2>3, <2>4, <1>0, OvershootSteps
  <2>6. recent' \in Seq(LogEntry)
    <3>1. [at |-> llmNow, tokens |-> tokens] \in LogEntry
      BY <1>0 DEF LogEntry
    <3> QED
      BY <3>1, <2>3, <1>0, AppendProperties
  <2>7. PICK total \in Nat, cost \in Nat, count \in Nat :
           /\ total = spent.total /\ cost = exact.cost /\ count = exact.count
           /\ total * PriceUnit <= cost /\ cost <= (total + 2 * count) * PriceUnit
    BY <1>0 DEF CostsOk
  <2>8. CASE LookupPricing(model) = {} /\ exact' = [exact EXCEPT !.count = @ + 1] /\ UNCHANGED spent
    <3>1. PICK unit \in Nat : unit = PriceUnit
      BY LlmAssumption
    <3>2. (total + 2 * count) * unit <= (total + 2 * (count + 1)) * unit
      <4>1. (total + 2 * (count + 1)) * unit = (total + 2 * count) * unit + unit + unit
        OBVIOUS
      <4> QED
        BY <4>1
    <3>3. PICK x \in Nat, y \in Nat : x = (total + 2 * count) * unit /\ y = (total + 2 * (count + 1)) * unit
      OBVIOUS
    <3>4. cost <= (total + 2 * (count + 1)) * PriceUnit
      BY <3>1, <3>2, <3>3, <2>7
    <3>5. exact'.cost = cost /\ exact'.count = count + 1 /\ spent'.total = total
      BY <2>7, <2>8
    <3>6. CostsOk(spent'.total, exact')
      BY <3>4, <3>5, <2>7 DEF CostsOk
    <3> QED
      BY <3>6, <2>3, <2>4, <2>5, <2>6, <1>0 DEF GatewayOk
  <2>9. ASSUME NEW p \in LookupPricing(model), Charge(ws, CalculateCost(usage, p)),
               exact' = [cost |-> exact.cost + usage.in * TruePrice(model).in
                                             + usage.out * TruePrice(model).out,
                         count |-> exact.count + 1]
        PROVE  GatewayOk(recent', llmNow', user', spent'.total, exact')
    <3>1. p.in \in Nat /\ p.out \in Nat
          /\ p.in = TruePrice(model).in /\ p.out = TruePrice(model).out
      BY PriceFound
    <3>2. PICK a \in Nat, b \in Nat : a = usage.in * p.in /\ b = usage.out * p.out
      BY <2>1, <3>1
    <3>3. PICK more : more = a \div PriceUnit + b \div PriceUnit
      OBVIOUS
    <3>4. /\ more \in Nat
          /\ (total + more) * PriceUnit <= cost + a + b
          /\ cost + a + b <= ((total + more) + 2 * (count + 1)) * PriceUnit
      BY <3>3, <2>7, ChargeKeeps
    <3>5. spent'.total = total + more
      BY <2>7, <2>9, <3>2, <3>3 DEF Charge, CalculateCost
    <3>6. exact'.cost = cost + a + b /\ exact'.count = count + 1
      BY <2>7, <2>9, <3>1, <3>2
    <3>7. CostsOk(spent'.total, exact')
      BY <3>4, <3>5, <3>6 DEF CostsOk
    <3> QED
      BY <3>7, <2>3, <2>4, <2>5, <2>6, <1>0 DEF GatewayOk
  <2> QED
    BY <1>2, <2>8, <2>9 DEF Succeed
<1>3. ASSUME NEW u \in LlmCallers, NEW cause \in Causes, NEW after \in {0, 2}, Fail(u, cause, after)
      PROVE  GatewayOk(recent', llmNow', user', spent'.total, exact')
  <2>1. recent' = recent /\ llmNow' = llmNow /\ spent' = spent /\ exact' = exact
    BY <1>3 DEF Fail
  <2>2. \E pc \in {"backoff", "failed"} : \E attempt, at : Turn(u, pc, attempt, at)
    BY <1>3 DEF Fail
  <2>3. Sent(user') = Sent(user) \ {u} /\ DOMAIN user' = LlmCallers
    BY <2>2, <1>0, TurnMoves
  <2>4. Overshoot(recent, llmNow, user')
    BY <2>3, <1>0, OvershootSteps
  <2> QED
    BY <2>1, <2>3, <2>4, <1>0 DEF GatewayOk
<1>4. ASSUME LlmTick
      PROVE  GatewayOk(recent', llmNow', user', spent'.total, exact')
  <2>1. llmNow' = llmNow + 1 /\ recent' = recent /\ user' = user /\ spent' = spent /\ exact' = exact
    BY <1>4 DEF LlmTick
  <2>2. Overshoot(recent, llmNow + 1, user)
    BY <1>0, OvershootSteps
  <2> QED
    BY <2>1, <2>2, <1>0 DEF GatewayOk
<1> QED
  BY <1>1, <1>2, <1>3, <1>4 DEF GatewayNext

(* --------------------- the gateway: sequences by parts ------------------ *)
\* A set of numbers with zero and with every successor has them all.
LEMMA SetInduction ==
  ASSUME NEW T, 0 \in T, \A n \in Nat : n \in T => n + 1 \in T
  PROVE  \A n \in Nat : n \in T
<1> SUFFICES ASSUME NEW k \in Nat, k \notin T PROVE FALSE
  OBVIOUS
<1>1. PICK U : U = {n \in Nat : n \notin T}
  OBVIOUS
<1>2. U \in SUBSET Nat /\ U # {}
  BY <1>1
<1>3. PICK m \in U : \A n \in U : m <= n
  BY <1>2, LeastNumber
<1>4. m \in Nat /\ m # 0 /\ m - 1 \in Nat /\ (m - 1) + 1 = m
  BY <1>1, <1>3
<1>5. m - 1 \in T
  BY <1>1, <1>3, <1>4
<1> QED
  BY <1>1, <1>3, <1>4, <1>5

\* FlattenSeq's loop, over the first n sequences.
Flattening(f, s, n) ==
  f = [i \in 1..n |-> IF i = 1 THEN s[i] ELSE f[i - 1] \o s[i]]

\* Two sequences with the same first n elements.
Alike(s, t, n) == \A i \in 1..n : s[i] = t[i]

\* There is such a loop.
LEMMA FlatteningRuns ==
  ASSUME NEW s, NEW n \in Nat
  PROVE  \E f : Flattening(f, s, n)
<1>1. PICK T : T = {k \in Nat : \E f : Flattening(f, s, k)}
  OBVIOUS
<1>2. 0 \in T
  <2>1. PICK f : f = [i \in 1..0 |-> s[i]]
    OBVIOUS
  <2>2. Flattening(f, s, 0)
    BY <2>1 DEF Flattening
  <2> QED
    BY <2>2, <1>1
<1>3. ASSUME NEW k \in Nat, k \in T PROVE k + 1 \in T
  <2>1. PICK f : f = [i \in 1..k |-> IF i = 1 THEN s[i] ELSE f[i - 1] \o s[i]]
    BY <1>1, <1>3 DEF Flattening
  <2>2. PICK newest : newest = IF k = 0 THEN s[1] ELSE f[k] \o s[k + 1]
    OBVIOUS
  <2>3. PICK g : g = [i \in 1..(k + 1) |-> IF i <= k THEN f[i] ELSE newest]
    OBVIOUS
  <2>4. \A i \in 1..(k + 1) : g[i] = IF i = 1 THEN s[i] ELSE g[i - 1] \o s[i]
    <3> TAKE i \in 1..(k + 1)
    <3>1. CASE i = 1 /\ i <= k
      BY <3>1, <2>1, <2>3
    <3>2. CASE i > 1 /\ i <= k
      <4>1. i \in 1..k /\ i - 1 \in 1..k /\ i - 1 \in 1..(k + 1) /\ i - 1 <= k
        BY <3>2
      <4>2. g[i] = f[i] /\ g[i - 1] = f[i - 1]
        BY <4>1, <2>3, <3>2
      <4> QED
        BY <4>1, <4>2, <3>2, <2>1
    <3>3. CASE i = k + 1 /\ i > 1
      <4>1. k \in 1..(k + 1) /\ i - 1 = k /\ ~(i <= k) /\ i # 1 /\ k # 0
        BY <3>3
      <4>2. g[i] = newest /\ g[k] = f[k]
        BY <4>1, <2>3
      <4> QED
        BY <4>1, <4>2, <3>3, <2>2
    <3>4. CASE i = 1 /\ k = 0
      BY <3>4, <2>2, <2>3
    <3> QED
      BY <3>1, <3>2, <3>3, <3>4
  <2>5. Flattening(g, s, k + 1)
    BY <2>3, <2>4 DEF Flattening
  <2> QED
    BY <2>5, <1>1
<1>4. \A k \in Nat : k \in T
  BY <1>2, <1>3, SetInduction
<1> QED
  BY <1>1, <1>4

\* It computes the same for sequences that begin alike.
LEMMA FlatteningAgrees ==
  ASSUME NEW s, NEW t, NEW n \in Nat, NEW m \in Nat, n <= m, NEW f, Flattening(f, s, n),
         NEW g, Flattening(g, t, m), Alike(s, t, n)
  PROVE  \A i \in 1..n : f[i] = g[i]
<1>1. PICK T : T = {i \in Nat : i \in 1..n => f[i] = g[i]}
  OBVIOUS
<1>2. 0 \in T
  BY <1>1
<1>3. ASSUME NEW i \in Nat, i \in T PROVE i + 1 \in T
  <2> SUFFICES ASSUME i + 1 \in 1..n PROVE f[i + 1] = g[i + 1]
    BY <1>1
  <2>1. /\ f = [k \in 1..n |-> IF k = 1 THEN s[k] ELSE f[k - 1] \o s[k]]
        /\ g = [k \in 1..m |-> IF k = 1 THEN t[k] ELSE g[k - 1] \o t[k]]
    BY DEF Flattening
  <2>2. i + 1 \in 1..m /\ s[i + 1] = t[i + 1] /\ (i + 1) - 1 = i
    BY DEF Alike
  <2>3. CASE i = 0
    BY <2>1, <2>2, <2>3
  <2>4. CASE i # 0
    <3>1. f[i] = g[i] /\ i + 1 # 1
      BY <1>1, <1>3, <2>4
    <3>2. f[i + 1] = f[i] \o s[i + 1]
      BY <2>1, <2>2, <3>1
    <3>3. g[i + 1] = g[i] \o t[i + 1]
      BY <2>1, <2>2, <3>1
    <3> QED
      BY <3>1, <3>2, <3>3, <2>2
  <2> QED
    BY <2>3, <2>4
<1>4. \A i \in Nat : i \in T
  BY <1>2, <1>3, SetInduction
<1> QED
  BY <1>1, <1>4

\* What FlattenSeq takes from the loop.
LEMMA FlatIs ==
  ASSUME NEW s, Len(s) \in Nat
  PROVE  /\ Len(s) = 0 => Flat(s) = s
         /\ Len(s) # 0 => \E f : Flattening(f, s, Len(s)) /\ Flat(s) = f[Len(s)]
<1>1. ASSUME Len(s) = 0 PROVE Flat(s) = s
  BY <1>1 DEF Flat, FlattenSeq
<1>2. ASSUME Len(s) # 0 PROVE \E f : Flattening(f, s, Len(s)) /\ Flat(s) = f[Len(s)]
  <2>1. PICK f : f = CHOOSE g : g = [i \in 1..Len(s) |-> IF i = 1 THEN s[i] ELSE g[i - 1] \o s[i]]
    OBVIOUS
  <2>2. \E g : g = [i \in 1..Len(s) |-> IF i = 1 THEN s[i] ELSE g[i - 1] \o s[i]]
    BY FlatteningRuns DEF Flattening
  <2>3. f = [i \in 1..Len(s) |-> IF i = 1 THEN s[i] ELSE f[i - 1] \o s[i]]
    BY <2>1, <2>2
  <2>4. Flat(s) = f[Len(s)]
    BY <1>2, <2>1 DEF Flat, FlattenSeq
  <2> QED
    BY <2>3, <2>4 DEF Flattening
<1> QED
  BY <1>1, <1>2

\* The loop over one more sequence, by its outcomes.
Flattened(s, n, a) == \E f : Flattening(f, s, n) /\ a = f[n]

\* One more turn of the loop appends one more sequence.
LEMMA FlatMore ==
  ASSUME NEW s, NEW t, NEW n \in Nat, n # 0, Alike(s, t, n),
         NEW a, NEW b, Flattened(s, n, a), Flattened(t, n + 1, b)
  PROVE  b = a \o t[n + 1]
<1>1. PICK f : Flattening(f, s, n) /\ a = f[n]
  BY DEF Flattened
<1>2. PICK g : Flattening(g, t, n + 1) /\ b = g[n + 1]
  BY DEF Flattened
<1>3. PICK m \in Nat : m = n + 1 /\ n <= m
  OBVIOUS
<1>4. Flattening(g, t, m)
  BY <1>2, <1>3
<1>5. \A i \in 1..n : f[i] = g[i]
  BY <1>1, <1>3, <1>4, FlatteningAgrees
<1>6. n + 1 \in 1..(n + 1) /\ (n + 1) - 1 = n /\ n + 1 # 1 /\ n \in 1..n
  OBVIOUS
<1>7. g[n + 1] = g[n] \o t[n + 1]
  BY <1>2, <1>6 DEF Flattening
<1> QED
  BY <1>1, <1>2, <1>5, <1>6, <1>7

\* One more sequence.
LEMMA FlatAppend ==
  ASSUME NEW S, NEW s \in Seq(Seq(S)), NEW x \in Seq(S)
  PROVE  Flat(Append(s, x)) = Flat(s) \o x
<1>1. PICK n \in Nat : n = Len(s)
  BY LenProperties
<1>2. PICK t : t = Append(s, x)
  OBVIOUS
<1>3. Len(t) = n + 1 /\ t[n + 1] = x /\ Alike(s, t, n)
  BY <1>1, <1>2, AppendProperties DEF Alike
<1>4. CASE n = 0
  <2>1. s = << >> /\ Flat(s) = << >>
    BY <1>1, <1>4, EmptySeq, FlatIs
  <2>2. PICK g : Flattening(g, t, 1) /\ Flat(t) = g[1]
    <3>1. Len(t) = 1 /\ 1 \in Nat /\ 1 # 0
      BY <1>3, <1>4
    <3> HIDE <1>3
    <3> QED
      BY <3>1, FlatIs, Zenon
  <2>3. g[1] = x
    BY <2>2, <1>3, <1>4 DEF Flattening
  <2>4. << >> \o x = x
    BY ConcatEmptySeq
  <2> QED
    BY <2>1, <2>2, <2>3, <2>4, <1>2
<1>5. CASE n # 0
  <2>1. Flattened(s, n, Flat(s))
    BY <1>1, <1>5, FlatIs DEF Flattened
  <2>2. Flattened(t, n + 1, Flat(t))
    BY <1>3, FlatIs DEF Flattened
  <2>3. Flat(t) = Flat(s) \o t[n + 1]
    BY <2>1, <2>2, <1>3, <1>5, FlatMore, Zenon
  <2> QED
    BY <2>3, <1>2, <1>3
<1> QED
  BY <1>4, <1>5

\* Sequences by their algebra alone: nothing, one element, and one sequence
\* after another.
Nil == << >>
One(x) == <<x>>
Cat(s, t) == s \o t
IsIn(s, X) == s \in Seq(X)

\* Their laws.
LEMMA CatLaws ==
  ASSUME NEW X, NEW a, NEW b, NEW c, IsIn(a, X), IsIn(b, X), IsIn(c, X)
  PROVE  /\ IsIn(Nil, X) /\ IsIn(Cat(a, b), X)
         /\ Cat(a, Nil) = a /\ Cat(Nil, a) = a
         /\ Cat(Cat(a, b), c) = Cat(a, Cat(b, c))
BY ConcatProperties, ConcatEmptySeq, ConcatAssociative DEF Nil, Cat, IsIn

\* Two make one.
LEMMA CatIn ==
  ASSUME NEW X, NEW a, NEW b, IsIn(a, X), IsIn(b, X)
  PROVE  IsIn(Cat(a, b), X)
BY ConcatProperties DEF Cat, IsIn

\* A single element.
LEMMA OneIn ==
  ASSUME NEW X, NEW x \in X
  PROVE  IsIn(One(x), X) /\ IsIn(Nil, X)
BY DEF One, Nil, IsIn

\* A set of sequences with the empty one, and with every one element longer,
\* has them all.
LEMMA SeqInduct ==
  ASSUME NEW X, NEW T, Nil \in T,
         \A s, x : IsIn(s, X) /\ s \in T /\ x \in X => Cat(s, One(x)) \in T
  PROVE  \A s : IsIn(s, X) => s \in T
<1>1. PICK N : N = {n \in Nat : \A s \in Seq(X) : Len(s) = n => s \in T}
  OBVIOUS
<1>2. 0 \in N
  <2> SUFFICES ASSUME NEW s \in Seq(X), Len(s) = 0 PROVE s \in T
    BY <1>1
  <2>1. s = << >>
    BY EmptySeq
  <2> QED
    BY <2>1 DEF Nil
<1>3. ASSUME NEW n \in Nat, n \in N PROVE n + 1 \in N
  <2> SUFFICES ASSUME NEW s \in Seq(X), Len(s) = n + 1 PROVE s \in T
    BY <1>1
  <2>1. s # << >>
    OBVIOUS
  <2>2. PICK u \in Seq(X), x \in X : s = Append(u, x)
    BY <2>1, SequenceEmptyOrAppend
  <2>3. Len(u) = n
    <3>1. Len(u) \in Nat /\ Len(s) = Len(u) + 1
      BY <2>2, AppendProperties
    <3> QED
      BY <3>1
  <2>4. u \in T
    BY <2>3, <1>1, <1>3
  <2>5. Append(u, x) = u \o <<x>>
    BY AppendIsConcat
  <2>6. s = Cat(u, One(x)) /\ IsIn(u, X)
    BY <2>2, <2>5 DEF Cat, One, IsIn
  <2> QED
    BY <2>4, <2>6
<1>4. \A n \in Nat : n \in N
  BY <1>2, <1>3, SetInduction
<1> QED
  <2> SUFFICES ASSUME NEW s, IsIn(s, X) PROVE s \in T
    OBVIOUS
  <2>1. s \in Seq(X) /\ Len(s) \in Nat
    BY LenProperties DEF IsIn
  <2> QED
    BY <2>1, <1>1, <1>4

\* Flat, in these terms.
LEMMA FlatAdd ==
  ASSUME NEW S, NEW s, NEW x, IsIn(s, Seq(S)), IsIn(x, S)
  PROVE  Flat(Cat(s, One(x))) = Cat(Flat(s), x) /\ Flat(Nil) = Nil
<1>1. Append(s, x) = s \o <<x>>
  BY AppendIsConcat DEF IsIn
<1>2. Flat(Append(s, x)) = Flat(s) \o x
  BY FlatAppend DEF IsIn
<1>3. Flat(<< >>) = << >>
  BY FlatIs
<1> QED
  BY <1>1, <1>2, <1>3 DEF Cat, One, Nil

\* What is flattened is a sequence of the elements.
LEMMA FlatType ==
  ASSUME NEW S, NEW s, IsIn(s, Seq(S))
  PROVE  IsIn(Flat(s), S)
<1>1. PICK T : T = {t \in Seq(Seq(S)) : Flat(t) \in Seq(S)}
  OBVIOUS
<1>2. \A t : t \in T <=> IsIn(t, Seq(S)) /\ IsIn(Flat(t), S)
  BY <1>1 DEF IsIn
<1>3. \A x : IsIn(x, S) <=> x \in Seq(S)
  BY DEF IsIn
<1>4. Nil \in T
  <2>1. Flat(Nil) = Nil
    BY FlatIs DEF Nil
  <2>2. IsIn(Nil, S) /\ IsIn(Nil, Seq(S))
    BY DEF Nil, IsIn
  <2> QED
    BY <2>1, <2>2, <1>2
<1>5. ASSUME NEW t, NEW x, IsIn(t, Seq(S)), t \in T, x \in Seq(S) PROVE Cat(t, One(x)) \in T
  <2>1. Flat(Cat(t, One(x))) = Cat(Flat(t), x)
    BY <1>3, <1>5, FlatAdd
  <2>2. IsIn(Cat(Flat(t), x), S)
    BY <1>2, <1>3, <1>5, CatLaws
  <2>3. IsIn(Cat(t, One(x)), Seq(S))
    BY <1>5, OneIn, CatLaws
  <2> QED
    BY <2>1, <2>2, <2>3, <1>2
<1>6. \A t : IsIn(t, Seq(S)) => t \in T
  BY <1>4, <1>5, SeqInduct
<1> QED
  BY <1>2, <1>6

\* Every element is replaced by a sequence.
Each(G, s) == [k \in DOMAIN s |-> G[s[k]]]
FlatMap(G, s) == Flat(Each(G, s))

Gives(G, X, S) == \A x \in X : IsIn(G[x], S)

\* The list of the replacements.
Into(G, X, Y) == G \in [X -> Y]

\* One more element, one more replacement.
LEMMA EachAdd ==
  ASSUME NEW X, NEW Y, NEW G, Into(G, X, Y), NEW s, IsIn(s, X), NEW x \in X
  PROVE  IsIn(Each(G, s), Y) /\ Each(G, Cat(s, One(x))) = Cat(Each(G, s), One(G[x]))
<1>0. G \in [X -> Y] /\ s \in Seq(X)
  BY DEF Into, IsIn
<1>1. PICK n \in Nat : n = Len(s) /\ DOMAIN s = 1..n
  BY <1>0, LenProperties
<1>2. PICK t : t = Append(s, x)
  OBVIOUS
<1>3. Len(t) = n + 1 /\ t \in Seq(X) /\ t[n + 1] = x /\ \A k \in 1..n : t[k] = s[k]
  BY <1>0, <1>1, <1>2, AppendProperties
<1>4. DOMAIN t = 1..(n + 1)
  BY <1>3, LenProperties
<1>5. PICK u : u = [k \in DOMAIN s |-> G[s[k]]]
  OBVIOUS
<1>6. u \in Seq(Y) /\ Len(u) = n /\ \A k \in 1..n : u[k] = G[s[k]]
  <2>1. \A k \in 1..n : s[k] \in X
    BY <1>0, <1>1, ElementOfSeq
  <2>2. u = [k \in 1..n |-> G[s[k]]] /\ \A k \in 1..n : G[s[k]] \in Y
    BY <1>0, <1>1, <1>5, <2>1
  <2> HIDE <1>1
  <2> QED
    BY <2>2
<1>7. PICK v : v = [k \in DOMAIN t |-> G[t[k]]]
  OBVIOUS
<1>8. v \in Seq(Y) /\ Len(v) = n + 1 /\ \A k \in 1..(n + 1) : v[k] = G[t[k]]
  <2>1. \A k \in 1..(n + 1) : t[k] \in X
    BY <1>3, ElementOfSeq
  <2>2. v = [k \in 1..(n + 1) |-> G[t[k]]] /\ \A k \in 1..(n + 1) : G[t[k]] \in Y
    BY <1>0, <1>4, <1>7, <2>1
  <2> QED
    BY <2>2
<1>9. PICK w : w = Append(u, G[x])
  OBVIOUS
<1>10. w \in Seq(Y) /\ Len(w) = n + 1 /\ w[n + 1] = G[x] /\ \A k \in 1..n : w[k] = u[k]
  <2>1. G[x] \in Y
    BY <1>0
  <2> QED
    BY <1>6, <1>9, <2>1, AppendProperties
<1>11. \A k \in 1..(n + 1) : v[k] = w[k]
  <2> TAKE k \in 1..(n + 1)
  <2>1. CASE k = n + 1
    BY <2>1, <1>3, <1>8, <1>10
  <2>2. CASE k \in 1..n
    BY <2>2, <1>3, <1>6, <1>8, <1>10
  <2> QED
    BY <2>1, <2>2
<1>12. v = w
  BY <1>8, <1>10, <1>11, SeqEqual
<1> QED
  <2>1. Append(s, x) = s \o <<x>>
    BY <1>0, AppendIsConcat
  <2>2. G[x] \in Y
    BY <1>0
  <2>3. Append(u, G[x]) = u \o <<G[x]>>
    BY <1>6, <2>2, AppendIsConcat
  <2>4. t = Cat(s, One(x)) /\ w = Cat(u, One(G[x])) /\ IsIn(u, Y)
    BY <2>1, <2>3, <1>2, <1>6, <1>9 DEF Cat, One, IsIn
  <2>5. Each(G, s) = u /\ Each(G, t) = v
    BY <1>5, <1>7 DEF Each
  <2> QED
    BY <2>4, <2>5, <1>12

\* One more element, or none.
LEMMA FlatMapAdd ==
  ASSUME NEW X, NEW S, NEW G, Gives(G, X, S), NEW s, NEW x \in X, IsIn(s, X)
  PROVE  FlatMap(G, Cat(s, One(x))) = Cat(FlatMap(G, s), G[x])
<1>1. PICK F : F = [y \in X |-> G[y]]
  OBVIOUS
<1>2. F \in [X -> Seq(S)]
  BY <1>1 DEF Gives, IsIn
<1>3. PICK Y : Y = Seq(S) /\ Into(F, X, Y)
  BY <1>2 DEF Into
<1>4. IsIn(Each(F, s), Y) /\ Each(F, Cat(s, One(x))) = Cat(Each(F, s), One(F[x]))
  BY <1>3, EachAdd
<1>5. \A t : IsIn(t, X) => Each(F, t) = Each(G, t)
  <2> SUFFICES ASSUME NEW t, IsIn(t, X) PROVE Each(F, t) = Each(G, t)
    OBVIOUS
  <2>1. \A k \in DOMAIN t : t[k] \in X
    BY DEF IsIn
  <2> QED
    BY <2>1, <1>1 DEF Each
<1>6. IsIn(Cat(s, One(x)), X) /\ F[x] = G[x] /\ IsIn(G[x], S)
  BY <1>1, OneIn, CatIn DEF Gives
<1>7. Flat(Cat(Each(F, s), One(G[x]))) = Cat(Flat(Each(F, s)), G[x])
  BY <1>3, <1>4, <1>6, FlatAdd
<1> QED
  BY <1>4, <1>5, <1>6, <1>7 DEF FlatMap

\* Nothing is replaced by nothing.
LEMMA FlatMapNil == \A G : FlatMap(G, Nil) = Nil
<1> SUFFICES ASSUME NEW G PROVE FlatMap(G, << >>) = << >>
  BY DEF Nil
<1>1. PICK e : e = [k \in DOMAIN << >> |-> G[<< >>[k]]]
  OBVIOUS
<1>2. e = << >>
  BY <1>1
<1>3. Flat(<< >>) = << >>
  BY FlatIs
<1> QED
  BY <1>1, <1>2, <1>3 DEF FlatMap, Each

\* The replacements make a sequence.
LEMMA FlatMapType ==
  ASSUME NEW X, NEW S, NEW G, Gives(G, X, S), NEW s, IsIn(s, X)
  PROVE  IsIn(FlatMap(G, s), S)
<1>1. PICK T : T = {t \in Seq(X) : FlatMap(G, t) \in Seq(S)}
  OBVIOUS
<1>2. \A t : t \in T <=> IsIn(t, X) /\ IsIn(FlatMap(G, t), S)
  BY <1>1 DEF IsIn
<1>3. Nil \in T
  <2>1. IsIn(Nil, X) /\ IsIn(Nil, S)
    BY DEF Nil, IsIn
  <2> QED
    BY <2>1, <1>2, FlatMapNil
<1>4. ASSUME NEW t, NEW x, IsIn(t, X), t \in T, x \in X PROVE Cat(t, One(x)) \in T
  <2>1. FlatMap(G, Cat(t, One(x))) = Cat(FlatMap(G, t), G[x]) /\ IsIn(G[x], S)
    BY <1>4, FlatMapAdd DEF Gives
  <2>2. IsIn(Cat(FlatMap(G, t), G[x]), S)
    BY <2>1, <1>2, <1>4, CatLaws
  <2>3. IsIn(Cat(t, One(x)), X)
    BY <1>4, OneIn, CatLaws
  <2> QED
    BY <2>1, <2>2, <2>3, <1>2
<1>5. \A t : IsIn(t, X) => t \in T
  BY <1>3, <1>4, SeqInduct
<1> QED
  BY <1>2, <1>5

\* Two stretches.
LEMMA FlatMapCat ==
  ASSUME NEW X, NEW S, NEW G, Gives(G, X, S), NEW s, NEW t, IsIn(s, X), IsIn(t, X)
  PROVE  FlatMap(G, Cat(s, t)) = Cat(FlatMap(G, s), FlatMap(G, t))
<1>1. PICK T : T = {u \in Seq(X) : FlatMap(G, Cat(s, u)) = Cat(FlatMap(G, s), FlatMap(G, u))}
  OBVIOUS
<1>2. \A u : u \in T <=> IsIn(u, X) /\ FlatMap(G, Cat(s, u)) = Cat(FlatMap(G, s), FlatMap(G, u))
  BY <1>1 DEF IsIn
<1>3. IsIn(FlatMap(G, s), S)
  BY FlatMapType
<1>4. Nil \in T
  <2>1. IsIn(Nil, X) /\ Cat(s, Nil) = s /\ Cat(FlatMap(G, s), Nil) = FlatMap(G, s)
    BY <1>3, CatLaws
  <2> QED
    BY <2>1, <1>2, FlatMapNil
<1>5. ASSUME NEW u, NEW x, IsIn(u, X), u \in T, x \in X PROVE Cat(u, One(x)) \in T
  <2>1. IsIn(Cat(s, u), X) /\ IsIn(One(x), X)
    BY <1>5, OneIn, CatLaws
  <2>2. IsIn(Cat(u, One(x)), X) /\ Cat(s, Cat(u, One(x))) = Cat(Cat(s, u), One(x))
    BY <1>5, <2>1, CatLaws, CatIn
  <2>3. FlatMap(G, Cat(Cat(s, u), One(x))) = Cat(FlatMap(G, Cat(s, u)), G[x])
    BY <2>1, <1>5, FlatMapAdd
  <2>4. FlatMap(G, Cat(u, One(x))) = Cat(FlatMap(G, u), G[x])
    BY <1>5, FlatMapAdd
  <2>5. IsIn(FlatMap(G, u), S) /\ IsIn(G[x], S)
    BY <1>5, FlatMapType DEF Gives
  <2>6. Cat(Cat(FlatMap(G, s), FlatMap(G, u)), G[x]) = Cat(FlatMap(G, s), Cat(FlatMap(G, u), G[x]))
    BY <2>5, <1>3, CatLaws
  <2> QED
    BY <2>2, <2>3, <2>4, <2>6, <1>2, <1>5
<1>6. \A u : IsIn(u, X) => u \in T
  BY <1>4, <1>5, SeqInduct
<1> QED
  BY <1>2, <1>6

\* One element, alone or in front.
LEMMA FlatMapOne ==
  ASSUME NEW X, NEW S, NEW G, Gives(G, X, S), NEW x \in X
  PROVE  FlatMap(G, One(x)) = G[x]
<1>1. IsIn(Nil, X) /\ IsIn(One(x), X) /\ IsIn(G[x], S)
  BY OneIn DEF Gives
<1>2. Cat(Nil, One(x)) = One(x) /\ Cat(Nil, G[x]) = G[x]
  BY <1>1, CatLaws
<1>3. FlatMap(G, Cat(Nil, One(x))) = Cat(FlatMap(G, Nil), G[x])
  BY <1>1, FlatMapAdd
<1> QED
  BY <1>2, <1>3, FlatMapNil

\* Every element by itself, or by nothing.
LEMMA FlatMapSame ==
  ASSUME NEW X, NEW s, IsIn(s, X)
  PROVE  /\ \A G : (\A x \in X : G[x] = One(x)) => FlatMap(G, s) = s
         /\ \A G : (\A x \in X : G[x] = Nil) => FlatMap(G, s) = Nil
<1>1. ASSUME NEW G, \A x \in X : G[x] = One(x) PROVE FlatMap(G, s) = s
  <2>1. PICK T : T = {u \in Seq(X) : FlatMap(G, u) = u}
    OBVIOUS
  <2>2. \A u : u \in T <=> IsIn(u, X) /\ FlatMap(G, u) = u
    BY <2>1 DEF IsIn
  <2>3. Gives(G, X, X)
    BY <1>1, OneIn DEF Gives
  <2>4. Nil \in T
    <3>1. IsIn(Nil, X)
      BY DEF Nil, IsIn
    <3> QED
      BY <3>1, <2>2, FlatMapNil
  <2>5. ASSUME NEW u, NEW x, IsIn(u, X), u \in T, x \in X PROVE Cat(u, One(x)) \in T
    <3>1. FlatMap(G, Cat(u, One(x))) = Cat(FlatMap(G, u), G[x])
      BY <2>3, <2>5, FlatMapAdd
    <3>2. IsIn(Cat(u, One(x)), X)
      BY <2>5, OneIn, CatLaws
    <3> QED
      BY <3>1, <3>2, <2>2, <2>5, <1>1
  <2>6. \A u : IsIn(u, X) => u \in T
    BY <2>4, <2>5, SeqInduct
  <2> QED
    BY <2>2, <2>6
<1>2. ASSUME NEW G, \A x \in X : G[x] = Nil PROVE FlatMap(G, s) = Nil
  <2>1. PICK T : T = {u \in Seq(X) : FlatMap(G, u) = Nil}
    OBVIOUS
  <2>2. \A u : u \in T <=> IsIn(u, X) /\ FlatMap(G, u) = Nil
    BY <2>1 DEF IsIn
  <2>3. Gives(G, X, X) /\ IsIn(Nil, X)
    <3>1. IsIn(Nil, X)
      BY DEF Nil, IsIn
    <3> QED
      BY <1>2, <3>1 DEF Gives
  <2>4. Nil \in T
    BY <2>2, <2>3, FlatMapNil
  <2>5. ASSUME NEW u, NEW x, IsIn(u, X), u \in T, x \in X PROVE Cat(u, One(x)) \in T
    <3>1. FlatMap(G, Cat(u, One(x))) = Cat(FlatMap(G, u), G[x])
      BY <2>3, <2>5, FlatMapAdd
    <3>2. IsIn(Cat(u, One(x)), X) /\ Cat(Nil, Nil) = Nil
      BY <2>3, <2>5, OneIn, CatLaws
    <3> QED
      BY <3>1, <3>2, <2>2, <2>5, <1>2
  <2>6. \A u : IsIn(u, X) => u \in T
    BY <2>4, <2>5, SeqInduct
  <2> QED
    BY <2>2, <2>6
<1> QED
  BY <1>1, <1>2

(* --------------------- the gateway: requests sent ----------------------- *)
\* One replacement after another.
LEMMA FlatMapTwice ==
  ASSUME NEW X, NEW Y, NEW Z, NEW A, NEW B, NEW C, Gives(A, X, Y), Gives(B, Y, Z), Gives(C, X, Z),
         \A x \in X : FlatMap(B, A[x]) = C[x], NEW s, IsIn(s, X)
  PROVE  FlatMap(B, FlatMap(A, s)) = FlatMap(C, s)
<1>1. PICK T : T = {u \in Seq(X) : FlatMap(B, FlatMap(A, u)) = FlatMap(C, u)}
  OBVIOUS
<1>2. \A u : u \in T <=> IsIn(u, X) /\ FlatMap(B, FlatMap(A, u)) = FlatMap(C, u)
  BY <1>1 DEF IsIn
<1>3. Nil \in T
  <2>1. IsIn(Nil, X)
    BY DEF Nil, IsIn
  <2> QED
    BY <2>1, <1>2, FlatMapNil
<1>4. ASSUME NEW u, NEW x, IsIn(u, X), u \in T, x \in X PROVE Cat(u, One(x)) \in T
  <2>1. FlatMap(A, Cat(u, One(x))) = Cat(FlatMap(A, u), A[x])
    BY <1>4, FlatMapAdd
  <2>2. FlatMap(C, Cat(u, One(x))) = Cat(FlatMap(C, u), C[x])
    BY <1>4, FlatMapAdd
  <2>3. IsIn(FlatMap(A, u), Y) /\ IsIn(A[x], Y)
    BY <1>4, FlatMapType DEF Gives
  <2>4. FlatMap(B, Cat(FlatMap(A, u), A[x])) = Cat(FlatMap(B, FlatMap(A, u)), FlatMap(B, A[x]))
    BY <2>3, FlatMapCat
  <2>5. IsIn(Cat(u, One(x)), X)
    BY <1>4, OneIn, CatIn
  <2> QED
    BY <2>1, <2>2, <2>4, <2>5, <1>2, <1>4
<1>5. \A u : IsIn(u, X) => u \in T
  BY <1>3, <1>4, SeqInduct
<1> QED
  BY <1>2, <1>5

\* Two elements written out.
LEMMA PairIs == \A x, y : <<x, y>> = Cat(One(x), One(y))
<1> SUFFICES ASSUME NEW x, NEW y PROVE <<x, y>> = Cat(One(x), One(y))
  OBVIOUS
<1>1. <<x>> \in Seq({x, y}) /\ y \in {x, y}
  OBVIOUS
<1>2. Append(<<x>>, y) = <<x>> \o <<y>>
  BY <1>1, AppendIsConcat
<1>3. PICK u : u = Append(<<x>>, y)
  OBVIOUS
<1>4. u \in Seq({x, y}) /\ Len(u) = 2 /\ u[1] = x /\ u[2] = y
  <2>1. Len(<<x>>) = 1 /\ <<x>>[1] = x
    OBVIOUS
  <2>2. u \in Seq({x, y}) /\ Len(u) = 1 + 1 /\ u[1 + 1] = y /\ \A i \in 1..1 : u[i] = <<x>>[i]
    BY <1>1, <1>3, <2>1, AppendProperties
  <2> QED
    BY <2>1, <2>2
<1>5. PICK v : v = <<x, y>>
  OBVIOUS
<1>6. v \in Seq({x, y}) /\ Len(v) = 2 /\ v[1] = x /\ v[2] = y
  BY <1>5
<1>7. \A i \in 1..2 : u[i] = v[i]
  BY <1>4, <1>6
<1>8. u = v
  BY <1>4, <1>6, <1>7, SeqEqual
<1> QED
  BY <1>2, <1>3, <1>5, <1>8 DEF Cat, One

\* The blocks of messages, and the messages of requests.
Blocks == [kind : {"text", "use", "result"}, id : {"t", "c1", "c2"}]
Roles == {"system", "user", "assistant", "tool"}
AnyMessage == [role : Roles, blocks : Seq(Blocks)]
Picked(K) == [b \in Blocks |-> IF b.kind \in K THEN One(b) ELSE Nil]
ToolKinds == {"use", "result"}
ToolsIn == [m \in AnyMessage |-> OfKinds(m.blocks, ToolKinds)]

\* Picking blocks by their kind is a replacement.
LEMMA OfKindsIs ==
  ASSUME NEW s, IsIn(s, Blocks), NEW K
  PROVE  OfKinds(s, K) = FlatMap(Picked(K), s) /\ Gives(Picked(K), Blocks, Blocks)
<1>1. \A k \in DOMAIN s : s[k] \in Blocks
  BY DEF IsIn
<1>2. [k \in DOMAIN s |-> IF s[k].kind \in K THEN <<s[k]>> ELSE <<>>] = Each(Picked(K), s)
  BY <1>1 DEF Each, Picked, One, Nil
<1>3. \A b \in Blocks : Picked(K)[b] = One(b) \/ Picked(K)[b] = Nil
  BY DEF Picked
<1>4. Gives(Picked(K), Blocks, Blocks)
  BY <1>3, OneIn DEF Gives
<1> QED
  BY <1>2, <1>4 DEF OfKinds, FlatMap

\* The blocks picked are blocks.
LEMMA OfKindsType ==
  ASSUME NEW s, IsIn(s, Blocks), NEW K
  PROVE  IsIn(OfKinds(s, K), Blocks)
BY OfKindsIs, FlatMapType

\* One block, and two.
LEMMA OfKindsOne ==
  ASSUME NEW b \in Blocks, NEW K
  PROVE  OfKinds(One(b), K) = IF b.kind \in K THEN One(b) ELSE Nil
<1>1. IsIn(One(b), Blocks)
  BY OneIn
<1>2. OfKinds(One(b), K) = Picked(K)[b]
  BY <1>1, OfKindsIs, FlatMapOne
<1> QED
  BY <1>2 DEF Picked

\* Two blocks are picked one by one.
LEMMA OfKindsTwo ==
  ASSUME NEW b \in Blocks, NEW c \in Blocks, NEW K
  PROVE  OfKinds(Cat(One(b), One(c)), K) = Cat(OfKinds(One(b), K), OfKinds(One(c), K))
<1>1. IsIn(One(b), Blocks) /\ IsIn(One(c), Blocks)
  BY OneIn
<1>2. IsIn(Cat(One(b), One(c)), Blocks)
  BY <1>1, CatIn
<1> QED
  BY <1>1, <1>2, OfKindsIs, FlatMapCat

\* What a message may be.
LEMMA MessageShapes ==
  ASSUME NEW m \in Messages
  PROVE  /\ m = [role |-> m.role, blocks |-> m.blocks] /\ m.role \in Roles
         /\ \/ /\ m.role # "tool"
               /\ \E b \in Blocks : m.blocks = One(b) /\ b.kind = "text"
            \/ /\ m.role = "assistant"
               /\ \E b, c \in Blocks : m.blocks = Cat(One(b), One(c)) /\ b.kind = "text" /\ c.kind = "use"
            \/ /\ m.role = "tool"
               /\ \E b \in Blocks : m.blocks = One(b) /\ b.kind = "result"
<1>1. ASSUME NEW r \in {"system", "user", "assistant"}, m = [role |-> r, blocks |-> <<Block("text", "t")>>]
      PROVE  m.role = r /\ m.blocks = One(Block("text", "t")) /\ Block("text", "t") \in Blocks /\ Block("text", "t").kind = "text"
  BY <1>1 DEF One, Block, Blocks
<1>2. ASSUME NEW d \in {"c1", "c2"}, m = [role |-> "assistant", blocks |-> <<Block("text", "t"), Block("use", d)>>]
      PROVE  /\ m.role = "assistant" /\ m.blocks = Cat(One(Block("text", "t")), One(Block("use", d)))
             /\ Block("text", "t") \in Blocks /\ Block("text", "t").kind = "text"
             /\ Block("use", d) \in Blocks /\ Block("use", d).kind = "use"
  <2> QED
    BY <1>2, PairIs DEF Block, Blocks
<1>3. ASSUME NEW d \in {"c1", "c2"}, m = [role |-> "tool", blocks |-> <<Block("result", d)>>]
      PROVE  m.role = "tool" /\ m.blocks = One(Block("result", d)) /\ Block("result", d) \in Blocks /\ Block("result", d).kind = "result"
  BY <1>3 DEF One, Block, Blocks
<1>4. \/ \E r \in {"system", "user", "assistant"} : m = [role |-> r, blocks |-> <<Block("text", "t")>>]
      \/ \E d \in {"c1", "c2"} : m = [role |-> "assistant", blocks |-> <<Block("text", "t"), Block("use", d)>>]
      \/ \E d \in {"c1", "c2"} : m = [role |-> "tool", blocks |-> <<Block("result", d)>>]
  BY DEF Messages
<1>5. m = [role |-> m.role, blocks |-> m.blocks]
  BY <1>4
<1> QED
  BY <1>1, <1>2, <1>3, <1>4, <1>5 DEF Roles

\* The messages sent hold the tool blocks of those said.
SentAs(p, m) == IF p = "anthropic" THEN AnthropicMessage(m)
              ELSE [role |-> m.role, blocks |-> OpenAiBlocks(m)]

\* A message as a provider is sent it has the tool blocks of the one said, and
\* a system message has none.
LEMMA SentTools ==
  ASSUME NEW m \in Messages, NEW p \in {"anthropic", "openai"}
  PROVE  /\ m \in AnyMessage /\ SentAs(p, m) \in AnyMessage
         /\ ToolsIn[SentAs(p, m)] = ToolsIn[m]
         /\ m.role = "system" => ToolsIn[m] = Nil
<1>1. IsIn(m.blocks, Blocks)
  <2>1. \A b \in Blocks : IsIn(One(b), Blocks)
    BY OneIn
  <2>2. \A b, c \in Blocks : IsIn(Cat(One(b), One(c)), Blocks)
    BY <2>1, CatIn
  <2> QED
    BY <2>1, <2>2, MessageShapes
<1>2. \A s : IsIn(s, Blocks) <=> s \in Seq(Blocks)
  BY DEF IsIn
<1>3. m \in AnyMessage /\ ToolsIn[m] = OfKinds(m.blocks, ToolKinds)
  <2>1. m = [role |-> m.role, blocks |-> m.blocks] /\ m.role \in Roles
    BY MessageShapes
  <2>2. m.blocks \in Seq(Blocks)
    BY <1>1, <1>2
  <2>3. m \in AnyMessage
    BY <2>1, <2>2, Zenon DEF AnyMessage
  <2> QED
    BY <2>3 DEF ToolsIn
<1>4. PICK B : /\ IsIn(B, Blocks) /\ OfKinds(B, ToolKinds) = OfKinds(m.blocks, ToolKinds)
              /\ B = SentAs(p, m).blocks
  <2>1. CASE p = "anthropic"
    BY <2>1, <1>1 DEF SentAs, AnthropicMessage
  <2>2. CASE p = "openai"
    <3>1. SentAs(p, m).blocks = OpenAiBlocks(m)
      BY <2>2 DEF SentAs
    <3>2. ASSUME NEW b \in Blocks, m.blocks = One(b), m.role # "tool", b.kind = "text"
          PROVE  OpenAiBlocks(m) = m.blocks
      BY <3>2, OfKindsOne DEF OpenAiBlocks
    <3>3. ASSUME NEW b \in Blocks, NEW c \in Blocks, m.blocks = Cat(One(b), One(c)), m.role = "assistant",
                 b.kind = "text", c.kind = "use"
          PROVE  OpenAiBlocks(m) = m.blocks
      BY <3>3, OfKindsOne, OfKindsTwo DEF OpenAiBlocks
    <3>4. ASSUME NEW b \in Blocks, m.blocks = One(b), m.role = "tool", b.kind = "result"
          PROVE  OpenAiBlocks(m) = m.blocks
      <4>1. One(b) # <<>> /\ Head(One(b)) = b
        BY DEF One
      <4> QED
        BY <3>4, <4>1 DEF OpenAiBlocks, One
    <3>5. OpenAiBlocks(m) = m.blocks
      BY <3>2, <3>3, <3>4, MessageShapes
    <3> QED
      BY <3>1, <3>5, <1>1
  <2> QED
    BY <2>1, <2>2
<1>5. PICK r \in Roles : SentAs(p, m) = [role |-> r, blocks |-> B]
  BY <1>4, MessageShapes DEF SentAs, AnthropicMessage, Roles
<1>6. SentAs(p, m) \in AnyMessage /\ ToolsIn[SentAs(p, m)] = OfKinds(B, ToolKinds)
  <2>1. PICK n : n = [role |-> r, blocks |-> B]
    OBVIOUS
  <2>2. n \in AnyMessage /\ n.blocks = B
    BY <2>1, <1>2, <1>4, Zenon DEF AnyMessage
  <2> QED
    BY <2>1, <2>2, <1>5 DEF ToolsIn
<1>7. ASSUME m.role = "system" PROVE OfKinds(m.blocks, ToolKinds) = Nil
  BY <1>7, MessageShapes, OfKindsOne DEF ToolKinds
<1> QED
  BY <1>3, <1>4, <1>6, <1>7

\* Whole conversations: every provider is sent their tool blocks.
LEMMA ToolsReachProviders ==
  ASSUME IsIn(conv, Messages)
  PROVE  RequestsKeepTools
<1> DEFINE toolsOf(ms) == Flat([k \in DOMAIN ms |-> OfKinds(ms[k].blocks, ToolKinds)])
<1>1. ASSUME NEW ms, IsIn(ms, AnyMessage) PROVE toolsOf(ms) = FlatMap(ToolsIn, ms)
  <2>1. \A k \in DOMAIN ms : ms[k] \in AnyMessage
    BY <1>1 DEF IsIn
  <2>2. [k \in DOMAIN ms |-> OfKinds(ms[k].blocks, ToolKinds)] = Each(ToolsIn, ms)
    BY <2>1 DEF Each, ToolsIn
  <2> QED
    BY <2>2 DEF FlatMap
<1>2. Gives(ToolsIn, AnyMessage, Blocks)
  <2> SUFFICES ASSUME NEW m \in AnyMessage PROVE IsIn(ToolsIn[m], Blocks)
    BY DEF Gives
  <2>1. ToolsIn[m] = OfKinds(m.blocks, ToolKinds)
    BY DEF ToolsIn
  <2>2. IsIn(m.blocks, Blocks)
    BY DEF AnyMessage, IsIn
  <2> QED
    BY <2>1, <2>2, OfKindsType
<1>3. \A k \in DOMAIN conv : conv[k] \in Messages
  BY DEF IsIn
<1>4. IsIn(conv, AnyMessage)
  <2>1. \A m \in Messages : m \in AnyMessage
    BY SentTools
  <2> QED
    BY <2>1 DEF IsIn
<1>5. Gives(ToolsIn, Messages, Blocks)
  BY <1>2, SentTools DEF Gives
<1>6. toolsOf(AnthropicRequest(conv).messages) = FlatMap(ToolsIn, conv)
  <2>1. PICK A : A = [m \in Messages |-> IF m.role # "system" THEN One(AnthropicMessage(m)) ELSE Nil]
    OBVIOUS
  <2>2. AnthropicRequest(conv).messages = FlatMap(A, conv)
    <3>1. [k \in DOMAIN conv |-> IF conv[k].role # "system" THEN <<AnthropicMessage(conv[k])>> ELSE <<>>]
          = Each(A, conv)
      BY <2>1, <1>3 DEF Each, One, Nil
    <3> QED
      BY <3>1 DEF AnthropicRequest, FlatMap
  <2>3. \A m \in Messages : AnthropicMessage(m) \in AnyMessage /\ ToolsIn[AnthropicMessage(m)] = ToolsIn[m]
    BY SentTools DEF SentAs
  <2>4. Gives(A, Messages, AnyMessage)
    BY <2>1, <2>3, OneIn DEF Gives
  <2>5. ASSUME NEW m \in Messages PROVE FlatMap(ToolsIn, A[m]) = ToolsIn[m]
    <3>1. CASE m.role = "system"
      <4>1. A[m] = Nil /\ ToolsIn[m] = Nil
        BY <2>1, <3>1, SentTools
      <4> QED
        BY <4>1, FlatMapNil
    <3>2. CASE m.role # "system"
      <4>1. A[m] = One(AnthropicMessage(m))
        BY <2>1, <3>2
      <4>2. FlatMap(ToolsIn, One(AnthropicMessage(m))) = ToolsIn[AnthropicMessage(m)]
        BY <2>3, <1>2, FlatMapOne
      <4> QED
        BY <4>1, <4>2, <2>3
    <3> QED
      BY <3>1, <3>2
  <2>6. FlatMap(ToolsIn, FlatMap(A, conv)) = FlatMap(ToolsIn, conv)
    BY <2>4, <2>5, <1>2, <1>5, FlatMapTwice
  <2>7. IsIn(FlatMap(A, conv), AnyMessage)
    BY <2>4, FlatMapType
  <2> QED
    BY <2>2, <2>6, <2>7, <1>1
<1>7. toolsOf(OpenAiRequest(conv).messages) = FlatMap(ToolsIn, conv)
  <2>1. PICK ms : ms = [k \in DOMAIN conv |-> SentAs("openai", conv[k])]
    OBVIOUS
  <2>2. OpenAiRequest(conv).messages = ms
    BY <2>1 DEF OpenAiRequest, SentAs
  <2>3. \A m \in Messages : SentAs("openai", m) \in AnyMessage /\ ToolsIn[SentAs("openai", m)] = ToolsIn[m]
    BY SentTools
  <2>4. IsIn(ms, AnyMessage)
    <3>1. conv \in Seq(Messages)
      BY DEF IsIn
    <3>2. PICK n \in Nat : DOMAIN conv = 1..n
      BY <3>1, LenProperties
    <3>3. ms = [k \in 1..n |-> SentAs("openai", conv[k])] /\ \A k \in 1..n : SentAs("openai", conv[k]) \in AnyMessage
      BY <2>1, <2>3, <3>2, <1>3
    <3>4. ms \in Seq(AnyMessage)
      BY <3>3
    <3> QED
      BY <3>4 DEF IsIn
  <2>5. Each(ToolsIn, ms) = Each(ToolsIn, conv)
    BY <2>1, <2>3, <1>3 DEF Each
  <2> QED
    BY <2>2, <2>4, <2>5, <1>1 DEF FlatMap
<1>8. toolsOf(conv) = FlatMap(ToolsIn, conv)
  BY <1>1, <1>4
<1> QED
  BY <1>6, <1>7, <1>8 DEF RequestsKeepTools, Request, ToolKinds

(* --------------------- the gateway: answers read ------------------------ *)
\* The first element of a sequence and the others.
LEMMA CatHead ==
  ASSUME NEW X, NEW x \in X, NEW s, IsIn(s, X)
  PROVE  Cat(One(x), s) # << >> /\ Head(Cat(One(x), s)) = x /\ Tail(Cat(One(x), s)) = s
<1>1. s \in Seq(X) /\ <<x>> \in Seq(X) /\ Len(<<x>>) = 1 /\ <<x>>[1] = x
  BY DEF IsIn
<1>2. PICK n \in Nat : n = Len(s)
  BY <1>1, LenProperties
<1>3. PICK c : c = <<x>> \o s
  OBVIOUS
<1>4. c \in Seq(X) /\ Len(c) = 1 + n /\ \A i \in 1..(1 + n) : c[i] = IF i <= 1 THEN <<x>>[i] ELSE s[i - 1]
  BY <1>1, <1>2, <1>3, ConcatProperties
<1>5. c # << >> /\ Head(c) = x
  BY <1>1, <1>4
<1>6. PICK t : t = Tail(c)
  OBVIOUS
<1>7. t \in Seq(X) /\ Len(t) = n /\ \A i \in 1..n : t[i] = c[i + 1]
  BY <1>4, <1>5, <1>6, HeadTailProperties
<1>8. \A i \in 1..n : t[i] = s[i]
  BY <1>4, <1>7
<1>9. t = s
  BY <1>1, <1>2, <1>7, <1>8, SeqEqual
<1> QED
  BY <1>3, <1>5, <1>6, <1>9 DEF Cat, One

\* They are what they were made from.
LEMMA Cancel ==
  ASSUME NEW X, NEW x \in X, NEW y \in X, NEW s, NEW t, IsIn(s, X), IsIn(t, X),
         Cat(One(x), s) = Cat(One(y), t)
  PROVE  x = y /\ s = t
<1>1. Head(Cat(One(x), s)) = x /\ Tail(Cat(One(x), s)) = s
  BY CatHead
<1>2. Head(Cat(One(y), t)) = y /\ Tail(Cat(One(y), t)) = t
  BY CatHead
<1> QED
  BY <1>1, <1>2

\* A sequence that is not empty has a first element.
LEMMA Uncons ==
  ASSUME NEW X, NEW s, IsIn(s, X)
  PROVE  s = Nil \/ \E x, t : x \in X /\ IsIn(t, X) /\ s = Cat(One(x), t)
<1>1. PICK T : T = {u \in Seq(X) : u = Nil \/ \E x, t : x \in X /\ IsIn(t, X) /\ u = Cat(One(x), t)}
  OBVIOUS
<1>2. \A u : u \in T <=> IsIn(u, X) /\ (u = Nil \/ \E x, t : x \in X /\ IsIn(t, X) /\ u = Cat(One(x), t))
  BY <1>1 DEF IsIn
<1>3. IsIn(Nil, X)
  BY DEF Nil, IsIn
<1>4. Nil \in T
  BY <1>2, <1>3
<1>5. ASSUME NEW u, NEW y, IsIn(u, X), u \in T, y \in X PROVE Cat(u, One(y)) \in T
  <2>1. IsIn(One(y), X)
    BY <1>5, OneIn
  <2>2. IsIn(Cat(u, One(y)), X)
    BY <2>1, <1>5, CatIn
  <2>3. CASE u = Nil
    <3>1. Cat(Nil, One(y)) = Cat(One(y), Nil)
      BY <2>1, CatLaws
    <3> QED
      BY <3>1, <2>2, <2>3, <1>2, <1>3, <1>5
  <2>4. CASE u # Nil
    <3>1. PICK x, t : x \in X /\ IsIn(t, X) /\ u = Cat(One(x), t)
      BY <2>4, <1>2, <1>5
    <3>2. IsIn(One(x), X)
      BY <3>1, OneIn
    <3>3. Cat(u, One(y)) = Cat(One(x), Cat(t, One(y)))
      BY <3>1, <3>2, <2>1, CatLaws
    <3>4. IsIn(Cat(t, One(y)), X)
      BY <3>1, <2>1, CatIn
    <3> QED
      BY <3>1, <3>3, <3>4, <2>2, <1>2
  <2> QED
    BY <2>3, <2>4
<1>6. \A u : IsIn(u, X) => u \in T
  BY <1>4, <1>5, SeqInduct
<1> QED
  BY <1>2, <1>6

\* A sequence over a set is one over a larger set.
LEMMA IsInMono ==
  ASSUME NEW X, NEW Y, X \subseteq Y, NEW s, IsIn(s, X)
  PROVE  IsIn(s, Y)
<1>1. s \in Seq(X)
  BY DEF IsIn
<1>2. s \in Seq(Y)
  BY <1>1
<1> QED
  BY <1>2 DEF IsIn

\* What a reader can meet: lines, and the stub's events.
Datum == {"none", "a", "b", "c1", "c2"} \cup Nat \cup (Nat \X {"c1", "c2"}) \cup (Nat \X Nat)
WireLines ==
  [pre : {"event", "data", "blank", "comment"},
   type : {"", "message_start", "text_delta", "tool_use", "input_json_delta", "message_delta", "message_stop",
           "content", "tool_calls", "arguments", "usage", "[DONE]", "response", "done"},
   data : Datum]
StreamEvents == [kind : {"content", "call", "args", "usage", "done"}, index : Nat, data : Datum]
Units(p) == IF p = "stub" THEN StreamEvents ELSE WireLines

\* What it makes of one, when lines are framed as they should be, and whether
\* it stops there.
Made(p, x) == IF p = "stub" THEN x ELSE LineEvent(p, x.type, x)
Ends(p, x) == Made(p, x).kind = "done" \/ (p # "stub" /\ x.type = "done")
GoOn(p) == {x \in Units(p) : ~Ends(p, x)}
Silent(p) == {x \in Units(p) : ~Ends(p, x) /\ Made(p, x).kind = "none"}

\* The data of the events of a kind.
Known(p) == {Made(p, x).data : x \in Units(p)}
Said(p, k) == [x \in Units(p) |-> IF Made(p, x).kind = k THEN One(Made(p, x).data) ELSE Nil]

\* What is left to read: some units, the end, and silence.
Ending(p, rest) ==
  \E b, z, q : /\ rest = Cat(b, Cat(One(z), q)) /\ IsIn(b, GoOn(p)) /\ z \in Units(p) /\ Ends(p, z)
               /\ IsIn(q, Silent(p)) /\ (p = "stub" => q = Nil)

\* What a unit says is a sequence of data.
LEMMA SaidGives == \A p, k : Gives(Said(p, k), Units(p), Known(p))
<1> SUFFICES ASSUME NEW p, NEW k, NEW x \in Units(p) PROVE IsIn(Said(p, k)[x], Known(p))
  BY DEF Gives
<1>1. Said(p, k)[x] = One(Made(p, x).data) \/ Said(p, k)[x] = Nil
  BY DEF Said
<1>2. Made(p, x).data \in Known(p)
  BY DEF Known
<1> QED
  BY <1>1, <1>2, OneIn

\* The next unit, and what is left after it.
LEMMA EndingNext ==
  ASSUME NEW p, NEW rest, Ending(p, rest)
  PROVE  \E h, t : /\ h \in Units(p) /\ IsIn(t, Units(p)) /\ rest = Cat(One(h), t)
                   /\ Ends(p, h) => IsIn(t, Silent(p)) /\ (p = "stub" => t = Nil)
                   /\ ~Ends(p, h) => Ending(p, t)
<1>1. PICK b, z, q : /\ rest = Cat(b, Cat(One(z), q)) /\ IsIn(b, GoOn(p)) /\ z \in Units(p) /\ Ends(p, z)
                     /\ IsIn(q, Silent(p)) /\ (p = "stub" => q = Nil)
  BY DEF Ending
<1>2. GoOn(p) \subseteq Units(p) /\ Silent(p) \subseteq Units(p)
  BY DEF GoOn, Silent
<1>3. IsIn(q, Units(p)) /\ IsIn(One(z), Units(p)) /\ IsIn(b, Units(p))
  BY <1>1, <1>2, IsInMono, OneIn
<1>4. IsIn(Cat(One(z), q), Units(p))
  BY <1>3, CatIn
<1>5. CASE b = Nil
  <2>1. rest = Cat(One(z), q)
    BY <1>1, <1>4, <1>5, CatLaws
  <2> QED
    BY <2>1, <1>1, <1>3
<1>6. CASE b # Nil
  <2>1. PICK x, c : x \in GoOn(p) /\ IsIn(c, GoOn(p)) /\ b = Cat(One(x), c)
    BY <1>1, <1>6, Uncons
  <2>2. x \in Units(p) /\ ~Ends(p, x) /\ IsIn(One(x), Units(p)) /\ IsIn(c, Units(p))
    <3>1. x \in Units(p) /\ ~Ends(p, x)
      BY <2>1 DEF GoOn
    <3> QED
      BY <2>1, <3>1, <1>2, IsInMono, OneIn
  <2>3. PICK t : t = Cat(c, Cat(One(z), q))
    OBVIOUS
  <2>4. rest = Cat(One(x), t) /\ IsIn(t, Units(p))
    BY <1>1, <2>1, <2>2, <2>3, <1>4, CatLaws, CatIn
  <2>5. Ending(p, t)
    BY <2>1, <2>3, <1>1 DEF Ending
  <2> QED
    BY <2>2, <2>4, <2>5
<1> QED
  BY <1>5, <1>6

\* The first unit's data, then the others'.
LEMMA SaidNext ==
  ASSUME NEW p, NEW k, NEW h \in Units(p), NEW t, IsIn(t, Units(p))
  PROVE  FlatMap(Said(p, k), Cat(One(h), t)) = Cat(Said(p, k)[h], FlatMap(Said(p, k), t))
<1>1. IsIn(One(h), Units(p)) /\ Gives(Said(p, k), Units(p), Known(p))
  BY OneIn, SaidGives
<1>2. FlatMap(Said(p, k), Cat(One(h), t)) = Cat(FlatMap(Said(p, k), One(h)), FlatMap(Said(p, k), t))
  BY <1>1, FlatMapCat
<1>3. FlatMap(Said(p, k), One(h)) = Said(p, k)[h]
  BY <1>1, FlatMapOne
<1> QED
  BY <1>2, <1>3

\* Silence says nothing.
LEMMA SilentSays ==
  ASSUME NEW p, NEW k, k # "none", NEW q, IsIn(q, Silent(p))
  PROVE  FlatMap(Said(p, k), q) = Nil
<1>1. \A x \in Silent(p) : Said(p, k)[x] = Nil
  BY DEF Silent, Said
<1> QED
  BY <1>1, FlatMapSame

\* Two counts added to what was counted.
Plus(g, a) == [in |-> g.in + a[1], out |-> g.out + a[2]]

\* The usage still to come makes up the usage wanted: none, one report of it,
\* or two.
UsageOwed(g, u, w) ==
  \/ u = Nil /\ g = w
  \/ \E a : u = One(a) /\ Plus(g, a) = w
  \/ \E a, b : u = Cat(One(a), One(b)) /\ Plus(Plus(g, a), b) = w

\* What was read and what is left make up the answer.
Owed(p, got, want, rest) ==
  /\ Cat(got.text, FlatMap(Said(p, "content"), rest)) = want.text
  /\ Cat(got.calls, FlatMap(Said(p, "call"), rest)) = want.calls
  /\ Cat(got.args, FlatMap(Said(p, "args"), rest)) = want.args
  /\ UsageOwed(got.usage, FlatMap(Said(p, "usage"), rest), want.usage)

\* What was read.
ReadSoFar(p, got) ==
  /\ got = [text |-> got.text, calls |-> got.calls, args |-> got.args, usage |-> got.usage]
  /\ IsIn(got.text, Known(p)) /\ IsIn(got.calls, Known(p)) /\ IsIn(got.args, Known(p))

\* One report less is owed once it is counted.
LEMMA UsageCounted ==
  ASSUME NEW g, NEW w, NEW d, NEW u, NEW S, d \in S, IsIn(u, S), UsageOwed(g, Cat(One(d), u), w)
  PROVE  UsageOwed(Plus(g, d), u, w)
<1>1. Cat(One(d), u) # Nil
  BY CatHead DEF Nil
<1>2. ASSUME NEW a, Cat(One(d), u) = One(a), Plus(g, a) = w PROVE UsageOwed(Plus(g, d), u, w)
  <2>0. PICK X : X = S \cup {a}
    OBVIOUS
  <2>1. d \in X /\ a \in X /\ S \subseteq X
    BY <2>0
  <2>2. IsIn(u, X) /\ IsIn(Nil, X) /\ IsIn(One(a), X)
    BY <2>1, IsInMono, OneIn
  <2>3. One(a) = Cat(One(a), Nil)
    BY <2>2, CatLaws
  <2>4. d = a /\ u = Nil
    BY <2>1, <2>2, <2>3, <1>2, Cancel
  <2> QED
    BY <2>4, <1>2 DEF UsageOwed
<1>3. ASSUME NEW a, NEW b, Cat(One(d), u) = Cat(One(a), One(b)), Plus(Plus(g, a), b) = w
      PROVE  UsageOwed(Plus(g, d), u, w)
  <2>0. PICK X : X = S \cup {a, b}
    OBVIOUS
  <2>1. d \in X /\ a \in X /\ b \in X /\ S \subseteq X
    BY <2>0
  <2>2. IsIn(u, X) /\ IsIn(One(b), X)
    BY <2>1, IsInMono, OneIn
  <2>3. d = a /\ u = One(b)
    BY <2>1, <2>2, <1>3, Cancel
  <2> QED
    BY <2>3, <1>3 DEF UsageOwed
<1> QED
  BY <1>1, <1>2, <1>3 DEF UsageOwed

\* A reader that takes the next unit is owed the rest.
LEMMA TookNext ==
  ASSUME NEW p, NEW got, NEW want, NEW h \in Units(p), NEW t, IsIn(t, Units(p)), ReadSoFar(p, got),
         Owed(p, got, want, Cat(One(h), t))
  PROVE  Owed(p, Took(got, Made(p, h)), want, t) /\ ReadSoFar(p, Took(got, Made(p, h)))
<1> DEFINE e == Made(p, h)
           after == Took(got, e)
           heard(k) == FlatMap(Said(p, k), t)
<1>1. e.data \in Known(p) /\ IsIn(One(e.data), Known(p))
  <2>1. e.data \in Known(p)
    BY DEF Known
  <2> QED
    BY <2>1, OneIn
<1>2. \A k : IsIn(heard(k), Known(p)) /\ Said(p, k)[h] = IF e.kind = k THEN One(e.data) ELSE Nil
  <2>1. \A k : Gives(Said(p, k), Units(p), Known(p))
    BY SaidGives
  <2>2. \A k : IsIn(heard(k), Known(p))
    BY <2>1, FlatMapType
  <2> QED
    BY <2>2 DEF Said
<1>3. \A k : FlatMap(Said(p, k), Cat(One(h), t)) = Cat(Said(p, k)[h], heard(k))
  BY SaidNext
<1>4. \A k : FlatMap(Said(p, k), Cat(One(h), t)) = IF e.kind = k THEN Cat(One(e.data), heard(k)) ELSE heard(k)
  <2>1. \A k : Cat(Nil, heard(k)) = heard(k)
    BY <1>2, CatLaws
  <2> QED
    BY <2>1, <1>2, <1>3
<1>5. /\ after.text = IF e.kind = "content" THEN Append(got.text, e.data) ELSE got.text
      /\ after.calls = IF e.kind = "call" THEN Append(got.calls, e.data) ELSE got.calls
      /\ after.args = IF e.kind = "args" THEN Append(got.args, e.data) ELSE got.args
      /\ after.usage = IF e.kind = "usage" THEN Plus(got.usage, e.data) ELSE got.usage
      /\ after = [text |-> after.text, calls |-> after.calls, args |-> after.args, usage |-> after.usage]
  <2>1. got = [text |-> got.text, calls |-> got.calls, args |-> got.args, usage |-> got.usage]
    BY DEF ReadSoFar
  <2> HIDE DEF e
  <2>2. CASE e.kind = "content"
    BY <2>1, <2>2 DEF Took
  <2>3. CASE e.kind = "call"
    BY <2>1, <2>3 DEF Took
  <2>4. CASE e.kind = "args"
    BY <2>1, <2>4 DEF Took
  <2>5. CASE e.kind = "usage"
    BY <2>1, <2>5 DEF Took, Plus
  <2>6. CASE e.kind \notin {"content", "call", "args", "usage"}
    BY <2>1, <2>6 DEF Took
  <2> QED
    BY <2>2, <2>3, <2>4, <2>5, <2>6
<1>6. IsIn(got.text, Known(p)) /\ IsIn(got.calls, Known(p)) /\ IsIn(got.args, Known(p))
  BY DEF ReadSoFar
<1>7. ASSUME NEW s, IsIn(s, Known(p)) PROVE Append(s, e.data) = Cat(s, One(e.data)) /\ IsIn(Cat(s, One(e.data)), Known(p))
  <2>1. s \in Seq(Known(p))
    BY <1>7 DEF IsIn
  <2>2. Append(s, e.data) = s \o <<e.data>>
    BY <2>1, <1>1, AppendIsConcat
  <2> QED
    BY <2>2, <1>1, <1>7, CatIn DEF Cat, One
<1>8. ASSUME NEW s, IsIn(s, Known(p)), NEW k
      PROVE  Cat(Cat(s, One(e.data)), heard(k)) = Cat(s, Cat(One(e.data), heard(k)))
  BY <1>1, <1>2, <1>8, CatLaws
<1>9. ASSUME NEW s, IsIn(s, Known(p)), NEW k
      PROVE  Cat(IF e.kind = k THEN Append(s, e.data) ELSE s, heard(k))
             = Cat(s, FlatMap(Said(p, k), Cat(One(h), t)))
  <2> HIDE DEF e, after, heard
  <2>1. CASE e.kind = k
    BY <2>1, <1>4, <1>7, <1>8, <1>9
  <2>2. CASE e.kind # k
    BY <2>2, <1>4
  <2> QED
    BY <2>1, <2>2
<1> HIDE DEF e, after, heard
<1>10. Cat(after.text, heard("content")) = want.text /\ Cat(after.calls, heard("call")) = want.calls
  <2>1. Cat(after.text, heard("content")) = Cat(got.text, FlatMap(Said(p, "content"), Cat(One(h), t)))
    BY <1>5, <1>6, <1>9
  <2>2. Cat(after.calls, heard("call")) = Cat(got.calls, FlatMap(Said(p, "call"), Cat(One(h), t)))
    BY <1>5, <1>6, <1>9
  <2> QED
    BY <2>1, <2>2 DEF Owed
<1>11. Cat(after.args, heard("args")) = want.args
  <2>1. Cat(after.args, heard("args")) = Cat(got.args, FlatMap(Said(p, "args"), Cat(One(h), t)))
    BY <1>5, <1>6, <1>9
  <2> QED
    BY <2>1 DEF Owed
<1>12. UsageOwed(after.usage, heard("usage"), want.usage)
  <2>1. UsageOwed(got.usage, FlatMap(Said(p, "usage"), Cat(One(h), t)), want.usage)
    BY DEF Owed
  <2>2. CASE e.kind = "usage"
    <3>1. UsageOwed(got.usage, Cat(One(e.data), heard("usage")), want.usage)
      BY <2>1, <2>2, <1>4
    <3>2. UsageOwed(Plus(got.usage, e.data), heard("usage"), want.usage)
      BY <3>1, <1>1, <1>2, UsageCounted
    <3> QED
      BY <3>2, <2>2, <1>5
  <2>3. CASE e.kind # "usage"
    BY <2>1, <2>3, <1>4, <1>5
  <2> QED
    BY <2>2, <2>3
<1>13. ReadSoFar(p, after)
  BY <1>5, <1>6, <1>7 DEF ReadSoFar
<1>14. Owed(p, after, want, t)
  BY <1>10, <1>11, <1>12 DEF Owed, heard
<1> QED
  BY <1>13, <1>14 DEF after, e

\* With nothing left to hear, it has the answer.
LEMMA NothingOwed ==
  ASSUME NEW p, NEW got, NEW want, NEW q, IsIn(q, Silent(p)), ReadSoFar(p, got), Owed(p, got, want, q),
         want = [text |-> want.text, calls |-> want.calls, args |-> want.args, usage |-> want.usage]
  PROVE  got = want
<1>1. /\ FlatMap(Said(p, "content"), q) = Nil /\ FlatMap(Said(p, "call"), q) = Nil
      /\ FlatMap(Said(p, "args"), q) = Nil /\ FlatMap(Said(p, "usage"), q) = Nil
  BY SilentSays
<1>2. got.text = want.text /\ got.calls = want.calls /\ got.args = want.args
  <2>1. Cat(got.text, Nil) = got.text /\ Cat(got.calls, Nil) = got.calls /\ Cat(got.args, Nil) = got.args
    BY CatLaws DEF ReadSoFar
  <2> QED
    BY <1>1, <2>1 DEF Owed
<1>3. \A a, b : One(a) # Nil /\ Cat(One(a), One(b)) # Nil
  <2> SUFFICES ASSUME NEW a, NEW b PROVE One(a) # Nil /\ Cat(One(a), One(b)) # Nil
    OBVIOUS
  <2>1. IsIn(One(b), {a, b})
    BY OneIn
  <2>2. Cat(One(a), One(b)) # << >>
    BY <2>1, CatHead
  <2>3. One(a) # << >>
    BY DEF One
  <2> QED
    BY <2>2, <2>3 DEF Nil
<1>4. got.usage = want.usage
  BY <1>1, <1>3 DEF Owed, UsageOwed
<1> QED
  BY <1>2, <1>4 DEF ReadSoFar

Providers == {"anthropic", "openai", "ollama", "stub"}

\* A data line of Anthropic's comes after an event line of its type: in the
\* lines left, or just read and followed by at most one comment.
Framing(p, lines, type, noise) ==
  p = "anthropic" =>
    /\ \A k \in DOMAIN lines : lines[k].pre = "data" =>
         \/ k > 1 /\ lines[k - 1].pre = "event" /\ lines[k - 1].type = lines[k].type
         \/ k = 1 /\ type = lines[1].type
         \/ k = 2 /\ lines[1].pre = "comment" /\ type = lines[2].type
    /\ noise = 0 => \A k \in DOMAIN lines : lines[k].pre # "comment"

Rest(st) == IF st.provider = "stub" THEN st.events ELSE st.lines

StreamFields == {"on", "provider", "lines", "events", "type", "got", "want", "ended", "noise"}

\* An answer being read.
UnderWay(st) ==
  /\ DOMAIN st = StreamFields /\ st.on = TRUE /\ st.ended = FALSE
  /\ st.want = [text |-> st.want.text, calls |-> st.want.calls, args |-> st.want.args, usage |-> st.want.usage]
  /\ st.provider \in Providers
  /\ IF st.provider = "stub" THEN st.lines = << >> ELSE st.events = << >>
  /\ Ending(st.provider, Rest(st)) /\ Owed(st.provider, st.got, st.want, Rest(st))
  /\ ReadSoFar(st.provider, st.got) /\ Framing(st.provider, st.lines, st.type, st.noise)

\* No answer, one read to its end, or one under way.
StreamOk(st) ==
  \/ st = NoStream
  \/ st.on = TRUE /\ st.ended = TRUE /\ st.got = st.want /\ st.events = << >>
  \/ UnderWay(st)

\* What the reader makes of the next line is what the line says.
LEMMA LineRead ==
  ASSUME NEW p \in {"anthropic", "openai", "ollama"}, NEW lines, NEW type, NEW noise,
         Framing(p, lines, type, noise), NEW h \in WireLines, NEW t, IsIn(t, WireLines), lines = Cat(One(h), t)
  PROVE  LineEvent(p, type, h) = Made(p, h)
<1>1. h.pre \in {"event", "data", "blank", "comment"}
  BY DEF WireLines
<1>2. 1 \in DOMAIN lines /\ lines[1] = h
  <2>1. IsIn(lines, WireLines)
    BY OneIn, CatIn
  <2>2. lines \in Seq(WireLines) /\ lines # << >> /\ Head(lines) = h
    BY <2>1, CatHead DEF IsIn
  <2> QED
    BY <2>2
<1>3. p = "anthropic" /\ h.pre = "data" => type = h.type
  BY <1>2 DEF Framing
<1> QED
  BY <1>1, <1>3 DEF Made, LineEvent, SseLine

\* Reading a line keeps the framing, and so does a comment.
LEMMA FramingRead ==
  ASSUME NEW p, NEW lines, NEW type, NEW noise,
         Framing(p, lines, type, noise), NEW h \in WireLines, NEW t, IsIn(t, WireLines), lines = Cat(One(h), t)
  PROVE  Framing(p, t, IF SseLine(h) = "Event" THEN h.type ELSE type, noise)
<1> SUFFICES ASSUME p = "anthropic"
             PROVE  Framing(p, t, IF SseLine(h) = "Event" THEN h.type ELSE type, noise)
  BY DEF Framing
<1>1. lines \in Seq(WireLines) /\ lines # << >> /\ Head(lines) = h /\ Tail(lines) = t
  <2>1. IsIn(lines, WireLines)
    BY OneIn, CatIn
  <2> QED
    BY <2>1, CatHead DEF IsIn
<1>2. PICK n \in Nat : Len(lines) = n + 1 /\ DOMAIN lines = 1..(n + 1) /\ DOMAIN t = 1..n
  <2>1. t \in Seq(WireLines) /\ Len(lines) \in Nat /\ Len(lines) # 0 /\ Len(t) = Len(lines) - 1
    BY <1>1, HeadTailProperties, EmptySeq, LenProperties DEF IsIn
  <2>2. DOMAIN lines = 1..Len(lines) /\ DOMAIN t = 1..Len(t)
    BY <1>1, <2>1, LenProperties
  <2> QED
    BY <2>1, <2>2
<1>3. lines[1] = h /\ \A k \in 1..n : t[k] = lines[k + 1]
  BY <1>1, <1>2, HeadTailProperties
<1>4. \A k \in 1..(n + 1) : lines[k].pre = "data" =>
         \/ k > 1 /\ lines[k - 1].pre = "event" /\ lines[k - 1].type = lines[k].type
         \/ k = 1 /\ type = lines[1].type
         \/ k = 2 /\ lines[1].pre = "comment" /\ type = lines[2].type
  BY <1>2 DEF Framing
<1>5. noise = 0 => \A k \in 1..(n + 1) : lines[k].pre # "comment"
  BY <1>2 DEF Framing
<1>6. SseLine(h) = "Event" <=> h.pre = "event"
  BY DEF SseLine, WireLines
<1>7. PICK type2 : type2 = IF SseLine(h) = "Event" THEN h.type ELSE type
  OBVIOUS
<1>8. ASSUME NEW k \in 1..n, t[k].pre = "data"
      PROVE  \/ k > 1 /\ t[k - 1].pre = "event" /\ t[k - 1].type = t[k].type
             \/ k = 1 /\ type2 = t[1].type
  <2>1. k + 1 \in 1..(n + 1) /\ t[k] = lines[k + 1] /\ (k + 1) - 1 = k
    BY <1>3
  <2>2. \/ lines[k].pre = "event" /\ lines[k].type = lines[k + 1].type
        \/ k = 1 /\ lines[1].pre = "comment" /\ type = lines[2].type
    BY <1>4, <1>8, <2>1
  <2>3. CASE k = 1
    BY <2>1, <2>2, <2>3, <1>3, <1>6, <1>7
  <2>4. CASE k > 1
    <3>1. k - 1 \in 1..n /\ t[k - 1] = lines[k]
      BY <2>4, <1>3
    <3> QED
      BY <3>1, <2>1, <2>2, <2>4
  <2> QED
    BY <2>3, <2>4
<1>9. ASSUME noise = 0, NEW k \in 1..n PROVE t[k].pre # "comment"
  <2>1. k + 1 \in 1..(n + 1) /\ t[k] = lines[k + 1]
    BY <1>3
  <2> QED
    BY <2>1, <1>5, <1>9
<1>10. Framing(p, t, type2, noise)
  BY <1>2, <1>8, <1>9 DEF Framing
<1> QED
  BY <1>7, <1>10

Comment == Line("comment", "", "none")

\* A comment before the lines left keeps the framing.
LEMMA FramingComment ==
  ASSUME NEW p, NEW lines, NEW type, Framing(p, lines, type, 0), IsIn(lines, WireLines), Comment \in WireLines
  PROVE  Framing(p, Cat(One(Comment), lines), type, 1)
<1> SUFFICES ASSUME p = "anthropic" PROVE Framing(p, Cat(One(Comment), lines), type, 1)
  BY DEF Framing
<1>1. PICK c : c = Cat(One(Comment), lines)
  OBVIOUS
<1>2. PICK n \in Nat : DOMAIN lines = 1..n /\ DOMAIN c = 1..(n + 1)
                       /\ c[1] = Comment /\ \A k \in 1..(n + 1) : k > 1 => c[k] = lines[k - 1]
  <2>1. lines \in Seq(WireLines) /\ <<Comment>> \in Seq(WireLines) /\ Len(<<Comment>>) = 1 /\ <<Comment>>[1] = Comment
    BY DEF IsIn
  <2>2. PICK n \in Nat : n = Len(lines) /\ DOMAIN lines = 1..n
    BY <2>1, LenProperties
  <2>3. c = <<Comment>> \o lines
    BY <1>1 DEF Cat, One
  <2>4. c \in Seq(WireLines) /\ Len(c) = 1 + n /\ \A i \in 1..(1 + n) : c[i] = IF i <= 1 THEN <<Comment>>[i] ELSE lines[i - 1]
    BY <2>1, <2>2, <2>3, ConcatProperties
  <2>5. DOMAIN c = 1..(n + 1)
    BY <2>4, LenProperties
  <2>6. c[1] = Comment /\ \A k \in 1..(n + 1) : k > 1 => c[k] = lines[k - 1]
    BY <2>1, <2>4
  <2> QED
    BY <2>2, <2>5, <2>6
<1>3. \A k \in 1..n : lines[k].pre = "data" =>
         \/ k > 1 /\ lines[k - 1].pre = "event" /\ lines[k - 1].type = lines[k].type
         \/ k = 1 /\ type = lines[1].type
  <2> SUFFICES ASSUME NEW k \in 1..n, lines[k].pre = "data"
               PROVE  \/ k > 1 /\ lines[k - 1].pre = "event" /\ lines[k - 1].type = lines[k].type
                      \/ k = 1 /\ type = lines[1].type
    OBVIOUS
  <2>1. \/ k > 1 /\ lines[k - 1].pre = "event" /\ lines[k - 1].type = lines[k].type
        \/ k = 1 /\ type = lines[1].type
        \/ k = 2 /\ lines[1].pre = "comment"
    BY <1>2 DEF Framing
  <2>2. \A j \in 1..n : lines[j].pre # "comment"
    BY <1>2 DEF Framing
  <2>3. k = 2 => 1 \in 1..n
    OBVIOUS
  <2> QED
    BY <2>1, <2>2, <2>3
<1>4. Comment.pre = "comment"
  BY DEF Comment, Line
<1>5. ASSUME NEW k \in 1..(n + 1), c[k].pre = "data"
      PROVE  \/ k > 1 /\ c[k - 1].pre = "event" /\ c[k - 1].type = c[k].type
             \/ k = 2 /\ c[1].pre = "comment" /\ type = c[2].type
  <2>1. k > 1
    BY <1>2, <1>4, <1>5
  <2>2. PICK j \in 1..n : j = k - 1
    BY <2>1
  <2>3. c[k] = lines[j] /\ (j > 1 => c[k - 1] = lines[j - 1] /\ k - 1 \in 1..(n + 1))
    BY <1>2, <2>1, <2>2
  <2>4. CASE j = 1
    BY <2>2, <2>3, <2>4, <1>2, <1>3, <1>4, <1>5
  <2>5. CASE j > 1
    BY <2>1, <2>2, <2>3, <2>5, <1>3, <1>5
  <2> QED
    BY <2>4, <2>5
<1>6. Framing(p, c, type, 1)
  BY <1>2, <1>5 DEF Framing
<1> QED
  BY <1>1, <1>6

\* Reading a line, a comment, or an event of the stub's.
LEMMA StreamReads ==
  ASSUME UnderWay(stream), ReadLine
  PROVE  StreamOk(stream')
<1> DEFINE p == stream.provider
           l == Head(stream.lines)
           e == LineEvent(stream.provider, stream.type, l)
<1>1. p \in {"anthropic", "openai", "ollama"} /\ Rest(stream) = stream.lines /\ stream.events = << >>
      /\ Units(p) = WireLines
  <2>1. p # "stub" /\ p \in Providers
    BY DEF UnderWay, ReadLine
  <2> QED
    BY <2>1 DEF UnderWay, Providers, Rest, Units
<1>2. PICK h, t : /\ h \in WireLines /\ IsIn(t, WireLines) /\ stream.lines = Cat(One(h), t)
                  /\ Ends(p, h) => IsIn(t, Silent(p))
                  /\ ~Ends(p, h) => Ending(p, t)
  BY <1>1, EndingNext DEF UnderWay
<1>3. l = h /\ Tail(stream.lines) = t
  BY <1>2, CatHead
<1>4. e = Made(p, h)
  <2>1. Framing(p, stream.lines, stream.type, stream.noise)
    BY DEF UnderWay
  <2> QED
    BY <2>1, <1>1, <1>2, <1>3, LineRead
<1>5. PICK got2 : got2 = Took(stream.got, Made(p, h))
  OBVIOUS
<1>6. PICK type2 : type2 = IF SseLine(h) = "Event" THEN h.type ELSE stream.type
  OBVIOUS
<1>7. PICK s2 : s2 = stream'
  OBVIOUS
<1>8. /\ DOMAIN s2 = StreamFields /\ s2.on = TRUE /\ s2.provider = p /\ s2.lines = t /\ s2.events = << >>
      /\ s2.type = type2 /\ s2.got = got2 /\ s2.want = stream.want /\ s2.noise = stream.noise
      /\ s2.ended = Ends(p, h)
  <2>1. DOMAIN stream = StreamFields /\ stream.on = TRUE
    BY DEF UnderWay
  <2>2. s2 = [stream EXCEPT !.lines = t, !.type = type2, !.got = got2,
                            !.ended = (e.kind = "done" \/ h.type = "done")]
    BY <1>3, <1>4, <1>5, <1>6, <1>7 DEF ReadLine
  <2>3. (e.kind = "done" \/ h.type = "done") = Ends(p, h)
    BY <1>1, <1>4 DEF Ends
  <2>4. PICK d : d = Ends(p, h)
    OBVIOUS
  <2>5. s2 = [stream EXCEPT !.lines = t, !.type = type2, !.got = got2, !.ended = d]
    BY <2>2, <2>3, <2>4
  <2> HIDE DEF e, l
  <2> QED
    BY <2>1, <2>4, <2>5, <1>1 DEF StreamFields
<1>9. Owed(p, got2, stream.want, t) /\ ReadSoFar(p, got2)
  <2>1. Owed(p, stream.got, stream.want, Cat(One(h), t)) /\ ReadSoFar(p, stream.got)
    BY <1>1, <1>2 DEF UnderWay
  <2>2. h \in Units(p) /\ IsIn(t, Units(p))
    BY <1>1, <1>2
  <2> QED
    BY <2>1, <2>2, <1>5, TookNext
<1>10. Framing(p, t, type2, stream.noise)
  <2>1. Framing(p, stream.lines, stream.type, stream.noise)
    BY DEF UnderWay
  <2> QED
    BY <2>1, <1>2, <1>6, FramingRead
<1>11. stream.want = [text |-> stream.want.text, calls |-> stream.want.calls, args |-> stream.want.args,
                      usage |-> stream.want.usage]
  BY DEF UnderWay
<1> HIDE DEF p, l, e
<1>12. CASE Ends(p, h)
  <2>1. got2 = stream.want
    BY <1>2, <1>9, <1>11, <1>12, NothingOwed
  <2> QED
    BY <2>1, <1>1, <1>7, <1>8, <1>12 DEF StreamOk
<1>13. CASE ~Ends(p, h)
  <2>1. Rest(s2) = t /\ p \in Providers /\ p # "stub"
    BY <1>1, <1>8 DEF Rest, Providers
  <2>2. Ending(p, t)
    BY <1>2, <1>13
  <2>3. UnderWay(s2)
    BY <2>1, <2>2, <1>8, <1>9, <1>10, <1>11, <1>13 DEF UnderWay
  <2> QED
    BY <2>3, <1>7 DEF StreamOk
<1> QED
  BY <1>12, <1>13

\* Taking an event of the stub's.
LEMMA StreamTakesEvents ==
  ASSUME UnderWay(stream), ReadEvent
  PROVE  StreamOk(stream')
<1> DEFINE p == "stub"
<1>1. stream.provider = p /\ Rest(stream) = stream.events /\ stream.lines = << >>
  BY DEF UnderWay, ReadEvent, Rest
<1>2. PICK h, t : /\ h \in Units(p) /\ IsIn(t, Units(p)) /\ stream.events = Cat(One(h), t)
                  /\ Ends(p, h) => IsIn(t, Silent(p)) /\ t = Nil
                  /\ ~Ends(p, h) => Ending(p, t)
  BY <1>1, EndingNext DEF UnderWay
<1>3. Head(stream.events) = h /\ Tail(stream.events) = t
  BY <1>2, CatHead
<1>4. Made(p, h) = h /\ Ends(p, h) = (h.kind = "done")
  BY DEF Made, Ends
<1>5. PICK got2 : got2 = Took(stream.got, Made(p, h))
  OBVIOUS
<1>6. PICK s2 : s2 = stream'
  OBVIOUS
<1>7. /\ DOMAIN s2 = StreamFields /\ s2.on = TRUE /\ s2.provider = p /\ s2.lines = << >> /\ s2.events = t
      /\ s2.got = got2 /\ s2.want = stream.want /\ s2.ended = Ends(p, h)
  <2>1. DOMAIN stream = StreamFields /\ stream.on = TRUE
    BY DEF UnderWay
  <2>2. PICK d : d = Ends(p, h)
    OBVIOUS
  <2>3. s2 = [stream EXCEPT !.events = t, !.got = got2, !.ended = d]
    BY <1>3, <1>4, <1>5, <1>6, <2>2 DEF ReadEvent
  <2> QED
    BY <2>1, <2>2, <2>3, <1>1 DEF StreamFields
<1>8. Owed(p, got2, stream.want, t) /\ ReadSoFar(p, got2)
  <2>1. Owed(p, stream.got, stream.want, Cat(One(h), t)) /\ ReadSoFar(p, stream.got)
    BY <1>1, <1>2 DEF UnderWay
  <2> QED
    BY <2>1, <1>2, <1>5, TookNext
<1>9. stream.want = [text |-> stream.want.text, calls |-> stream.want.calls, args |-> stream.want.args,
                      usage |-> stream.want.usage]
  BY DEF UnderWay
<1>10. CASE Ends(p, h)
  <2>1. got2 = stream.want
    BY <1>2, <1>8, <1>9, <1>10, NothingOwed
  <2> QED
    BY <2>1, <1>2, <1>6, <1>7, <1>10 DEF StreamOk, Nil
<1>11. CASE ~Ends(p, h)
  <2>1. Rest(s2) = t /\ p \in Providers /\ Framing(p, << >>, s2.type, s2.noise)
    BY <1>7 DEF Rest, Providers, Framing
  <2>2. Ending(p, t)
    BY <1>2, <1>11
  <2>3. UnderWay(s2)
    BY <2>1, <2>2, <1>7, <1>8, <1>9, <1>11 DEF UnderWay
  <2> QED
    BY <2>3, <1>6 DEF StreamOk
<1> QED
  BY <1>10, <1>11

\* A keep-alive comment.
LEMMA StreamKeepsAlive ==
  ASSUME UnderWay(stream), KeepAlive
  PROVE  StreamOk(stream')
<1> DEFINE p == stream.provider
<1>1. p \in {"anthropic", "openai", "ollama"} /\ Rest(stream) = stream.lines /\ stream.events = << >>
      /\ Units(p) = WireLines
  <2>1. p # "stub" /\ p \in Providers
    BY DEF UnderWay, KeepAlive
  <2> QED
    BY <2>1 DEF UnderWay, Providers, Rest, Units
<1>2. Comment \in WireLines /\ Made(p, Comment).kind = "none" /\ ~Ends(p, Comment)
  <2>1. Comment \in WireLines
    BY DEF Comment, Line, WireLines, Datum
  <2>2. Comment.pre = "comment" /\ Comment.type = ""
    BY DEF Comment, Line
  <2>3. LineEvent(p, Comment.type, Comment) = NoEvent
    BY <2>2, <1>1 DEF LineEvent, SseLine, NdjsonEvent
  <2>4. NoEvent.kind = "none"
    BY DEF NoEvent, Ev
  <2> QED
    BY <2>1, <2>2, <2>3, <2>4, <1>1 DEF Made, Ends
<1>3. PICK b, z, q : /\ stream.lines = Cat(b, Cat(One(z), q)) /\ IsIn(b, GoOn(p)) /\ z \in Units(p) /\ Ends(p, z)
                     /\ IsIn(q, Silent(p))
  BY <1>1 DEF UnderWay, Ending
<1>4. GoOn(p) \subseteq WireLines /\ Silent(p) \subseteq WireLines /\ Comment \in GoOn(p)
  BY <1>1, <1>2 DEF GoOn, Silent
<1>5. /\ IsIn(b, WireLines) /\ IsIn(q, WireLines) /\ IsIn(One(z), WireLines) /\ IsIn(One(Comment), WireLines)
      /\ IsIn(One(Comment), GoOn(p))
  BY <1>1, <1>2, <1>3, <1>4, IsInMono, OneIn
<1>6. IsIn(Cat(One(z), q), WireLines) /\ IsIn(Cat(One(Comment), b), GoOn(p))
  BY <1>3, <1>5, CatIn
<1>7. IsIn(stream.lines, WireLines)
  BY <1>3, <1>5, <1>6, CatIn
<1>8. PICK t : t = Cat(One(Comment), stream.lines)
  OBVIOUS
<1>9. Ending(p, t)
  <2>1. t = Cat(Cat(One(Comment), b), Cat(One(z), q))
    BY <1>3, <1>5, <1>6, <1>8, CatLaws
  <2> QED
    BY <2>1, <1>1, <1>3, <1>6 DEF Ending
<1>10. Owed(p, stream.got, stream.want, t)
  <2>1. \A k \in {"content", "call", "args", "usage"} : FlatMap(Said(p, k), t) = FlatMap(Said(p, k), stream.lines)
    <3> TAKE k \in {"content", "call", "args", "usage"}
    <3>1. FlatMap(Said(p, k), t) = Cat(Said(p, k)[Comment], FlatMap(Said(p, k), stream.lines))
      BY <1>1, <1>2, <1>7, <1>8, SaidNext
    <3>2. Said(p, k)[Comment] = Nil
      BY <1>1, <1>2 DEF Said
    <3>3. Gives(Said(p, k), Units(p), Known(p))
      BY SaidGives
    <3>4. IsIn(FlatMap(Said(p, k), stream.lines), Known(p))
      BY <3>3, <1>1, <1>7, FlatMapType
    <3> QED
      BY <3>1, <3>2, <3>4, CatLaws
  <2> QED
    BY <2>1, <1>1 DEF UnderWay, Owed
<1>11. Framing(p, t, stream.type, 1)
  <2>1. Framing(p, stream.lines, stream.type, 0)
    BY DEF UnderWay, KeepAlive
  <2> QED
    BY <2>1, <1>2, <1>7, <1>8, FramingComment
<1>12. PICK s2 : s2 = stream'
  OBVIOUS
<1>13. /\ DOMAIN s2 = StreamFields /\ s2.on = TRUE /\ s2.provider = p /\ s2.lines = t /\ s2.events = << >>
       /\ s2.type = stream.type /\ s2.got = stream.got /\ s2.want = stream.want /\ s2.ended = FALSE /\ s2.noise = 1
  <2>1. s2 = [stream EXCEPT !.lines = t, !.noise = 1]
    BY <1>8, <1>12 DEF KeepAlive, Comment, Cat, One
  <2>2. DOMAIN stream = StreamFields /\ stream.on = TRUE /\ stream.ended = FALSE
    BY DEF UnderWay
  <2> QED
    BY <2>1, <2>2, <1>1 DEF StreamFields
<1>14. ReadSoFar(p, stream.got) /\ stream.want = [text |-> stream.want.text, calls |-> stream.want.calls,
                                                  args |-> stream.want.args, usage |-> stream.want.usage]
  BY DEF UnderWay
<1> HIDE DEF p
<1>15. Rest(s2) = t /\ p \in Providers /\ p # "stub"
  BY <1>13, <1>1 DEF Rest, Providers
<1>16. UnderWay(s2)
  BY <1>9, <1>10, <1>11, <1>13, <1>14, <1>15 DEF UnderWay
<1> QED
  BY <1>12, <1>16 DEF StreamOk

\* What the units of a stretch say: text, calls, arguments and usage.
Hears(p, s, c, l, a, u) ==
  /\ IsIn(s, Units(p))
  /\ FlatMap(Said(p, "content"), s) = c /\ FlatMap(Said(p, "call"), s) = l
  /\ FlatMap(Said(p, "args"), s) = a /\ FlatMap(Said(p, "usage"), s) = u

Join(x, y) == IF y = Nil THEN x ELSE IF x = Nil THEN y ELSE Cat(x, y)

\* A stretch says what its parts say.
LEMMA HearsCat ==
  ASSUME NEW p, NEW s, NEW c1, NEW l1, NEW a1, NEW u1, Hears(p, s, c1, l1, a1, u1),
         NEW t, NEW c2, NEW l2, NEW a2, NEW u2, Hears(p, t, c2, l2, a2, u2)
  PROVE  Hears(p, Cat(s, t), Join(c1, c2), Join(l1, l2), Join(a1, a2), Join(u1, u2))
<1>1. IsIn(s, Units(p)) /\ IsIn(t, Units(p))
  BY DEF Hears
<1>2. \A k : FlatMap(Said(p, k), Cat(s, t)) = Join(FlatMap(Said(p, k), s), FlatMap(Said(p, k), t))
  <2> SUFFICES ASSUME NEW k
               PROVE  FlatMap(Said(p, k), Cat(s, t)) = Join(FlatMap(Said(p, k), s), FlatMap(Said(p, k), t))
    OBVIOUS
  <2>1. Gives(Said(p, k), Units(p), Known(p))
    BY SaidGives
  <2>2. FlatMap(Said(p, k), Cat(s, t)) = Cat(FlatMap(Said(p, k), s), FlatMap(Said(p, k), t))
    BY <2>1, <1>1, FlatMapCat
  <2>3. IsIn(FlatMap(Said(p, k), s), Known(p)) /\ IsIn(FlatMap(Said(p, k), t), Known(p))
    BY <2>1, <1>1, FlatMapType
  <2>4. Cat(FlatMap(Said(p, k), s), Nil) = FlatMap(Said(p, k), s)
        /\ Cat(Nil, FlatMap(Said(p, k), t)) = FlatMap(Said(p, k), t)
    BY <2>3, CatLaws
  <2> QED
    BY <2>2, <2>4 DEF Join
<1>3. IsIn(Cat(s, t), Units(p))
  BY <1>1, CatIn
<1> QED
  BY <1>2, <1>3 DEF Hears

\* One unit says its event's data.
Only(p, x, k) == IF Made(p, x).kind = k THEN One(Made(p, x).data) ELSE Nil

\* Its four sequences.
LEMMA HearsOne ==
  ASSUME NEW p, NEW x \in Units(p)
  PROVE  Hears(p, One(x), Only(p, x, "content"), Only(p, x, "call"), Only(p, x, "args"), Only(p, x, "usage"))
<1>1. \A k : FlatMap(Said(p, k), One(x)) = Only(p, x, k)
  <2> SUFFICES ASSUME NEW k PROVE FlatMap(Said(p, k), One(x)) = Only(p, x, k)
    OBVIOUS
  <2>1. FlatMap(Said(p, k), One(x)) = Said(p, k)[x]
    BY SaidGives, FlatMapOne
  <2> QED
    BY <2>1 DEF Said, Only
<1> QED
  BY <1>1, OneIn DEF Hears

\* A stretch for every element of a sequence, that says the element or nothing.
LEMMA HeardOfEach ==
  ASSUME NEW p, NEW k, NEW X, NEW I, Gives(I, X, Units(p)), NEW s, IsIn(s, X)
  PROVE  /\ (\A x \in X : FlatMap(Said(p, k), I[x]) = One(x)) => FlatMap(Said(p, k), FlatMap(I, s)) = s
         /\ (\A x \in X : FlatMap(Said(p, k), I[x]) = Nil) => FlatMap(Said(p, k), FlatMap(I, s)) = Nil
<1>1. PICK C : C = [x \in X |-> FlatMap(Said(p, k), I[x])]
  OBVIOUS
<1>2. \A x \in X : FlatMap(Said(p, k), I[x]) = C[x]
  BY <1>1
<1>3. Gives(Said(p, k), Units(p), Known(p))
  BY SaidGives
<1>4. Gives(C, X, Known(p))
  <2> SUFFICES ASSUME NEW x \in X PROVE IsIn(C[x], Known(p))
    BY DEF Gives
  <2>1. IsIn(I[x], Units(p))
    BY DEF Gives
  <2>2. IsIn(FlatMap(Said(p, k), I[x]), Known(p))
    BY <2>1, <1>3, FlatMapType
  <2> QED
    BY <2>2, <1>2
<1>5. FlatMap(Said(p, k), FlatMap(I, s)) = FlatMap(C, s)
  BY <1>2, <1>3, <1>4, FlatMapTwice
<1> QED
  BY <1>2, <1>5, FlatMapSame

\* Only(...) of a stretch, for each element x.
LEMMA HearsEach ==
  ASSUME NEW p, NEW X, NEW I, NEW s, IsIn(s, X)
  PROVE  /\ (\A x \in X : Hears(p, I[x], One(x), Nil, Nil, Nil)) => Hears(p, FlatMap(I, s), s, Nil, Nil, Nil)
         /\ (\A x \in X : Hears(p, I[x], Nil, One(x), One(x), Nil)) => Hears(p, FlatMap(I, s), Nil, s, s, Nil)
<1>1. ASSUME \A x \in X : Hears(p, I[x], One(x), Nil, Nil, Nil) PROVE Hears(p, FlatMap(I, s), s, Nil, Nil, Nil)
  <2>1. Gives(I, X, Units(p))
    BY <1>1 DEF Gives, Hears
  <2>2. IsIn(FlatMap(I, s), Units(p))
    BY <2>1, FlatMapType
  <2>3. /\ \A x \in X : FlatMap(Said(p, "content"), I[x]) = One(x)
        /\ \A x \in X : FlatMap(Said(p, "call"), I[x]) = Nil
        /\ \A x \in X : FlatMap(Said(p, "args"), I[x]) = Nil
        /\ \A x \in X : FlatMap(Said(p, "usage"), I[x]) = Nil
    BY <1>1 DEF Hears
  <2> QED
    BY <2>1, <2>2, <2>3, HeardOfEach DEF Hears
<1>2. ASSUME \A x \in X : Hears(p, I[x], Nil, One(x), One(x), Nil) PROVE Hears(p, FlatMap(I, s), Nil, s, s, Nil)
  <2>1. Gives(I, X, Units(p))
    BY <1>2 DEF Gives, Hears
  <2>2. IsIn(FlatMap(I, s), Units(p))
    BY <2>1, FlatMapType
  <2>3. /\ \A x \in X : FlatMap(Said(p, "content"), I[x]) = Nil
        /\ \A x \in X : FlatMap(Said(p, "call"), I[x]) = One(x)
        /\ \A x \in X : FlatMap(Said(p, "args"), I[x]) = One(x)
        /\ \A x \in X : FlatMap(Said(p, "usage"), I[x]) = Nil
    BY <1>2 DEF Hears
  <2> QED
    BY <2>1, <2>2, <2>3, HeardOfEach DEF Hears
<1> QED
  BY <1>1, <1>2

\* Lines that are framed among themselves, without a comment.
FramedAlone(s) ==
  \A k \in DOMAIN s :
    /\ s[k].pre # "comment"
    /\ s[k].pre = "data" => k > 1 /\ s[k - 1].pre = "event" /\ s[k - 1].type = s[k].type

\* Framed lines after framed lines.
LEMMA FramedCat ==
  ASSUME NEW s, NEW t, IsIn(s, WireLines), IsIn(t, WireLines), FramedAlone(s), FramedAlone(t)
  PROVE  FramedAlone(Cat(s, t))
<1>1. s \in Seq(WireLines) /\ t \in Seq(WireLines)
  BY DEF IsIn
<1>2. PICK n \in Nat : n = Len(s) /\ DOMAIN s = 1..n
  BY <1>1, LenProperties
<1>3. PICK m \in Nat : m = Len(t) /\ DOMAIN t = 1..m
  BY <1>1, LenProperties
<1>4. PICK c : c = s \o t
  OBVIOUS
<1>5. c \in Seq(WireLines) /\ Len(c) = n + m /\ \A i \in 1..(n + m) : c[i] = IF i <= n THEN s[i] ELSE t[i - n]
  BY <1>1, <1>2, <1>3, <1>4, ConcatProperties
<1>6. DOMAIN c = 1..(n + m)
  BY <1>5, LenProperties
<1>7. ASSUME NEW k \in 1..(n + m)
      PROVE  /\ c[k].pre # "comment"
             /\ c[k].pre = "data" => k > 1 /\ c[k - 1].pre = "event" /\ c[k - 1].type = c[k].type
  <2>1. CASE k <= n
    <3>1. k \in 1..n /\ c[k] = s[k] /\ (k > 1 => k - 1 \in 1..(n + m) /\ c[k - 1] = s[k - 1])
      BY <2>1, <1>5
    <3> QED
      BY <3>1, <1>2 DEF FramedAlone
  <2>2. CASE k > n
    <3>1. PICK j \in 1..m : j = k - n
      BY <2>2
    <3>2. c[k] = t[j] /\ (j > 1 => k - 1 \in 1..(n + m) /\ ~(k - 1 <= n) /\ (k - 1) - n = j - 1 /\ k > 1)
      BY <2>2, <3>1, <1>5
    <3>3. j > 1 => c[k - 1] = t[j - 1]
      BY <3>2, <1>5
    <3> QED
      BY <3>1, <3>2, <3>3, <1>3 DEF FramedAlone
  <2> QED
    BY <2>1, <2>2
<1>8. FramedAlone(c)
  BY <1>6, <1>7 DEF FramedAlone
<1> QED
  BY <1>4, <1>8 DEF Cat

\* Framed lines for every element.
LEMMA FramedEach ==
  ASSUME NEW X, NEW I, Gives(I, X, WireLines), \A x \in X : FramedAlone(I[x]), NEW s, IsIn(s, X)
  PROVE  FramedAlone(FlatMap(I, s))
<1>1. PICK T : T = {u \in Seq(X) : FramedAlone(FlatMap(I, u))}
  OBVIOUS
<1>2. \A u : u \in T <=> IsIn(u, X) /\ FramedAlone(FlatMap(I, u))
  BY <1>1 DEF IsIn
<1>3. Nil \in T
  <2>1. IsIn(Nil, X)
    BY DEF Nil, IsIn
  <2>2. FramedAlone(Nil)
    BY DEF FramedAlone, Nil
  <2> QED
    BY <2>1, <2>2, <1>2, FlatMapNil
<1>4. ASSUME NEW u, NEW x, IsIn(u, X), u \in T, x \in X PROVE Cat(u, One(x)) \in T
  <2>1. FlatMap(I, Cat(u, One(x))) = Cat(FlatMap(I, u), I[x])
    BY <1>4, FlatMapAdd
  <2>2. IsIn(FlatMap(I, u), WireLines) /\ IsIn(I[x], WireLines)
    BY <1>4, FlatMapType DEF Gives
  <2>3. FramedAlone(Cat(FlatMap(I, u), I[x]))
    BY <2>2, <1>2, <1>4, FramedCat
  <2>4. IsIn(Cat(u, One(x)), X)
    BY <1>4, OneIn, CatIn
  <2> QED
    BY <2>1, <2>3, <2>4, <1>2
<1>5. \A u : IsIn(u, X) => u \in T
  BY <1>3, <1>4, SeqInduct
<1> QED
  BY <1>2, <1>5

\* Responses, by what the formats need of them.
Tokens == {"a", "b"}
CallIds == {"c1", "c2"}
PlaceOf(c) == IF c = "c1" THEN 1 ELSE 2

\* What a response holds.
LEMMA ResponseType ==
  ASSUME NEW r \in Responses
  PROVE  /\ IsIn(r.text, Tokens) /\ IsIn(r.calls, CallIds)
         /\ \A k \in DOMAIN r.text : r.text[k] \in Tokens
         /\ \A k \in DOMAIN r.calls : r.calls[k] \in CallIds /\ k = PlaceOf(r.calls[k])
         /\ r.usage.in \in Nat /\ r.usage.out \in Nat /\ r.usage = [in |-> r.usage.in, out |-> r.usage.out]
<1>1. r.text \in {<<>>, <<"a">>, <<"a", "b">>} /\ r.calls \in {<<>>, <<"c1">>, <<"c1", "c2">>}
      /\ r.usage \in {[in |-> 3, out |-> 2], [in |-> 0, out |-> 0]}
  BY DEF Responses
<1>2. r.text \in Seq(Tokens) /\ r.calls \in Seq(CallIds)
  <2>1. <<>> \in Seq(Tokens) /\ <<"a">> \in Seq(Tokens) /\ <<"a", "b">> \in Seq(Tokens)
    BY DEF Tokens
  <2>2. <<>> \in Seq(CallIds) /\ <<"c1">> \in Seq(CallIds) /\ <<"c1", "c2">> \in Seq(CallIds)
    BY DEF CallIds
  <2> QED
    BY <2>1, <2>2, <1>1
<1>3. \A k \in DOMAIN r.calls : r.calls[k] \in CallIds /\ k = PlaceOf(r.calls[k])
  <2>1. CASE r.calls = <<>>
    BY <2>1
  <2>2. CASE r.calls = <<"c1">>
    BY <2>2 DEF CallIds, PlaceOf
  <2>3. CASE r.calls = <<"c1", "c2">>
    BY <2>3 DEF CallIds, PlaceOf
  <2> QED
    BY <2>1, <2>2, <2>3, <1>1
<1>4. \A k \in DOMAIN r.text : r.text[k] \in Tokens
  BY <1>2
<1>5. r.usage.in \in Nat /\ r.usage.out \in Nat /\ r.usage = [in |-> r.usage.in, out |-> r.usage.out]
  BY <1>1
<1> QED
  BY <1>2, <1>3, <1>4, <1>5 DEF IsIn

\* An answer starts when its units say the response.
LEMMA StreamBegins ==
  ASSUME NEW p \in Providers, NEW r \in Responses, NEW rest, NEW u, Hears(p, rest, r.text, r.calls, r.calls, u),
         UsageOwed([in |-> 0, out |-> 0], u, r.usage), Ending(p, rest), p = "anthropic" => FramedAlone(rest),
         NEW st, DOMAIN st = StreamFields, st.on = TRUE, st.ended = FALSE, st.provider = p, Rest(st) = rest,
         IF p = "stub" THEN st.lines = << >> ELSE st.events = << >>,
         st.got = NoStream.got, st.want = Completed(r), st.noise = 0
  PROVE  UnderWay(st)
<1>1. /\ st.got = [text |-> Nil, calls |-> Nil, args |-> Nil, usage |-> [in |-> 0, out |-> 0]]
      /\ st.want = [text |-> r.text, calls |-> r.calls, args |-> r.calls, usage |-> r.usage]
  BY DEF NoStream, Completed, Nil
<1>2. /\ st.got.text = Nil /\ st.got.calls = Nil /\ st.got.args = Nil /\ st.got.usage = [in |-> 0, out |-> 0]
      /\ st.want.text = r.text /\ st.want.calls = r.calls /\ st.want.args = r.calls /\ st.want.usage = r.usage
  BY <1>1
<1>3. \A X : IsIn(Nil, X)
  BY DEF Nil, IsIn
<1>4. ReadSoFar(p, st.got)
  BY <1>1, <1>2, <1>3 DEF ReadSoFar
<1>5. Cat(Nil, r.text) = r.text /\ Cat(Nil, r.calls) = r.calls
  BY ResponseType, CatLaws
<1>6. Owed(p, st.got, st.want, rest)
  BY <1>2, <1>5 DEF Owed, Hears
<1>7. Framing(p, st.lines, st.type, st.noise)
  <2>1. CASE p = "anthropic"
    <3>1. FramedAlone(st.lines)
      BY <2>1 DEF Rest
    <3> QED
      BY <3>1 DEF FramedAlone, Framing
  <2>2. CASE p # "anthropic"
    BY <2>2 DEF Framing
  <2> QED
    BY <2>1, <2>2
<1>8. st.want = [text |-> st.want.text, calls |-> st.want.calls, args |-> st.want.args, usage |-> st.want.usage]
  BY <1>1, <1>2
<1> QED
  BY <1>4, <1>6, <1>7, <1>8 DEF UnderWay

\* One unit, by the kind of its event.
LEMMA HearsEvent ==
  ASSUME NEW p, NEW x \in Units(p), NEW kind, NEW i, NEW d, Made(p, x) = Ev(kind, i, d)
  PROVE  /\ kind = "content" => Hears(p, One(x), One(d), Nil, Nil, Nil)
         /\ kind = "call" => Hears(p, One(x), Nil, One(d), Nil, Nil)
         /\ kind = "args" => Hears(p, One(x), Nil, Nil, One(d), Nil)
         /\ kind = "usage" => Hears(p, One(x), Nil, Nil, Nil, One(d))
         /\ kind \in {"none", "done"} => Hears(p, One(x), Nil, Nil, Nil, Nil)
<1>1. Hears(p, One(x), Only(p, x, "content"), Only(p, x, "call"), Only(p, x, "args"), Only(p, x, "usage"))
  BY HearsOne
<1>2. Made(p, x).kind = kind /\ Made(p, x).data = d
  BY DEF Ev
<1>3. \A k : Only(p, x, k) = IF kind = k THEN One(d) ELSE Nil
  BY <1>2 DEF Only
<1> QED
  BY <1>1, <1>3

\* A list of single elements.
LEMMA EachIsFlatMap ==
  ASSUME NEW X, NEW Y, NEW E, Into(E, X, Y), NEW I, \A x \in X : I[x] = One(E[x]), NEW s, IsIn(s, X)
  PROVE  Each(E, s) = FlatMap(I, s)
<1>1. PICK T : T = {u \in Seq(X) : Each(E, u) = FlatMap(I, u)}
  OBVIOUS
<1>2. \A u : u \in T <=> IsIn(u, X) /\ Each(E, u) = FlatMap(I, u)
  BY <1>1 DEF IsIn
<1>3. \A x \in X : E[x] \in Y
  BY DEF Into
<1>4. Gives(I, X, Y)
  BY <1>3, OneIn DEF Gives
<1>5. Nil \in T
  <2>1. IsIn(Nil, X)
    BY DEF Nil, IsIn
  <2>2. Each(E, << >>) = << >>
    BY DEF Each
  <2> QED
    BY <2>1, <2>2, <1>2, FlatMapNil DEF Nil
<1>6. ASSUME NEW u, NEW x, IsIn(u, X), u \in T, x \in X PROVE Cat(u, One(x)) \in T
  <2>1. FlatMap(I, Cat(u, One(x))) = Cat(FlatMap(I, u), I[x])
    BY <1>4, <1>6, FlatMapAdd
  <2>2. Each(E, Cat(u, One(x))) = Cat(Each(E, u), One(E[x]))
    BY <1>6, EachAdd
  <2>3. IsIn(Cat(u, One(x)), X)
    BY <1>6, OneIn, CatIn
  <2> QED
    BY <2>1, <2>2, <2>3, <1>2, <1>6
<1>7. \A u : IsIn(u, X) => u \in T
  BY <1>5, <1>6, SeqInduct
<1> QED
  BY <1>2, <1>7

\* An answer that ends with its last unit.
LEMMA EndsLast ==
  ASSUME NEW p, NEW b, IsIn(b, GoOn(p)), NEW z \in Units(p), Ends(p, z)
  PROVE  Ending(p, Cat(b, One(z)))
<1>1. IsIn(One(z), Units(p)) /\ IsIn(Nil, Silent(p))
  <2>1. IsIn(Nil, Silent(p))
    BY DEF Nil, IsIn
  <2> QED
    BY <2>1, OneIn
<1>2. One(z) = Cat(One(z), Nil)
  BY <1>1, CatLaws
<1> QED
  BY <1>1, <1>2 DEF Ending

\* NDJSON: the objects of an answer.
LEMMA NdjsonBegins ==
  ASSUME NEW r \in Responses
  PROVE  \E u : /\ Hears("ollama", NdjsonWire(r), r.text, Nil, Nil, u) /\ UsageOwed([in |-> 0, out |-> 0], u, r.usage)
                /\ Ending("ollama", NdjsonWire(r))
<1> DEFINE p == "ollama"
<1>1. IsIn(r.text, Tokens) /\ (\A k \in DOMAIN r.text : r.text[k] \in Tokens)
      /\ r.usage.in \in Nat /\ r.usage.out \in Nat /\ r.usage = [in |-> r.usage.in, out |-> r.usage.out]
  BY ResponseType
<1>2. PICK E : E = [x \in Tokens |-> Line("data", "response", x)]
  OBVIOUS
<1>3. PICK I : I = [x \in Tokens |-> One(E[x])]
  OBVIOUS
<1>4. PICK z : z = Line("data", "done", <<r.usage.in, r.usage.out>>)
  OBVIOUS
<1>5. ASSUME NEW x \in Tokens
      PROVE  /\ E[x] \in WireLines /\ Made(p, E[x]) = Ev("content", 0, x) /\ ~Ends(p, E[x])
  <2>1. E[x] = Line("data", "response", x)
    BY <1>2
  <2>2. E[x] \in WireLines /\ E[x].type = "response" /\ E[x].data = x
    BY <2>1 DEF Line, WireLines, Datum, Tokens
  <2>3. Made(p, E[x]) = Ev("content", 0, x)
    BY <2>2 DEF Made, LineEvent, NdjsonEvent
  <2> QED
    BY <2>2, <2>3 DEF Ends, Ev
<1>6. z \in WireLines /\ Made(p, z) = Ev("usage", 0, <<r.usage.in, r.usage.out>>) /\ Ends(p, z)
  <2>1. <<r.usage.in, r.usage.out>> \in Datum
    BY <1>1 DEF Datum
  <2>2. z \in WireLines /\ z.type = "done" /\ z.data = <<r.usage.in, r.usage.out>>
    BY <2>1, <1>4 DEF Line, WireLines
  <2> QED
    BY <2>2 DEF Made, LineEvent, NdjsonEvent, Ends
<1>7. Units(p) = WireLines
  BY DEF Units
<1>8. ASSUME NEW x \in Tokens PROVE Hears(p, I[x], One(x), Nil, Nil, Nil)
  <2>1. Hears(p, One(E[x]), One(x), Nil, Nil, Nil)
    BY <1>5, <1>7, HearsEvent
  <2> QED
    BY <2>1, <1>3
<1>9. PICK b : b = FlatMap(I, r.text)
  OBVIOUS
<1>10. Hears(p, b, r.text, Nil, Nil, Nil)
  BY <1>1, <1>8, <1>9, HearsEach
<1>11. IsIn(b, GoOn(p))
  <2>1. Gives(I, Tokens, GoOn(p))
    <3>1. \A x \in Tokens : E[x] \in GoOn(p)
      BY <1>5, <1>7 DEF GoOn
    <3> QED
      BY <3>1, <1>3, OneIn DEF Gives
  <2> QED
    BY <2>1, <1>1, <1>9, FlatMapType
<1>12. Hears(p, One(z), Nil, Nil, Nil, One(<<r.usage.in, r.usage.out>>))
  BY <1>6, <1>7, HearsEvent
<1>13. NdjsonWire(r) = Cat(b, One(z))
  <2>1. [k \in DOMAIN r.text |-> Line("data", "response", r.text[k])] = Each(E, r.text)
    BY <1>1, <1>2 DEF Each
  <2>2. Into(E, Tokens, WireLines)
    BY <1>2, <1>5 DEF Into
  <2>3. Each(E, r.text) = b
    BY <2>2, <1>1, <1>3, <1>9, EachIsFlatMap
  <2>4. b \in Seq(WireLines)
    BY <1>10, <1>7 DEF Hears, IsIn
  <2>5. Append(b, z) = b \o <<z>>
    BY <2>4, <1>6, AppendIsConcat
  <2> QED
    BY <2>1, <2>3, <2>5, <1>4 DEF NdjsonWire, Cat, One
<1>14. Ending(p, Cat(b, One(z)))
  BY <1>6, <1>7, <1>11, EndsLast
<1>15. Hears(p, Cat(b, One(z)), r.text, Nil, Nil, One(<<r.usage.in, r.usage.out>>))
  <2>1. Hears(p, Cat(b, One(z)), Join(r.text, Nil), Join(Nil, Nil), Join(Nil, Nil), Join(Nil, One(<<r.usage.in, r.usage.out>>)))
    BY <1>10, <1>12, HearsCat
  <2> QED
    BY <2>1 DEF Join
<1>16. UsageOwed([in |-> 0, out |-> 0], One(<<r.usage.in, r.usage.out>>), r.usage)
  <2>1. Plus([in |-> 0, out |-> 0], <<r.usage.in, r.usage.out>>) = r.usage
    BY <1>1 DEF Plus
  <2> QED
    BY <2>1 DEF UsageOwed
<1> QED
  BY <1>13, <1>14, <1>15, <1>16

\* The stub: the events of an answer.
LEMMA StubBegins ==
  ASSUME NEW r \in Responses
  PROVE  \E u : /\ Hears("stub", StubEvents(r), r.text, r.calls, r.calls, u)
                /\ UsageOwed([in |-> 0, out |-> 0], u, r.usage) /\ Ending("stub", StubEvents(r))
<1> DEFINE p == "stub"
<1>1. /\ IsIn(r.text, Tokens) /\ (\A k \in DOMAIN r.text : r.text[k] \in Tokens) /\ IsIn(r.calls, CallIds)
      /\ \A k \in DOMAIN r.calls : r.calls[k] \in CallIds /\ k = PlaceOf(r.calls[k])
      /\ r.usage.in \in Nat /\ r.usage.out \in Nat /\ r.usage = [in |-> r.usage.in, out |-> r.usage.out]
  BY ResponseType
<1>2. PICK E : E = [x \in Tokens |-> Ev("content", 0, x)]
  OBVIOUS
<1>3. PICK I : I = [x \in Tokens |-> One(E[x])]
  OBVIOUS
<1>4. PICK J : J = [c \in CallIds |-> <<Ev("call", PlaceOf(c) - 1, c), Ev("args", PlaceOf(c) - 1, c)>>]
  OBVIOUS
<1>5. PICK y, z : y = Ev("usage", 0, <<r.usage.in, r.usage.out>>) /\ z = Ev("done", 0, "none")
  OBVIOUS
<1>6. \A x : Made(p, x) = x /\ (Ends(p, x) <=> x.kind = "done")
  BY DEF Made, Ends
<1>7. Units(p) = StreamEvents
  BY DEF Units
<1>8. \A x \in Tokens : E[x] \in StreamEvents /\ E[x] = Ev("content", 0, x) /\ E[x].kind # "done"
  BY <1>2 DEF Ev, StreamEvents, Datum, Tokens
<1>9. ASSUME NEW x \in Tokens PROVE Hears(p, I[x], One(x), Nil, Nil, Nil)
  <2>1. Hears(p, One(E[x]), One(x), Nil, Nil, Nil)
    BY <1>6, <1>7, <1>8, HearsEvent
  <2> QED
    BY <2>1, <1>3
<1>10. ASSUME NEW c \in CallIds PROVE Hears(p, J[c], Nil, One(c), One(c), Nil) /\ IsIn(J[c], GoOn(p))
  <2>0. c \in Datum
    BY <1>10 DEF CallIds, Datum
  <2>1. PICK n \in Nat : n = PlaceOf(c) - 1
    BY <1>10 DEF PlaceOf, CallIds
  <2>2. PICK v, w : v = Ev("call", n, c) /\ w = Ev("args", n, c)
    OBVIOUS
  <2>3. v \in StreamEvents /\ w \in StreamEvents /\ v.kind # "done" /\ w.kind # "done"
    BY <2>0, <2>2 DEF Ev, StreamEvents
  <2>4. Hears(p, One(v), Nil, One(c), Nil, Nil) /\ Hears(p, One(w), Nil, Nil, One(c), Nil)
    BY <2>2, <2>3, <1>6, <1>7, HearsEvent
  <2>5. Hears(p, Cat(One(v), One(w)), Join(Nil, Nil), Join(One(c), Nil), Join(Nil, One(c)), Join(Nil, Nil))
    BY <2>4, HearsCat
  <2>6. Join(Nil, Nil) = Nil /\ Join(One(c), Nil) = One(c) /\ Join(Nil, One(c)) = One(c)
    BY DEF Join
  <2>7. J[c] = Cat(One(v), One(w))
    BY <1>4, <2>1, <2>2, PairIs
  <2>8. v \in GoOn(p) /\ w \in GoOn(p)
    BY <2>3, <1>6, <1>7 DEF GoOn
  <2>9. IsIn(One(v), GoOn(p)) /\ IsIn(One(w), GoOn(p))
    BY <2>8, OneIn
  <2> QED
    BY <2>5, <2>6, <2>7, <2>9, CatIn
<1>11. PICK b1, b2 : b1 = FlatMap(I, r.text) /\ b2 = FlatMap(J, r.calls)
  OBVIOUS
<1>12. Hears(p, b1, r.text, Nil, Nil, Nil) /\ Hears(p, b2, Nil, r.calls, r.calls, Nil)
  <2>1. Hears(p, b1, r.text, Nil, Nil, Nil)
    BY <1>1, <1>9, <1>11, HearsEach
  <2>2. Hears(p, b2, Nil, r.calls, r.calls, Nil)
    BY <1>1, <1>10, <1>11, HearsEach
  <2> QED
    BY <2>1, <2>2
<1>13. IsIn(b1, GoOn(p)) /\ IsIn(b2, GoOn(p))
  <2>1. Gives(I, Tokens, GoOn(p))
    <3>1. \A x \in Tokens : E[x] \in GoOn(p)
      BY <1>6, <1>7, <1>8 DEF GoOn
    <3> QED
      BY <3>1, <1>3, OneIn DEF Gives
  <2>2. Gives(J, CallIds, GoOn(p))
    BY <1>10 DEF Gives
  <2> QED
    BY <2>1, <2>2, <1>1, <1>11, FlatMapType
<1>14. y \in StreamEvents /\ y.kind # "done" /\ z \in StreamEvents /\ z.kind = "done"
  <2>1. <<r.usage.in, r.usage.out>> \in Datum /\ "none" \in Datum
    BY <1>1 DEF Datum
  <2> QED
    BY <2>1, <1>5 DEF Ev, StreamEvents
<1>15. /\ Hears(p, One(y), Nil, Nil, Nil, One(<<r.usage.in, r.usage.out>>)) /\ Hears(p, One(z), Nil, Nil, Nil, Nil)
       /\ IsIn(One(y), GoOn(p))
  <2>1. y \in GoOn(p)
    BY <1>14, <1>6, <1>7 DEF GoOn
  <2> QED
    BY <2>1, <1>5, <1>6, <1>7, <1>14, HearsEvent, OneIn
<1>16. PICK b, u : b = Cat(Cat(b1, b2), One(y)) /\ u = One(<<r.usage.in, r.usage.out>>)
  OBVIOUS
<1>17. IsIn(b, GoOn(p)) /\ IsIn(b1, Units(p)) /\ IsIn(b2, Units(p)) /\ IsIn(One(y), Units(p)) /\ IsIn(One(z), Units(p))
       /\ IsIn(Cat(b1, b2), Units(p))
  BY <1>12, <1>13, <1>15, <1>16, CatIn DEF Hears
<1>18. Hears(p, Cat(b, One(z)), r.text, r.calls, r.calls, u)
  <2>1. Hears(p, Cat(b1, b2), Join(r.text, Nil), Join(Nil, r.calls), Join(Nil, r.calls), Join(Nil, Nil))
    BY <1>12, HearsCat
  <2>2. Join(r.text, Nil) = r.text /\ Join(Nil, r.calls) = r.calls /\ Join(r.calls, Nil) = r.calls /\ Join(Nil, Nil) = Nil
        /\ Join(Nil, u) = u /\ Join(u, Nil) = u
    BY DEF Join
  <2>3. Hears(p, Cat(b1, b2), r.text, r.calls, r.calls, Nil)
    BY <2>1, <2>2
  <2>4. Hears(p, b, Join(r.text, Nil), Join(r.calls, Nil), Join(r.calls, Nil), Join(Nil, u))
    BY <2>3, <1>15, <1>16, HearsCat
  <2>5. Hears(p, b, r.text, r.calls, r.calls, u)
    BY <2>2, <2>4
  <2>6. Hears(p, Cat(b, One(z)), Join(r.text, Nil), Join(r.calls, Nil), Join(r.calls, Nil), Join(u, Nil))
    BY <2>5, <1>15, HearsCat
  <2> QED
    BY <2>2, <2>6
<1>19. StubEvents(r) = Cat(b, One(z))
  <2>1. [k \in DOMAIN r.text |-> Ev("content", 0, r.text[k])] = Each(E, r.text)
    BY <1>1, <1>2 DEF Each
  <2>2. Into(E, Tokens, StreamEvents)
    BY <1>2, <1>8 DEF Into
  <2>3. Each(E, r.text) = b1
    BY <2>2, <1>1, <1>3, <1>11, EachIsFlatMap
  <2>4. [k \in DOMAIN r.calls |-> <<Ev("call", k - 1, r.calls[k]), Ev("args", k - 1, r.calls[k])>>] = Each(J, r.calls)
    <3>1. \A k \in DOMAIN r.calls : <<Ev("call", k - 1, r.calls[k]), Ev("args", k - 1, r.calls[k])>> = J[r.calls[k]]
      BY <1>1, <1>4
    <3> QED
      BY <3>1 DEF Each
  <2>5. <<y, z>> = Cat(One(y), One(z))
    BY PairIs
  <2>6. StubEvents(r) = Cat(Cat(b1, b2), Cat(One(y), One(z)))
    BY <2>1, <2>3, <2>4, <2>5, <1>5, <1>11 DEF StubEvents, Cat, FlatMap
  <2> QED
    BY <2>6, <1>16, <1>17, CatLaws
<1>20. Ending(p, Cat(b, One(z)))
  BY <1>6, <1>7, <1>14, <1>17, EndsLast
<1>21. UsageOwed([in |-> 0, out |-> 0], u, r.usage)
  <2>1. Plus([in |-> 0, out |-> 0], <<r.usage.in, r.usage.out>>) = r.usage
    BY <1>1 DEF Plus
  <2> QED
    BY <2>1, <1>16 DEF UsageOwed
<1> QED
  BY <1>18, <1>19, <1>20, <1>21

\* OpenAI: a data line and a blank one for every delta.
OpenAiItem(type, data) == Cat(One(Line("data", type, data)), One(Line("blank", "", "none")))
OpenAiTypes == {"content", "tool_calls", "arguments", "usage"}

\* A delta says its event's data, and the reader goes on after it.
LEMMA OpenAiItemSays ==
  ASSUME NEW type \in OpenAiTypes, NEW data \in Datum, NEW kind, NEW i, NEW d, OpenAiEvent(type, data) = Ev(kind, i, d)
  PROVE  /\ kind = "content" => Hears("openai", OpenAiItem(type, data), One(d), Nil, Nil, Nil)
         /\ kind = "call" => Hears("openai", OpenAiItem(type, data), Nil, One(d), Nil, Nil)
         /\ kind = "args" => Hears("openai", OpenAiItem(type, data), Nil, Nil, One(d), Nil)
         /\ kind = "usage" => Hears("openai", OpenAiItem(type, data), Nil, Nil, Nil, One(d))
         /\ kind = "none" => Hears("openai", OpenAiItem(type, data), Nil, Nil, Nil, Nil)
         /\ kind # "done" => IsIn(OpenAiItem(type, data), GoOn("openai"))
<1> DEFINE p == "openai"
<1>1. PICK v, w : v = Line("data", type, data) /\ w = Line("blank", "", "none")
  OBVIOUS
<1>2. v.pre = "data" /\ v.type = type /\ v.data = data /\ w.pre = "blank" /\ w.type = ""
  BY <1>1 DEF Line
<1>3. v \in WireLines /\ w \in WireLines
  <2>1. "none" \in Datum
    BY DEF Datum
  <2> QED
    BY <2>1, <1>1 DEF Line, WireLines, OpenAiTypes
<1>4. SseLine(v) = "Data" /\ SseLine(w) = "Empty"
  BY <1>2 DEF SseLine, OpenAiTypes
<1>5. Made(p, v) = Ev(kind, i, d) /\ Made(p, w) = Ev("none", 0, "none")
  BY <1>2, <1>4 DEF Made, LineEvent, NoEvent
<1>6. Units(p) = WireLines
  BY DEF Units
<1>7. Hears(p, One(w), Nil, Nil, Nil, Nil)
  BY <1>3, <1>5, <1>6, HearsEvent
<1>8. OpenAiItem(type, data) = Cat(One(v), One(w))
  BY <1>1 DEF OpenAiItem
<1>9. ASSUME NEW c, NEW l, NEW a, NEW u, Hears(p, One(v), c, l, a, u) PROVE Hears(p, OpenAiItem(type, data), c, l, a, u)
  <2>1. Hears(p, Cat(One(v), One(w)), Join(c, Nil), Join(l, Nil), Join(a, Nil), Join(u, Nil))
    BY <1>7, <1>9, HearsCat
  <2>2. Join(c, Nil) = c /\ Join(l, Nil) = l /\ Join(a, Nil) = a /\ Join(u, Nil) = u
    BY DEF Join
  <2> QED
    BY <2>1, <2>2, <1>8
<1>10. ASSUME kind # "done" PROVE IsIn(OpenAiItem(type, data), GoOn(p))
  <2>1. Made(p, v).kind = kind /\ Made(p, w).kind = "none"
    BY <1>5 DEF Ev
  <2>2. v \in GoOn(p) /\ w \in GoOn(p)
    BY <2>1, <1>2, <1>3, <1>6, <1>10 DEF GoOn, Ends, OpenAiTypes
  <2>3. IsIn(One(v), GoOn(p)) /\ IsIn(One(w), GoOn(p))
    BY <2>2, OneIn
  <2> QED
    BY <2>3, <1>8, CatIn
<1>11. /\ kind = "content" => Hears(p, One(v), One(d), Nil, Nil, Nil)
       /\ kind = "call" => Hears(p, One(v), Nil, One(d), Nil, Nil)
       /\ kind = "args" => Hears(p, One(v), Nil, Nil, One(d), Nil)
       /\ kind = "usage" => Hears(p, One(v), Nil, Nil, Nil, One(d))
       /\ kind = "none" => Hears(p, One(v), Nil, Nil, Nil, Nil)
  BY <1>3, <1>5, <1>6, HearsEvent
<1> QED
  BY <1>9, <1>10, <1>11

\* The lines of a whole answer.
LEMMA OpenAiBegins ==
  ASSUME NEW r \in Responses
  PROVE  \E u : /\ Hears("openai", OpenAiWire(r), r.text, r.calls, r.calls, u)
                /\ UsageOwed([in |-> 0, out |-> 0], u, r.usage) /\ Ending("openai", OpenAiWire(r))
<1> DEFINE p == "openai"
<1>1. /\ IsIn(r.text, Tokens) /\ (\A k \in DOMAIN r.text : r.text[k] \in Tokens) /\ IsIn(r.calls, CallIds)
      /\ \A k \in DOMAIN r.calls : r.calls[k] \in CallIds /\ k = PlaceOf(r.calls[k])
      /\ r.usage.in \in Nat /\ r.usage.out \in Nat /\ r.usage = [in |-> r.usage.in, out |-> r.usage.out]
  BY ResponseType
<1>2. PICK I : I = [x \in Tokens |-> OpenAiItem("content", x)]
  OBVIOUS
<1>3. PICK J : J = [c \in CallIds |-> Cat(OpenAiItem("tool_calls", <<PlaceOf(c) - 1, c>>),
                                          OpenAiItem("arguments", <<PlaceOf(c) - 1, c>>))]
  OBVIOUS
<1>4. PICK y, z : y = OpenAiItem("usage", <<r.usage.in, r.usage.out>>) /\ z = Line("data", "[DONE]", "none")
  OBVIOUS
<1>5. ASSUME NEW x \in Tokens PROVE Hears(p, I[x], One(x), Nil, Nil, Nil) /\ IsIn(I[x], GoOn(p))
  <2>1. x \in Datum /\ "content" \in OpenAiTypes
    BY DEF Tokens, Datum, OpenAiTypes
  <2>2. OpenAiEvent("content", x) = Ev("content", 0, x)
    BY DEF OpenAiEvent
  <2>3. Hears(p, OpenAiItem("content", x), One(x), Nil, Nil, Nil) /\ IsIn(OpenAiItem("content", x), GoOn(p))
    BY <2>1, <2>2, OpenAiItemSays
  <2> QED
    BY <2>3, <1>2
<1>6. ASSUME NEW c \in CallIds PROVE Hears(p, J[c], Nil, One(c), One(c), Nil) /\ IsIn(J[c], GoOn(p))
  <2>1. PICK n \in Nat : n = PlaceOf(c) - 1
    BY <1>6 DEF PlaceOf, CallIds
  <2>0. PICK d : d = <<n, c>>
    OBVIOUS
  <2>2. d = <<n, c>> /\ d[1] = n /\ d[2] = c
    BY <2>0
  <2>3. d \in Datum /\ "tool_calls" \in OpenAiTypes /\ "arguments" \in OpenAiTypes
    BY <2>2, <1>6 DEF Datum, CallIds, OpenAiTypes
  <2>4. OpenAiEvent("tool_calls", d) = Ev("call", n, c) /\ OpenAiEvent("arguments", d) = Ev("args", n, c)
    BY <2>2 DEF OpenAiEvent
  <2>5. /\ Hears(p, OpenAiItem("tool_calls", d), Nil, One(c), Nil, Nil) /\ IsIn(OpenAiItem("tool_calls", d), GoOn(p))
        /\ Hears(p, OpenAiItem("arguments", d), Nil, Nil, One(c), Nil) /\ IsIn(OpenAiItem("arguments", d), GoOn(p))
    BY <2>3, <2>4, OpenAiItemSays
  <2>6. J[c] = Cat(OpenAiItem("tool_calls", d), OpenAiItem("arguments", d))
    BY <1>3, <2>1, <2>2
  <2>7. Hears(p, J[c], Join(Nil, Nil), Join(One(c), Nil), Join(Nil, One(c)), Join(Nil, Nil))
    BY <2>5, <2>6, HearsCat
  <2>8. Join(Nil, Nil) = Nil /\ Join(One(c), Nil) = One(c) /\ Join(Nil, One(c)) = One(c)
    BY DEF Join
  <2> QED
    BY <2>5, <2>6, <2>7, <2>8, CatIn
<1>7. PICK b1, b2 : b1 = FlatMap(I, r.text) /\ b2 = FlatMap(J, r.calls)
  OBVIOUS
<1>8. Hears(p, b1, r.text, Nil, Nil, Nil) /\ Hears(p, b2, Nil, r.calls, r.calls, Nil)
  <2>1. Hears(p, b1, r.text, Nil, Nil, Nil)
    BY <1>1, <1>5, <1>7, HearsEach
  <2>2. Hears(p, b2, Nil, r.calls, r.calls, Nil)
    BY <1>1, <1>6, <1>7, HearsEach
  <2> QED
    BY <2>1, <2>2
<1>9. IsIn(b1, GoOn(p)) /\ IsIn(b2, GoOn(p))
  <2>1. Gives(I, Tokens, GoOn(p)) /\ Gives(J, CallIds, GoOn(p))
    BY <1>5, <1>6 DEF Gives
  <2> QED
    BY <2>1, <1>1, <1>7, FlatMapType
<1>10. PICK u : /\ Hears(p, y, Nil, Nil, Nil, u) /\ IsIn(y, GoOn(p))
                /\ UsageOwed([in |-> 0, out |-> 0], u, r.usage)
  <2>0. PICK d : d = <<r.usage.in, r.usage.out>>
    OBVIOUS
  <2>1. d = <<r.usage.in, r.usage.out>> /\ d[1] = r.usage.in /\ d[2] = r.usage.out
    BY <2>0
  <2>2. d \in Datum /\ "usage" \in OpenAiTypes
    BY <2>1, <1>1 DEF Datum, OpenAiTypes
  <2>3. CASE d = <<0, 0>>
    <3>1. OpenAiEvent("usage", d) = Ev("none", 0, "none")
      BY <2>3 DEF OpenAiEvent, NoEvent
    <3>2. Hears(p, y, Nil, Nil, Nil, Nil) /\ IsIn(y, GoOn(p))
      BY <3>1, <2>1, <2>2, <1>4, OpenAiItemSays
    <3>3. r.usage = [in |-> 0, out |-> 0]
      BY <2>1, <2>3, <1>1
    <3>4. UsageOwed([in |-> 0, out |-> 0], Nil, r.usage)
      BY <3>3 DEF UsageOwed
    <3> QED
      BY <3>2, <3>4
  <2>4. CASE d # <<0, 0>>
    <3>1. OpenAiEvent("usage", d) = Ev("usage", 0, d)
      BY <2>4 DEF OpenAiEvent
    <3>2. Hears(p, y, Nil, Nil, Nil, One(d)) /\ IsIn(y, GoOn(p))
      BY <3>1, <2>1, <2>2, <1>4, OpenAiItemSays
    <3>3. Plus([in |-> 0, out |-> 0], d) = r.usage
      BY <2>1, <1>1 DEF Plus
    <3>4. UsageOwed([in |-> 0, out |-> 0], One(d), r.usage)
      BY <3>3 DEF UsageOwed
    <3> QED
      BY <3>2, <3>4
  <2> QED
    BY <2>3, <2>4
<1>11. z \in WireLines /\ Made(p, z) = Ev("done", 0, "none") /\ Ends(p, z) /\ Units(p) = WireLines
  <2>1. z \in WireLines /\ z.pre = "data" /\ z.type = "[DONE]"
    BY <1>4 DEF Line, WireLines, Datum
  <2>2. SseLine(z) = "Done"
    BY <2>1 DEF SseLine
  <2>3. Made(p, z) = Ev("done", 0, "none")
    BY <2>2 DEF Made, LineEvent
  <2> QED
    BY <2>1, <2>3 DEF Ends, Ev, Units
<1>12. Hears(p, One(z), Nil, Nil, Nil, Nil)
  BY <1>11, HearsEvent
<1>13. PICK b : b = Cat(Cat(b1, b2), y)
  OBVIOUS
<1>14. IsIn(b, GoOn(p))
  BY <1>9, <1>10, <1>13, CatIn
<1>15. Hears(p, Cat(b, One(z)), r.text, r.calls, r.calls, u)
  <2>1. Hears(p, Cat(b1, b2), Join(r.text, Nil), Join(Nil, r.calls), Join(Nil, r.calls), Join(Nil, Nil))
    BY <1>8, HearsCat
  <2>2. Join(r.text, Nil) = r.text /\ Join(Nil, r.calls) = r.calls /\ Join(r.calls, Nil) = r.calls /\ Join(Nil, Nil) = Nil
        /\ Join(Nil, u) = u /\ Join(u, Nil) = u
    BY DEF Join
  <2>3. Hears(p, Cat(b1, b2), r.text, r.calls, r.calls, Nil)
    BY <2>1, <2>2
  <2>4. Hears(p, b, Join(r.text, Nil), Join(r.calls, Nil), Join(r.calls, Nil), Join(Nil, u))
    BY <2>3, <1>10, <1>13, HearsCat
  <2>5. Hears(p, b, r.text, r.calls, r.calls, u)
    BY <2>2, <2>4
  <2>6. Hears(p, Cat(b, One(z)), Join(r.text, Nil), Join(r.calls, Nil), Join(r.calls, Nil), Join(u, Nil))
    BY <2>5, <1>12, HearsCat
  <2> QED
    BY <2>2, <2>6
<1>16. OpenAiWire(r) = Cat(b, One(z))
  <2> DEFINE item(type, data) == <<Line("data", type, data), Line("blank", "", "none")>>
  <2>1. \A type, data : item(type, data) = OpenAiItem(type, data)
    BY PairIs DEF OpenAiItem
  <2>2. [k \in DOMAIN r.text |-> item("content", r.text[k])] = Each(I, r.text)
    BY <2>1, <1>1, <1>2 DEF Each
  <2>3. [k \in DOMAIN r.calls |-> item("tool_calls", <<k - 1, r.calls[k]>>) \o item("arguments", <<k - 1, r.calls[k]>>)]
        = Each(J, r.calls)
    <3>1. \A k \in DOMAIN r.calls :
            item("tool_calls", <<k - 1, r.calls[k]>>) \o item("arguments", <<k - 1, r.calls[k]>>) = J[r.calls[k]]
      BY <2>1, <1>1, <1>3 DEF Cat
    <3> QED
      BY <3>1 DEF Each
  <2>4. item("usage", <<r.usage.in, r.usage.out>>) = y
    BY <2>1, <1>4
  <2>5. OpenAiWire(r) = Flat([k \in DOMAIN r.text |-> item("content", r.text[k])])
          \o Flat([k \in DOMAIN r.calls |-> item("tool_calls", <<k - 1, r.calls[k]>>)
                                            \o item("arguments", <<k - 1, r.calls[k]>>)])
          \o item("usage", <<r.usage.in, r.usage.out>>) \o <<Line("data", "[DONE]", "none")>>
    BY DEF OpenAiWire
  <2> HIDE DEF item
  <2> QED
    BY <2>2, <2>3, <2>4, <2>5, <1>4, <1>7, <1>13 DEF Cat, One, FlatMap
<1>17. Ending(p, Cat(b, One(z)))
  BY <1>11, <1>14, EndsLast
<1> QED
  BY <1>10, <1>15, <1>16, <1>17

\* Anthropic: an event line, a data line and a blank one for every event.
AnthropicItem(type, data) ==
  Cat(One(Line("event", type, "none")), Cat(One(Line("data", type, data)), One(Line("blank", "", "none"))))
AnthropicTypes == {"message_start", "text_delta", "tool_use", "input_json_delta", "message_delta", "message_stop"}

\* Three elements written out.
LEMMA TripleIs == \A x, y, z : <<x, y, z>> = Cat(One(x), Cat(One(y), One(z)))
<1> SUFFICES ASSUME NEW x, NEW y, NEW z PROVE <<x, y, z>> = Cat(One(x), Cat(One(y), One(z)))
  OBVIOUS
<1>1. PICK X : X = {x, y, z}
  OBVIOUS
<1>2. <<x>> \in Seq(X) /\ <<y, z>> \in Seq(X) /\ Len(<<x>>) = 1 /\ Len(<<y, z>>) = 2
      /\ <<x>>[1] = x /\ <<y, z>>[1] = y /\ <<y, z>>[2] = z
  BY <1>1
<1>3. PICK u : u = <<x>> \o <<y, z>>
  OBVIOUS
<1>4. u \in Seq(X) /\ Len(u) = 1 + 2 /\ \A i \in 1..(1 + 2) : u[i] = IF i <= 1 THEN <<x>>[i] ELSE <<y, z>>[i - 1]
  BY <1>2, <1>3, ConcatProperties
<1>5. Len(u) = 3 /\ u[1] = x /\ u[2] = y /\ u[3] = z
  BY <1>2, <1>4
<1>6. PICK v : v = <<x, y, z>>
  OBVIOUS
<1>7. v \in Seq(X) /\ Len(v) = 3 /\ v[1] = x /\ v[2] = y /\ v[3] = z
  BY <1>1, <1>6
<1>8. \A i \in 1..3 : u[i] = v[i]
  BY <1>5, <1>7
<1>9. u = v
  BY <1>4, <1>5, <1>7, <1>8, SeqEqual
<1>10. <<y, z>> = Cat(One(y), One(z))
  BY PairIs
<1> QED
  BY <1>3, <1>6, <1>9, <1>10 DEF Cat, One

\* An event says its data, framed by the event line before it.
LEMMA AnthropicItemSays ==
  ASSUME NEW type \in AnthropicTypes, NEW data \in Datum, NEW kind, NEW i, NEW d,
         AnthropicEvent(type, data) = Ev(kind, i, d)
  PROVE  /\ kind = "content" => Hears("anthropic", AnthropicItem(type, data), One(d), Nil, Nil, Nil)
         /\ kind = "call" => Hears("anthropic", AnthropicItem(type, data), Nil, One(d), Nil, Nil)
         /\ kind = "args" => Hears("anthropic", AnthropicItem(type, data), Nil, Nil, One(d), Nil)
         /\ kind = "usage" => Hears("anthropic", AnthropicItem(type, data), Nil, Nil, Nil, One(d))
         /\ kind = "done" => Hears("anthropic", AnthropicItem(type, data), Nil, Nil, Nil, Nil)
         /\ kind # "done" => IsIn(AnthropicItem(type, data), GoOn("anthropic"))
         /\ FramedAlone(AnthropicItem(type, data))
<1> DEFINE p == "anthropic"
<1>1. PICK t, v, w : t = Line("event", type, "none") /\ v = Line("data", type, data) /\ w = Line("blank", "", "none")
  OBVIOUS
<1>2. /\ v.pre = "data" /\ v.type = type /\ v.data = data /\ w.pre = "blank" /\ w.type = ""
      /\ t.pre = "event" /\ t.type = type
  BY <1>1 DEF Line
<1>3. t \in WireLines /\ v \in WireLines /\ w \in WireLines
  <2>1. "none" \in Datum
    BY DEF Datum
  <2> QED
    BY <2>1, <1>1 DEF Line, WireLines, AnthropicTypes
<1>4. SseLine(t) = "Event" /\ SseLine(v) = "Data" /\ SseLine(w) = "Empty"
  BY <1>2 DEF SseLine, AnthropicTypes
<1>5. Made(p, t) = Ev("none", 0, "none") /\ Made(p, v) = Ev(kind, i, d) /\ Made(p, w) = Ev("none", 0, "none")
  BY <1>2, <1>4 DEF Made, LineEvent, NoEvent
<1>6. Units(p) = WireLines
  BY DEF Units
<1>7. Hears(p, One(t), Nil, Nil, Nil, Nil) /\ Hears(p, One(w), Nil, Nil, Nil, Nil)
  BY <1>3, <1>5, <1>6, HearsEvent
<1>8. AnthropicItem(type, data) = Cat(One(t), Cat(One(v), One(w)))
  BY <1>1 DEF AnthropicItem
<1>9. ASSUME NEW c, NEW l, NEW a, NEW u, Hears(p, One(v), c, l, a, u) PROVE Hears(p, AnthropicItem(type, data), c, l, a, u)
  <2>1. Hears(p, Cat(One(v), One(w)), Join(c, Nil), Join(l, Nil), Join(a, Nil), Join(u, Nil))
    BY <1>7, <1>9, HearsCat
  <2>2. \A x : Join(x, Nil) = x /\ Join(Nil, x) = x
    BY DEF Join
  <2>3. Hears(p, Cat(One(v), One(w)), c, l, a, u)
    BY <2>1, <2>2
  <2>4. Hears(p, Cat(One(t), Cat(One(v), One(w))), Join(Nil, c), Join(Nil, l), Join(Nil, a), Join(Nil, u))
    BY <2>3, <1>7, HearsCat
  <2> QED
    BY <2>2, <2>4, <1>8
<1>10. Made(p, t).kind = "none" /\ Made(p, v).kind = kind /\ Made(p, w).kind = "none"
  BY <1>5 DEF Ev
<1>11. t \in GoOn(p) /\ w \in GoOn(p) /\ (kind # "done" => v \in GoOn(p))
  BY <1>2, <1>3, <1>6, <1>10 DEF GoOn, Ends, AnthropicTypes
<1>12. ASSUME kind # "done" PROVE IsIn(AnthropicItem(type, data), GoOn(p))
  <2>1. IsIn(One(t), GoOn(p)) /\ IsIn(One(v), GoOn(p)) /\ IsIn(One(w), GoOn(p))
    BY <1>11, <1>12, OneIn
  <2>2. IsIn(Cat(One(v), One(w)), GoOn(p))
    BY <2>1, CatIn
  <2> QED
    BY <2>1, <2>2, <1>8, CatIn
<1>13. FramedAlone(AnthropicItem(type, data))
  <2>1. PICK s : s = <<t, v, w>>
    OBVIOUS
  <2>2. AnthropicItem(type, data) = s
    BY <2>1, <1>8, TripleIs
  <2>3. DOMAIN s = 1..3 /\ s[1] = t /\ s[2] = v /\ s[3] = w
    BY <2>1
  <2>4. ASSUME NEW k \in 1..3
        PROVE  /\ s[k].pre # "comment"
               /\ s[k].pre = "data" => k > 1 /\ s[k - 1].pre = "event" /\ s[k - 1].type = s[k].type
    <3>1. CASE k = 1
      BY <3>1, <2>3, <1>2
    <3>2. CASE k = 2
      <4>1. k - 1 = 1 /\ k > 1
        BY <3>2
      <4>2. s[k] = v /\ s[k - 1] = t
        BY <4>1, <3>2, <2>3
      <4> QED
        BY <4>1, <4>2, <1>2
    <3>3. CASE k = 3
      BY <3>3, <2>3, <1>2
    <3> QED
      BY <3>1, <3>2, <3>3
  <2>5. FramedAlone(s)
    BY <2>3, <2>4 DEF FramedAlone
  <2> QED
    BY <2>2, <2>5
<1>14. /\ kind = "content" => Hears(p, One(v), One(d), Nil, Nil, Nil)
       /\ kind = "call" => Hears(p, One(v), Nil, One(d), Nil, Nil)
       /\ kind = "args" => Hears(p, One(v), Nil, Nil, One(d), Nil)
       /\ kind = "usage" => Hears(p, One(v), Nil, Nil, Nil, One(d))
       /\ kind = "done" => Hears(p, One(v), Nil, Nil, Nil, Nil)
  BY <1>3, <1>5, <1>6, HearsEvent
<1> QED
  BY <1>9, <1>12, <1>13, <1>14

\* The lines of the last one.
LEMMA AnthropicStop ==
  ASSUME NEW ev, NEW z, NEW q, ev = Line("event", "message_stop", "none"), z = Line("data", "message_stop", "none"),
         q = Line("blank", "", "none")
  PROVE  ev \in GoOn("anthropic") /\ q \in Silent("anthropic") /\ z \in WireLines /\ Ends("anthropic", z)
<1> DEFINE p == "anthropic"
<1>1. /\ ev.pre = "event" /\ ev.type = "message_stop" /\ z.pre = "data" /\ z.type = "message_stop"
      /\ q.pre = "blank" /\ q.type = ""
  BY DEF Line
<1>2. ev \in WireLines /\ z \in WireLines /\ q \in WireLines
  <2>1. "none" \in Datum
    BY DEF Datum
  <2> QED
    BY <2>1 DEF Line, WireLines
<1>3. SseLine(ev) = "Event" /\ SseLine(z) = "Data" /\ SseLine(q) = "Empty"
  BY <1>1 DEF SseLine
<1>4. Made(p, ev) = Ev("none", 0, "none") /\ Made(p, q) = Ev("none", 0, "none") /\ Made(p, z) = Ev("done", 0, "none")
  BY <1>1, <1>3 DEF Made, LineEvent, NoEvent, AnthropicEvent
<1>5. Made(p, ev).kind = "none" /\ Made(p, q).kind = "none" /\ Made(p, z).kind = "done"
  <2>1. Ev("none", 0, "none").kind = "none" /\ Ev("done", 0, "none").kind = "done"
    BY DEF Ev
  <2> QED
    BY <2>1, <1>4
<1> QED
  BY <1>1, <1>2, <1>5 DEF GoOn, Silent, Ends, Units

\* The lines of a whole answer.
LEMMA AnthropicBegins ==
  ASSUME NEW r \in Responses
  PROVE  \E u : /\ Hears("anthropic", AnthropicWire(r), r.text, r.calls, r.calls, u)
                /\ UsageOwed([in |-> 0, out |-> 0], u, r.usage) /\ Ending("anthropic", AnthropicWire(r))
                /\ FramedAlone(AnthropicWire(r))
<1> DEFINE p == "anthropic"
<1>1. /\ IsIn(r.text, Tokens) /\ (\A k \in DOMAIN r.text : r.text[k] \in Tokens) /\ IsIn(r.calls, CallIds)
      /\ \A k \in DOMAIN r.calls : r.calls[k] \in CallIds /\ k = PlaceOf(r.calls[k])
      /\ r.usage.in \in Nat /\ r.usage.out \in Nat /\ r.usage = [in |-> r.usage.in, out |-> r.usage.out]
  BY ResponseType
<1>2. PICK first \in Nat : first = IF r.text = <<>> THEN 0 ELSE 1
  OBVIOUS
<1>3. PICK I : I = [x \in Tokens |-> AnthropicItem("text_delta", x)]
  OBVIOUS
<1>4. PICK J : J = [c \in CallIds |-> Cat(AnthropicItem("tool_use", <<first + PlaceOf(c) - 1, c>>),
                                          AnthropicItem("input_json_delta", <<first + PlaceOf(c) - 1, c>>))]
  OBVIOUS
<1>5. PICK a, y, e : /\ a = AnthropicItem("message_start", r.usage.in) /\ y = AnthropicItem("message_delta", r.usage.out)
                     /\ e = AnthropicItem("message_stop", "none")
  OBVIOUS
<1>6. /\ "message_start" \in AnthropicTypes /\ "text_delta" \in AnthropicTypes /\ "tool_use" \in AnthropicTypes
      /\ "input_json_delta" \in AnthropicTypes /\ "message_delta" \in AnthropicTypes /\ "message_stop" \in AnthropicTypes
      /\ r.usage.in \in Datum /\ r.usage.out \in Datum /\ "none" \in Datum
  BY <1>1 DEF AnthropicTypes, Datum
<1>7. ASSUME NEW x \in Tokens
      PROVE  Hears(p, I[x], One(x), Nil, Nil, Nil) /\ IsIn(I[x], GoOn(p)) /\ FramedAlone(I[x])
  <2>1. x \in Datum /\ AnthropicEvent("text_delta", x) = Ev("content", 0, x)
    BY DEF Tokens, Datum, AnthropicEvent
  <2>2. /\ Hears(p, AnthropicItem("text_delta", x), One(x), Nil, Nil, Nil) /\ IsIn(AnthropicItem("text_delta", x), GoOn(p))
        /\ FramedAlone(AnthropicItem("text_delta", x))
    BY <2>1, <1>6, AnthropicItemSays
  <2> QED
    BY <2>2, <1>3
<1>8. ASSUME NEW s, IsIn(s, GoOn(p)) PROVE IsIn(s, WireLines)
  <2>1. GoOn(p) \subseteq WireLines
    BY DEF GoOn, Units
  <2> QED
    BY <2>1, <1>8, IsInMono
<1>9. ASSUME NEW c \in CallIds
      PROVE  Hears(p, J[c], Nil, One(c), One(c), Nil) /\ IsIn(J[c], GoOn(p)) /\ FramedAlone(J[c])
  <2>0. PICK n \in Nat : n = first + PlaceOf(c) - 1
    BY <1>9 DEF PlaceOf, CallIds
  <2>1. PICK d : d = <<n, c>>
    OBVIOUS
  <2>2. d = <<n, c>> /\ d[1] = n /\ d[2] = c
    BY <2>1
  <2>3. d \in Datum
    BY <2>2, <1>9 DEF Datum, CallIds
  <2>4. AnthropicEvent("tool_use", d) = Ev("call", n, c) /\ AnthropicEvent("input_json_delta", d) = Ev("args", n, c)
    BY <2>2 DEF AnthropicEvent
  <2>5. PICK s, t : s = AnthropicItem("tool_use", d) /\ t = AnthropicItem("input_json_delta", d)
    OBVIOUS
  <2>6. /\ Hears(p, s, Nil, One(c), Nil, Nil) /\ IsIn(s, GoOn(p)) /\ FramedAlone(s)
        /\ Hears(p, t, Nil, Nil, One(c), Nil) /\ IsIn(t, GoOn(p)) /\ FramedAlone(t)
    <3>1. Hears(p, s, Nil, One(c), Nil, Nil) /\ IsIn(s, GoOn(p)) /\ FramedAlone(s)
      BY <2>3, <2>4, <2>5, <1>6, AnthropicItemSays
    <3>2. Hears(p, t, Nil, Nil, One(c), Nil) /\ IsIn(t, GoOn(p)) /\ FramedAlone(t)
      BY <2>3, <2>4, <2>5, <1>6, AnthropicItemSays
    <3> QED
      BY <3>1, <3>2
  <2>7. J[c] = Cat(s, t)
    BY <1>4, <2>0, <2>2, <2>5
  <2>8. Hears(p, J[c], Join(Nil, Nil), Join(One(c), Nil), Join(Nil, One(c)), Join(Nil, Nil))
    BY <2>6, <2>7, HearsCat
  <2>9. Join(Nil, Nil) = Nil /\ Join(One(c), Nil) = One(c) /\ Join(Nil, One(c)) = One(c)
    BY DEF Join
  <2>10. FramedAlone(J[c]) /\ IsIn(J[c], GoOn(p))
    BY <2>6, <2>7, <1>8, FramedCat, CatIn
  <2> QED
    BY <2>8, <2>9, <2>10
<1>10. PICK b1, b2 : b1 = FlatMap(I, r.text) /\ b2 = FlatMap(J, r.calls)
  OBVIOUS
<1>11. Hears(p, b1, r.text, Nil, Nil, Nil) /\ Hears(p, b2, Nil, r.calls, r.calls, Nil)
  <2>1. Hears(p, b1, r.text, Nil, Nil, Nil)
    BY <1>1, <1>7, <1>10, HearsEach
  <2>2. Hears(p, b2, Nil, r.calls, r.calls, Nil)
    BY <1>1, <1>9, <1>10, HearsEach
  <2> QED
    BY <2>1, <2>2
<1>12. IsIn(b1, GoOn(p)) /\ IsIn(b2, GoOn(p)) /\ FramedAlone(b1) /\ FramedAlone(b2)
  <2>1. Gives(I, Tokens, GoOn(p)) /\ Gives(J, CallIds, GoOn(p))
    BY <1>7, <1>9 DEF Gives
  <2>2. Gives(I, Tokens, WireLines) /\ Gives(J, CallIds, WireLines)
    BY <2>1, <1>8 DEF Gives
  <2>3. FramedAlone(b1) /\ FramedAlone(b2)
    BY <2>2, <1>1, <1>7, <1>9, <1>10, FramedEach
  <2> QED
    BY <2>1, <2>3, <1>1, <1>10, FlatMapType
<1>13. PICK d1, d2 : d1 = <<r.usage.in, 0>> /\ d2 = <<0, r.usage.out>>
  OBVIOUS
<1>14. /\ Hears(p, a, Nil, Nil, Nil, One(d1)) /\ IsIn(a, GoOn(p)) /\ FramedAlone(a)
       /\ Hears(p, y, Nil, Nil, Nil, One(d2)) /\ IsIn(y, GoOn(p)) /\ FramedAlone(y)
  <2>1. AnthropicEvent("message_start", r.usage.in) = Ev("usage", 0, d1)
        /\ AnthropicEvent("message_delta", r.usage.out) = Ev("usage", 0, d2)
    BY <1>13 DEF AnthropicEvent
  <2>2. Hears(p, a, Nil, Nil, Nil, One(d1)) /\ IsIn(a, GoOn(p)) /\ FramedAlone(a)
    BY <2>1, <1>5, <1>6, AnthropicItemSays
  <2>3. Hears(p, y, Nil, Nil, Nil, One(d2)) /\ IsIn(y, GoOn(p)) /\ FramedAlone(y)
    BY <2>1, <1>5, <1>6, AnthropicItemSays
  <2> QED
    BY <2>2, <2>3
<1>15. PICK ev, z, q : ev = Line("event", "message_stop", "none") /\ z = Line("data", "message_stop", "none")
                      /\ q = Line("blank", "", "none")
  OBVIOUS
<1>16. /\ Hears(p, e, Nil, Nil, Nil, Nil) /\ FramedAlone(e) /\ e = Cat(One(ev), Cat(One(z), One(q)))
       /\ ev \in GoOn(p) /\ q \in Silent(p) /\ z \in WireLines /\ Ends(p, z)
  <2>1. AnthropicEvent("message_stop", "none") = Ev("done", 0, "none")
    BY DEF AnthropicEvent
  <2>2. e = Cat(One(ev), Cat(One(z), One(q)))
    BY <1>5, <1>15 DEF AnthropicItem
  <2>3. Hears(p, e, Nil, Nil, Nil, Nil) /\ FramedAlone(e)
    BY <2>1, <1>5, <1>6, AnthropicItemSays
  <2> QED
    BY <2>2, <2>3, <1>15, AnthropicStop
<1>17. PICK w : w = Cat(Cat(Cat(a, b1), b2), y)
  OBVIOUS
<1>18. PICK u : u = Cat(One(d1), One(d2))
  OBVIOUS
<1>19. IsIn(w, GoOn(p)) /\ FramedAlone(w)
  <2>1. IsIn(Cat(a, b1), GoOn(p)) /\ FramedAlone(Cat(a, b1))
    BY <1>8, <1>12, <1>14, FramedCat, CatIn
  <2>2. IsIn(Cat(Cat(a, b1), b2), GoOn(p)) /\ FramedAlone(Cat(Cat(a, b1), b2))
    BY <2>1, <1>8, <1>12, FramedCat, CatIn
  <2> QED
    BY <2>2, <1>8, <1>14, <1>17, FramedCat, CatIn
<1>20. Hears(p, Cat(w, e), r.text, r.calls, r.calls, u)
  <2>1. \A x : Join(x, Nil) = x /\ Join(Nil, x) = x
    BY DEF Join
  <2>2. Join(One(d1), One(d2)) = u
    <3>1. One(d1) # Nil /\ One(d2) # Nil
      BY DEF One, Nil
    <3> QED
      BY <3>1, <1>18 DEF Join
  <2>3. Hears(p, Cat(a, b1), r.text, Nil, Nil, One(d1))
    <3>1. Hears(p, Cat(a, b1), Join(Nil, r.text), Join(Nil, Nil), Join(Nil, Nil), Join(One(d1), Nil))
      BY <1>11, <1>14, HearsCat
    <3> QED
      BY <3>1, <2>1
  <2>4. Hears(p, Cat(Cat(a, b1), b2), r.text, r.calls, r.calls, One(d1))
    <3>1. Hears(p, Cat(Cat(a, b1), b2), Join(r.text, Nil), Join(Nil, r.calls), Join(Nil, r.calls), Join(One(d1), Nil))
      BY <2>3, <1>11, HearsCat
    <3> QED
      BY <3>1, <2>1
  <2>5. Hears(p, w, r.text, r.calls, r.calls, u)
    <3>1. Hears(p, w, Join(r.text, Nil), Join(r.calls, Nil), Join(r.calls, Nil), Join(One(d1), One(d2)))
      BY <2>4, <1>14, <1>17, HearsCat
    <3> QED
      BY <3>1, <2>1, <2>2
  <2>6. Hears(p, Cat(w, e), Join(r.text, Nil), Join(r.calls, Nil), Join(r.calls, Nil), Join(u, Nil))
    BY <2>5, <1>16, HearsCat
  <2> QED
    BY <2>1, <2>6
<1>21. Ending(p, Cat(w, e))
  <2>1. IsIn(One(ev), GoOn(p)) /\ IsIn(One(q), Silent(p))
    BY <1>16, OneIn
  <2>2. IsIn(Cat(w, One(ev)), GoOn(p)) /\ Units(p) = WireLines /\ Silent(p) \subseteq WireLines
    BY <2>1, <1>19, CatIn DEF Units, Silent
  <2>3. IsIn(w, WireLines) /\ IsIn(One(ev), WireLines) /\ IsIn(One(z), WireLines) /\ IsIn(One(q), WireLines)
    BY <2>1, <2>2, <1>8, <1>16, <1>19, IsInMono, OneIn
  <2>4. IsIn(Cat(One(z), One(q)), WireLines)
    BY <2>3, CatIn
  <2>5. Cat(w, e) = Cat(Cat(w, One(ev)), Cat(One(z), One(q)))
    BY <2>3, <2>4, <1>16, CatLaws
  <2> QED
    BY <2>1, <2>2, <2>5, <1>16 DEF Ending
<1>22. FramedAlone(Cat(w, e))
  <2>1. IsIn(e, WireLines)
    BY <1>16 DEF Hears, Units
  <2> QED
    BY <2>1, <1>8, <1>16, <1>19, FramedCat
<1>23. UsageOwed([in |-> 0, out |-> 0], u, r.usage)
  <2>1. Plus([in |-> 0, out |-> 0], d1) = [in |-> r.usage.in, out |-> 0]
    BY <1>1, <1>13 DEF Plus
  <2>2. Plus([in |-> r.usage.in, out |-> 0], d2) = r.usage
    BY <1>1, <1>13 DEF Plus
  <2> QED
    BY <2>1, <2>2, <1>18 DEF UsageOwed
<1>24. AnthropicWire(r) = Cat(w, e)
  <2> DEFINE item(type, data) == <<Line("event", type, "none"), Line("data", type, data), Line("blank", "", "none")>>
  <2>1. \A type, data : item(type, data) = AnthropicItem(type, data)
    BY TripleIs DEF AnthropicItem
  <2>2. [k \in DOMAIN r.text |-> item("text_delta", r.text[k])] = Each(I, r.text)
    BY <2>1, <1>1, <1>3 DEF Each
  <2>3. [k \in DOMAIN r.calls |-> item("tool_use", <<first + k - 1, r.calls[k]>>)
                                  \o item("input_json_delta", <<first + k - 1, r.calls[k]>>)]
        = Each(J, r.calls)
    <3>1. \A k \in DOMAIN r.calls :
            item("tool_use", <<first + k - 1, r.calls[k]>>) \o item("input_json_delta", <<first + k - 1, r.calls[k]>>)
              = J[r.calls[k]]
      BY <2>1, <1>1, <1>4 DEF Cat
    <3> QED
      BY <3>1 DEF Each
  <2>4. item("message_start", r.usage.in) = a /\ item("message_delta", r.usage.out) = y /\ item("message_stop", "none") = e
    BY <2>1, <1>5
  <2>5. AnthropicWire(r) = item("message_start", r.usage.in)
          \o Flat([k \in DOMAIN r.text |-> item("text_delta", r.text[k])])
          \o Flat([k \in DOMAIN r.calls |-> item("tool_use", <<first + k - 1, r.calls[k]>>)
                                            \o item("input_json_delta", <<first + k - 1, r.calls[k]>>)])
          \o item("message_delta", r.usage.out) \o item("message_stop", "none")
    BY <1>2 DEF AnthropicWire
  <2> HIDE DEF item
  <2> QED
    BY <2>2, <2>3, <2>4, <2>5, <1>10, <1>17 DEF Cat, FlatMap
<1> QED
  BY <1>20, <1>21, <1>22, <1>23, <1>24

\* The stub's fixture is the response it was given.
LEMMA FixtureFound == \A r : FixtureFor(<<[matches |-> {"q"}, response |-> r]>>, NoStream, "q") = r
<1> SUFFICES ASSUME NEW r PROVE FixtureFor(<<[matches |-> {"q"}, response |-> r]>>, NoStream, "q") = r
  OBVIOUS
<1>1. PICK entries : entries = <<[matches |-> {"q"}, response |-> r]>>
  OBVIOUS
<1>2. DOMAIN entries = {1} /\ entries[1].matches = {"q"} /\ entries[1].response = r
  BY <1>1
<1>3. {k \in DOMAIN entries : "q" \in entries[k].matches} = {1}
  BY <1>2
<1>4. Min({1}) = 1
  BY DEF Min
<1> QED
  BY <1>1, <1>2, <1>3, <1>4 DEF FixtureFor

\* An answer starts.
LEMMA StreamStarts ==
  ASSUME stream = NoStream, NEW p \in Providers, NEW r \in Responses, p = "ollama" => r.calls = << >>, StartStream(p, r)
  PROVE  StreamOk(stream')
<1>1. PICK s2 : s2 = stream'
  OBVIOUS
<1>2. PICK ls, es, w : /\ ls = Wire(p, r) /\ w = Completed(r)
                       /\ es = IF p = "stub" THEN StubEvents(r) ELSE << >>
  OBVIOUS
<1>3. s2 = [NoStream EXCEPT !.on = TRUE, !.provider = p, !.lines = ls, !.events = es, !.want = w]
  BY <1>1, <1>2, FixtureFound DEF StartStream
<1>4. DOMAIN NoStream = StreamFields /\ NoStream.ended = FALSE /\ NoStream.noise = 0
  BY DEF NoStream, StreamFields
<1>5. /\ DOMAIN s2 = StreamFields /\ s2.on = TRUE /\ s2.ended = FALSE /\ s2.provider = p /\ s2.lines = ls /\ s2.events = es
      /\ s2.want = w /\ s2.got = NoStream.got /\ s2.noise = 0
  BY <1>3, <1>4 DEF StreamFields
<1>6. PICK rest : rest = IF p = "stub" THEN es ELSE ls
  OBVIOUS
<1>7. Rest(s2) = rest /\ (IF p = "stub" THEN s2.lines = << >> ELSE s2.events = << >>)
  BY <1>2, <1>5, <1>6 DEF Rest, Wire
<1>8. PICK u : /\ Hears(p, rest, r.text, r.calls, r.calls, u) /\ UsageOwed([in |-> 0, out |-> 0], u, r.usage)
               /\ Ending(p, rest) /\ (p = "anthropic" => FramedAlone(rest))
  <2>1. CASE p = "ollama"
    <3>1. rest = NdjsonWire(r) /\ r.calls = Nil
      BY <2>1, <1>2, <1>6 DEF Wire, Nil
    <3> QED
      BY <3>1, <2>1, NdjsonBegins
  <2>2. CASE p = "anthropic"
    <3>1. rest = AnthropicWire(r)
      BY <2>2, <1>2, <1>6 DEF Wire
    <3> QED
      BY <3>1, <2>2, AnthropicBegins
  <2>3. CASE p = "openai"
    <3>1. rest = OpenAiWire(r)
      BY <2>3, <1>2, <1>6 DEF Wire
    <3> QED
      BY <3>1, <2>3, OpenAiBegins
  <2>4. CASE p = "stub"
    <3>1. rest = StubEvents(r)
      BY <2>4, <1>2, <1>6
    <3> QED
      BY <3>1, <2>4, StubBegins
  <2> QED
    BY <2>1, <2>2, <2>3, <2>4 DEF Providers
<1>9. UnderWay(s2)
  BY <1>2, <1>5, <1>7, <1>8, StreamBegins
<1> QED
  BY <1>1, <1>9 DEF StreamOk

\* Every step of an answer or of the gateway.
LEMMA AnswerSteps ==
  ASSUME StreamOk(stream), IsIn(conv, Messages), [GatewayNext \/ AnswerNext]_llmVars
  PROVE  StreamOk(stream') /\ IsIn(conv', Messages)
<1>1. CASE UNCHANGED <<stream, conv>>
  BY <1>1
<1>2. CASE \E m \in Messages : Say(m)
  <2>1. PICK m \in Messages : Say(m)
    BY <1>2
  <2>2. conv \in Seq(Messages)
    BY DEF IsIn
  <2>3. Append(conv, m) \in Seq(Messages)
    BY <2>2, AppendProperties
  <2>4. conv' = Append(conv, m) /\ stream' = stream
    BY <2>1 DEF Say
  <2> QED
    BY <2>3, <2>4 DEF IsIn
<1>3. ASSUME ReadLine \/ KeepAlive \/ ReadEvent PROVE StreamOk(stream') /\ conv' = conv
  <2>1. conv' = conv /\ stream.on /\ ~stream.ended
    BY <1>3 DEF ReadLine, KeepAlive, ReadEvent
  <2>2. ~NoStream.on
    BY DEF NoStream
  <2>3. UnderWay(stream)
    BY <2>1, <2>2 DEF StreamOk
  <2> QED
    BY <2>1, <2>3, <1>3, StreamReads, StreamKeepsAlive, StreamTakesEvents
<1>4. ASSUME NEW p \in Providers, NEW r \in Responses, p = "ollama" => r.calls = << >>, StartStream(p, r)
      PROVE  StreamOk(stream') /\ conv' = conv
  <2>1. conv' = conv /\ ~stream.on
    BY <1>4 DEF StartStream
  <2>2. stream = NoStream
    BY <2>1 DEF StreamOk, UnderWay
  <2> QED
    BY <2>1, <2>2, <1>4, StreamStarts
<1>5. GatewayNext => UNCHANGED <<stream, conv>>
  BY DEF GatewayNext, CheckLimit, Succeed, Fail, LlmTick
<1>6. UNCHANGED llmVars => UNCHANGED <<stream, conv>>
  BY DEF llmVars
<1>7. AnswerNext => \/ \E m \in Messages : Say(m)
                    \/ \E p \in Providers, r \in Responses : (p = "ollama" => r.calls = << >>) /\ StartStream(p, r)
                    \/ ReadLine \/ KeepAlive \/ ReadEvent
  BY DEF AnswerNext, Providers
<1> QED
  BY <1>1, <1>2, <1>3, <1>4, <1>5, <1>6, <1>7

(* --------------------- the gateway: charges ----------------------------- *)
\* The element a fold over a set takes next.
Chosen(s) == CHOOSE x \in s : TRUE

\* Subsets of a finite set, built up by adding the chosen element.
LEMMA SubsetInduct ==
  ASSUME NEW C, IsFiniteSet(C), NEW T, {} \in T,
         \A s \in SUBSET C : s # {} /\ s \ {Chosen(s)} \in T => s \in T
  PROVE  \A s \in SUBSET C : s \in T
<1>1. PICK N : N = {n \in Nat : \A s \in SUBSET C : Cardinality(s) = n => s \in T}
  OBVIOUS
<1>2. \A s \in SUBSET C : IsFiniteSet(s) /\ Cardinality(s) \in Nat /\ (Cardinality(s) = 0 <=> s = {})
  BY FS_Subset, FS_CardinalityType, FS_EmptySet
<1>3. 0 \in N
  BY <1>1, <1>2
<1>4. ASSUME NEW n \in Nat, n \in N PROVE n + 1 \in N
  <2> SUFFICES ASSUME NEW s \in SUBSET C, Cardinality(s) = n + 1 PROVE s \in T
    BY <1>1
  <2>1. s # {}
    BY <1>2
  <2>2. Chosen(s) \in s
    BY <2>1 DEF Chosen
  <2>3. s \ {Chosen(s)} \in SUBSET C /\ Cardinality(s \ {Chosen(s)}) = n
    BY <2>2, <1>2, FS_RemoveElement
  <2> QED
    BY <2>1, <2>3, <1>1, <1>4
<1>5. \A n \in Nat : n \in N
  BY <1>3, <1>4, SetInduction
<1> QED
  BY <1>1, <1>2, <1>5

\* FoldSet's loop: the sums of the charges of every set of workspaces.
Summing(f, D, by) ==
  f = [s \in D |-> IF s = {} THEN 0 ELSE f[s \ {Chosen(s)}] + by[Chosen(s)]]

\* There is such a loop.
LEMMA SummingRuns ==
  ASSUME NEW C, IsFiniteSet(C), NEW by
  PROVE  \E f : Summing(f, SUBSET C, by)
<1>0. PICK small : small = [n \in Nat |-> {s \in SUBSET C : Cardinality(s) <= n}]
  OBVIOUS
<1>1. PICK N : N = {n \in Nat : \E f : Summing(f, small[n], by)}
  OBVIOUS
<1>2. \A s \in SUBSET C : IsFiniteSet(s) /\ Cardinality(s) \in Nat /\ (Cardinality(s) = 0 <=> s = {})
  BY FS_Subset, FS_CardinalityType, FS_EmptySet
<1>3. 0 \in N
  <2>1. PICK f : f = [s \in small[0] |-> 0]
    OBVIOUS
  <2>2. \A s \in small[0] : s = {}
    BY <1>0, <1>2
  <2>3. Summing(f, small[0], by)
    BY <2>1, <2>2 DEF Summing
  <2> QED
    BY <2>3, <1>1
<1>4. ASSUME NEW n \in Nat, n \in N PROVE n + 1 \in N
  <2>1. PICK f : Summing(f, small[n], by)
    BY <1>1, <1>4
  <2>2. PICK g : g = [s \in small[n + 1] |-> IF s = {} THEN 0 ELSE f[s \ {Chosen(s)}] + by[Chosen(s)]]
    OBVIOUS
  <2>3. \A s \in small[n] : s \in small[n + 1] /\ g[s] = f[s]
    <3> TAKE s \in small[n]
    <3>1. s \in small[n + 1]
      BY <1>0, <1>2
    <3>2. f[s] = IF s = {} THEN 0 ELSE f[s \ {Chosen(s)}] + by[Chosen(s)]
      BY <2>1 DEF Summing
    <3>3. g[s] = IF s = {} THEN 0 ELSE f[s \ {Chosen(s)}] + by[Chosen(s)]
      BY <2>2, <3>1
    <3> QED
      BY <3>1, <3>2, <3>3
  <2>4. ASSUME NEW s \in small[n + 1], s # {} PROVE s \ {Chosen(s)} \in small[n]
    <3>1. s \in SUBSET C /\ Chosen(s) \in s /\ Cardinality(s) <= n + 1
      BY <2>4, <1>0 DEF Chosen
    <3>2. s \ {Chosen(s)} \in SUBSET C /\ Cardinality(s \ {Chosen(s)}) = Cardinality(s) - 1
      BY <3>1, <1>2, FS_RemoveElement
    <3> QED
      BY <3>1, <3>2, <1>0, <1>2
  <2>5. \A s \in small[n + 1] : g[s] = IF s = {} THEN 0 ELSE g[s \ {Chosen(s)}] + by[Chosen(s)]
    BY <2>2, <2>3, <2>4
  <2>6. Summing(g, small[n + 1], by)
    BY <2>2, <2>5 DEF Summing
  <2> QED
    BY <2>6, <1>1
<1>5. \A n \in Nat : n \in N
  BY <1>3, <1>4, SetInduction
<1>6. Cardinality(C) \in Nat /\ small[Cardinality(C)] = SUBSET C
  BY <1>0, <1>2, FS_Subset, FS_CardinalityType
<1> QED
  BY <1>1, <1>5, <1>6

\* What the fold takes from it.
ChargedSum(C, by) == FoldSet(LAMBDA w, acc : acc + by[w], 0, C)

\* The fold is the loop's value for all of them.
LEMMA ChargedSumIs ==
  ASSUME NEW C, IsFiniteSet(C), NEW by
  PROVE  \E f : Summing(f, SUBSET C, by) /\ ChargedSum(C, by) = f[C]
<1>1. PICK f : f = CHOOSE g : g = [s \in SUBSET C |-> IF s = {} THEN 0
                                   ELSE g[s \ {CHOOSE x \in s : TRUE}] + by[CHOOSE x \in s : TRUE]]
  OBVIOUS
<1>2. \E g : g = [s \in SUBSET C |-> IF s = {} THEN 0
                    ELSE g[s \ {CHOOSE x \in s : TRUE}] + by[CHOOSE x \in s : TRUE]]
  <2>1. PICK g : Summing(g, SUBSET C, by)
    BY SummingRuns
  <2> QED
    BY <2>1 DEF Summing, Chosen
<1>3. Summing(f, SUBSET C, by)
  BY <1>1, <1>2 DEF Summing, Chosen
<1>4. ChargedSum(C, by) = f[C]
  BY <1>1 DEF ChargedSum, FoldSet, MapThenFoldSet
<1> QED
  BY <1>3, <1>4

\* A charge to one workspace adds itself to the sum.
LEMMA ChargedSumMoves ==
  ASSUME NEW C, IsFiniteSet(C), NEW by \in [C -> Nat], NEW w \in C, NEW m \in Nat
  PROVE  /\ ChargedSum(C, [by EXCEPT ![w] = @ + m]) = ChargedSum(C, by) + m
         /\ ChargedSum(C, by) \in Nat
<1>1. PICK by2 : by2 = [by EXCEPT ![w] = @ + m]
  OBVIOUS
<1>2. PICK f : Summing(f, SUBSET C, by) /\ ChargedSum(C, by) = f[C]
  BY ChargedSumIs
<1>3. PICK g : Summing(g, SUBSET C, by2) /\ ChargedSum(C, by2) = g[C]
  BY ChargedSumIs
<1>4. PICK T : T = {s \in SUBSET C : f[s] \in Nat /\ g[s] = IF w \in s THEN f[s] + m ELSE f[s]}
  OBVIOUS
<1>5. \A s \in SUBSET C : f[s] = IF s = {} THEN 0 ELSE f[s \ {Chosen(s)}] + by[Chosen(s)]
  BY <1>2 DEF Summing
<1>6. \A s \in SUBSET C : g[s] = IF s = {} THEN 0 ELSE g[s \ {Chosen(s)}] + by2[Chosen(s)]
  BY <1>3 DEF Summing
<1>7. {} \in T
  <2>1. {} \in SUBSET C
    OBVIOUS
  <2>2. f[{}] = 0 /\ g[{}] = 0
    BY <2>1, <1>5, <1>6
  <2> QED
    BY <2>1, <2>2, <1>4
<1>8. ASSUME NEW s \in SUBSET C, s # {}, s \ {Chosen(s)} \in T PROVE s \in T
  <2>1. PICK c : c = Chosen(s) /\ c \in s
    BY <1>8 DEF Chosen
  <2>2. PICK r : r = s \ {c}
    OBVIOUS
  <2>3. f[r] \in Nat /\ g[r] = IF w \in r THEN f[r] + m ELSE f[r]
    BY <1>4, <1>8, <2>1, <2>2
  <2>4. f[s] = f[r] + by[c] /\ g[s] = g[r] + by2[c]
    BY <1>5, <1>6, <1>8, <2>1, <2>2
  <2>5. by[c] \in Nat /\ by2[c] = IF c = w THEN by[c] + m ELSE by[c]
    BY <1>1, <2>1
  <2>6. w \in s <=> (w \in r \/ w = c)
    BY <2>1, <2>2
  <2>7. w = c => w \notin r
    BY <2>2
  <2>8. f[s] \in Nat /\ g[s] = IF w \in s THEN f[s] + m ELSE f[s]
    BY <2>3, <2>4, <2>5, <2>6, <2>7
  <2> QED
    BY <2>8, <1>4
<1>9. C \in T
  BY <1>7, <1>8, SubsetInduct
<1> QED
  BY <1>1, <1>2, <1>3, <1>4, <1>9

\* No charge at all.
LEMMA ChargedSumZero ==
  ASSUME NEW C, IsFiniteSet(C)
  PROVE  ChargedSum(C, [w \in C |-> 0]) = 0
<1>1. PICK by : by = [w \in C |-> 0]
  OBVIOUS
<1>2. PICK f : Summing(f, SUBSET C, by) /\ ChargedSum(C, by) = f[C]
  BY ChargedSumIs
<1>3. PICK T : T = {s \in SUBSET C : f[s] = 0}
  OBVIOUS
<1>4. \A s \in SUBSET C : f[s] = IF s = {} THEN 0 ELSE f[s \ {Chosen(s)}] + by[Chosen(s)]
  BY <1>2 DEF Summing
<1>5. {} \in T
  BY <1>3, <1>4
<1>6. ASSUME NEW s \in SUBSET C, s # {}, s \ {Chosen(s)} \in T PROVE s \in T
  <2>1. Chosen(s) \in s
    BY <1>6 DEF Chosen
  <2> QED
    BY <2>1, <1>1, <1>3, <1>4, <1>6
<1>7. C \in T
  BY <1>5, <1>6, SubsetInduct
<1> QED
  BY <1>1, <1>2, <1>3, <1>7

\* The charges of the workspaces are within the total.
ChargesOk(s) ==
  /\ s.by \in [CostCentres -> Nat] /\ s.total \in Nat
  /\ ChargedSum(CostCentres, s.by) <= s.total

\* One charge more, to a workspace or to none.
LEMMA ChargeAdds ==
  ASSUME ChargesOk(spent), NEW ws \in CostCentres \cup {"none"}, NEW micros \in Nat, Charge(ws, micros)
  PROVE  ChargesOk(spent')
<1>0. IsFiniteSet(CostCentres)
  BY LlmAssumption
<1>1. PICK by \in [CostCentres -> Nat], total \in Nat :
         by = spent.by /\ total = spent.total /\ ChargedSum(CostCentres, by) <= total
  BY DEF ChargesOk
<1>2. spent'.total = total + micros /\ total + micros \in Nat
      /\ spent'.by = IF ws = "none" THEN by ELSE [by EXCEPT ![ws] = @ + micros]
  BY <1>1 DEF Charge
<1>3. CASE ws = "none"
  <2>1. PICK n \in Nat : n = ChargedSum(CostCentres, by)
    <3>1. CASE CostCentres = {}
      <4>1. by = [w \in CostCentres |-> 0]
        BY <1>1, <3>1
      <4> QED
        BY <4>1, <1>0, ChargedSumZero
    <3>2. CASE CostCentres # {}
      BY <3>2, <1>0, <1>1, ChargedSumMoves
    <3> QED
      BY <3>1, <3>2
  <2>2. n <= total + micros /\ spent'.by = by
    BY <2>1, <1>1, <1>2, <1>3
  <2> QED
    BY <2>1, <2>2, <1>1, <1>2 DEF ChargesOk
<1>4. CASE ws # "none"
  <2>1. ws \in CostCentres
    BY <1>4
  <2>2. PICK more : more = [by EXCEPT ![ws] = @ + micros]
    OBVIOUS
  <2>3. more \in [CostCentres -> Nat]
    BY <2>1, <2>2, <1>1
  <2>4. PICK n \in Nat : n = ChargedSum(CostCentres, by) /\ ChargedSum(CostCentres, more) = n + micros
    BY <2>1, <2>2, <1>0, <1>1, ChargedSumMoves
  <2>5. n + micros <= total + micros
    BY <2>4, <1>1
  <2> QED
    BY <2>2, <2>3, <2>4, <2>5, <1>2, <1>4 DEF ChargesOk
<1> QED
  BY <1>3, <1>4

\* Only a completion charges, and never less than nothing.
LEMMA ChargesSteps ==
  ASSUME ChargesOk(spent), [GatewayNext \/ AnswerNext]_llmVars
  PROVE  ChargesOk(spent')
<1>1. ASSUME NEW u \in LlmCallers, NEW model \in Models, NEW usage \in Usages,
             NEW ws \in CostCentres \cup {"none"}, Succeed(u, model, usage, ws)
      PROVE  ChargesOk(spent')
  <2>1. ASSUME NEW p \in LookupPricing(model), Charge(ws, CalculateCost(usage, p))
        PROVE  ChargesOk(spent')
    <3>1. usage.in \in Nat /\ usage.out \in Nat /\ p.in \in Nat /\ p.out \in Nat
      BY PriceFound DEF Usages
    <3>2. PICK a \in Nat, b \in Nat : a = usage.in * p.in /\ b = usage.out * p.out
      BY <3>1
    <3>3. a \div PriceUnit \in Nat /\ b \div PriceUnit \in Nat
      BY Truncated, LlmAssumption
    <3>4. CalculateCost(usage, p) \in Nat
      BY <3>2, <3>3 DEF CalculateCost
    <3> QED
      BY <3>4, <2>1, ChargeAdds
  <2>2. CASE UNCHANGED spent
    BY <2>2
  <2> QED
    BY <1>1, <2>1, <2>2 DEF Succeed
<1>2. CASE UNCHANGED spent
  BY <1>2
<1>3. GatewayNext => UNCHANGED spent \/ ChargesOk(spent')
  BY <1>1 DEF GatewayNext, CheckLimit, Fail, LlmTick
<1>4. AnswerNext => UNCHANGED spent
  BY DEF AnswerNext, Say, StartStream, ReadLine, KeepAlive, ReadEvent
<1>5. UNCHANGED llmVars => UNCHANGED spent
  BY DEF llmVars
<1> QED
  BY <1>2, <1>3, <1>4, <1>5

(* --------------------- the gateway: the theorem ------------------------- *)
LlmInv ==
  /\ GatewayOk(recent, llmNow, user, spent.total, exact) /\ ChargesOk(spent)
  /\ IsIn(conv, Messages) /\ StreamOk(stream)

\* The gateway starts idle.
LEMMA LlmInvInit == LlmInit => LlmInv
<1> SUFFICES ASSUME LlmInit PROVE LlmInv
  OBVIOUS
<1>1. GatewayOk(recent, llmNow, user, spent.total, exact)
  <2>1. recent = << >> /\ llmNow = 0 /\ user = [u \in LlmCallers |-> Caller("idle", 0, 0)]
        /\ spent.total = 0 /\ exact.cost = 0 /\ exact.count = 0
    BY DEF LlmInit
  <2>2. recent \in Seq(LogEntry) /\ DOMAIN recent = {} /\ DOMAIN user = LlmCallers
    BY <2>1
  <2>3. Fresh(recent, llmNow) = {} /\ Sent(user) = {}
    BY <2>1, <2>2 DEF Fresh, Sent, Caller
  <2>4. Cardinality({}) = 0 /\ MaxRequests \in Nat /\ Cardinality(LlmCallers) \in Nat
    BY FS_EmptySet, LlmAssumption, SentFinite
  <2>5. Overshoot(recent, llmNow, user)
    BY <2>3, <2>4 DEF Overshoot
  <2>6. PriceUnit \in Nat
    BY LlmAssumption
  <2>7. CostsOk(spent.total, exact)
    BY <2>1, <2>6 DEF CostsOk
  <2> QED
    BY <2>1, <2>2, <2>5, <2>7 DEF GatewayOk
<1>2. ChargesOk(spent)
  <2>1. spent.total = 0 /\ spent.by = [w \in CostCentres |-> 0]
    BY DEF LlmInit
  <2>2. ChargedSum(CostCentres, spent.by) = 0
    BY <2>1, LlmAssumption, ChargedSumZero
  <2>3. spent.by \in [CostCentres -> Nat]
    BY <2>1
  <2> QED
    BY <2>1, <2>2, <2>3 DEF ChargesOk
<1>3. IsIn(conv, Messages) /\ StreamOk(stream)
  BY DEF LlmInit, IsIn, StreamOk
<1> QED
  BY <1>1, <1>2, <1>3 DEF LlmInv

\* Every step keeps the four parts.
LEMMA LlmInvNext ==
  ASSUME LlmInv, [GatewayNext \/ AnswerNext]_llmVars
  PROVE  LlmInv'
<1>1. /\ GatewayOk(recent, llmNow, user, spent.total, exact) /\ ChargesOk(spent)
      /\ IsIn(conv, Messages) /\ StreamOk(stream)
  BY DEF LlmInv
<1>2. GatewayOk(recent', llmNow', user', spent'.total, exact')
  <2>1. CASE GatewayNext
    BY <2>1, <1>1, GatewaySteps
  <2>2. CASE AnswerNext
    BY <2>2, <1>1 DEF AnswerNext, Say, StartStream, ReadLine, KeepAlive, ReadEvent
  <2>3. CASE UNCHANGED llmVars
    BY <2>3, <1>1 DEF llmVars
  <2> QED
    BY <2>1, <2>2, <2>3
<1>3. ChargesOk(spent')
  BY <1>1, ChargesSteps
<1>4. StreamOk(stream') /\ IsIn(conv', Messages)
  BY <1>1, AnswerSteps
<1>5. GatewayOk(recent, llmNow, user, spent.total, exact)'
  BY <1>2 DEF GatewayOk, Overshoot, Fresh, Sent, CostsOk
<1>6. ChargesOk(spent)'
  BY <1>3
<1>7. StreamOk(stream)' /\ IsIn(conv, Messages)'
  BY <1>4
<1> QED
  BY <1>5, <1>6, <1>7 DEF LlmInv

\* They say that the gateway is sound.
LEMMA LlmInvImplies == LlmInv => GatewaySound
<1> SUFFICES ASSUME LlmInv PROVE GatewaySound
  OBVIOUS
<1>1. OvershootBounded /\ CostsExact
  BY DEF LlmInv, GatewayOk, Overshoot, Fresh, Sent, CostsOk, OvershootBounded, InWindow, CostsExact
<1>2. ChargedWithinTotal
  BY DEF LlmInv, ChargesOk, ChargedSum, ChargedWithinTotal
<1>3. RequestsKeepTools
  BY ToolsReachProviders DEF LlmInv
<1>4. StreamAgrees
  BY DEF LlmInv, StreamOk, UnderWay, NoStream, StreamAgrees
<1> QED
  BY <1>1, <1>2, <1>3, <1>4 DEF GatewaySound

\* For any callers, limits, cost centres and unit of prices, over any
\* interleaving of checks, completions, failures and reads: the limiter is
\* passed by no more requests than there are other callers; what is charged
\* differs from what the completions cost by less than two truncations for
\* each, and the workspaces' charges are within the total; every tool call and
\* result said, in a conversation of any length, reaches both providers in its
\* order; and an answer read line by line, keep-alive comments between them, is
\* the answer a plain completion gives (rate_limit.rs, cost.rs, stream.rs and
\* the providers).
THEOREM GatewayAlwaysSound == LlmSpec => []GatewaySound
<1>1. LlmInit => LlmInv
  BY LlmInvInit
<1>2. LlmInv /\ [GatewayNext \/ AnswerNext]_llmVars => LlmInv'
  BY LlmInvNext
<1>3. LlmInv => GatewaySound
  BY LlmInvImplies
<1> QED
  BY <1>1, <1>2, <1>3, PTL DEF LlmSpec
=============================================================================
