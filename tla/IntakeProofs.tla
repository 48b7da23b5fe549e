---------------------------- MODULE IntakeProofs ----------------------------
(***************************************************************************)
(* Theorems about Intake, for every set of messages, tasks, batches and    *)
(* faults, both settings of FORWARD_ENABLED and every bound.               *)
(***************************************************************************)
EXTENDS Intake, FiniteSetTheorems, WellFoundedInduction, TLAPS

-----------------------------------------------------------------------------
(* Induction.  The library's induction rules take an operator, which the    *)
(* provers cannot instantiate; that a set of numbers has a least member is  *)
(* a fact about sets, and serves as well.                                   *)

\* Every set of numbers that has a member has a least one.
LEMMA LeastNumber ==
  ASSUME NEW T \in SUBSET Nat, T # {}
  PROVE  \E n \in T : \A m \in T : n <= m
<1>1. PICK n \in T : \A m \in T : ~ (<<m, n>> \in OpToRel(<, Nat))
  BY NatLessThanWellFounded, WFMin
<1>2. ASSUME NEW m \in T, m < n PROVE FALSE
  <2>1. <<m, n>> \in Nat \X Nat /\ <<m, n>>[1] < <<m, n>>[2]
    BY <1>2
  <2>2. <<m, n>> \in OpToRel(<, Nat)
    BY <2>1, Zenon DEF OpToRel
  <2>3. QED
    BY <1>1, <2>2
<1>3. QED
  BY <1>2

\* A set that holds 0, and with each number up to N the next one, holds 0..N.
LEMMA CountingUp ==
  ASSUME NEW N \in Nat, NEW T, 0 \in T, \A n \in 0..N : n \in T /\ n < N => n + 1 \in T
  PROVE  0..N \subseteq T
<1> DEFINE missing == (0..N) \ T
<1>1. SUFFICES ASSUME missing # {} PROVE FALSE
  OBVIOUS
<1>0. missing \in SUBSET Nat
  OBVIOUS
<1>2. PICK n \in missing : \A m \in missing : n <= m
  <2> HIDE DEF missing
  <2>1. QED
    BY <1>0, <1>1, LeastNumber
<1>3. n \in 1..N /\ n - 1 \in 0..N /\ n - 1 \notin missing
  BY <1>2
<1>4. n - 1 \in T /\ n - 1 < N
  BY <1>3
<1>5. (n - 1) + 1 \in T
  BY <1>3, <1>4
<1>6. QED
  BY <1>2, <1>3, <1>5

\* What Register keeps of the memory and of the fresh ids, Registered keeps
\* over a whole batch: G is any set of such pairs.
LEMMA RegisteredKeeps ==
  ASSUME NEW batch \in Seq(Messages), NEW G,
         [ids |-> processed, fresh |-> <<>>] \in G,
         \A seen \in G, m \in Messages : Register(seen, m) \in G
  PROVE  Registered(batch) \in G
<1> DEFINE N == Len(batch)
           base == [ids |-> processed, fresh |-> <<>>]
           Follows(f, k) == /\ f[0] = base
                            /\ \A i \in 1..k : f[i] = Register(f[i - 1], batch[i])
           T == {k \in 0..N : \E f \in [0..k -> G] : Follows(f, k)}
           Recurs(f) == f = [i \in 0..N |-> IF i = 0 THEN base
                                            ELSE Register(f[i - 1], batch[i])]
           after == CHOOSE f : Recurs(f)
<1>0. N \in Nat /\ \A i \in 1..N : batch[i] \in Messages
  OBVIOUS
<1>1. 0 \in T
  <2>1. [i \in 0..0 |-> base] \in [0..0 -> G]
    OBVIOUS
  <2>2. Follows([i \in 0..0 |-> base], 0)
    OBVIOUS
  <2> HIDE DEF base, Follows
  <2>3. \E f \in [0..0 -> G] : Follows(f, 0)
    BY <2>1, <2>2
  <2>4. 0 \in 0..N
    BY <1>0
  <2>5. QED
    BY <2>3, <2>4
<1>2. ASSUME NEW k \in 0..N, k \in T, k < N PROVE k + 1 \in T
  <2>1. PICK f \in [0..k -> G] : Follows(f, k)
    BY <1>2
  <2> DEFINE g == [i \in 0..(k + 1) |-> IF i = k + 1 THEN Register(f[k], batch[k + 1])
                                        ELSE f[i]]
  <2>2. batch[k + 1] \in Messages /\ f[k] \in G
    BY <1>0, <1>2, <2>1
  <2>3. g \in [0..(k + 1) -> G]
    BY <2>2
  <2>4. Follows(g, k + 1)
    BY <1>2, <2>1
  <2>5. k + 1 \in 0..N
    BY <1>0, <1>2
  <2> HIDE DEF g, Follows
  <2>6. QED
    BY <2>3, <2>4, <2>5
<1>3. N \in T
  <2> HIDE DEF T, N
  <2>1. 0..N \subseteq T
    BY <1>0, <1>1, <1>2, CountingUp
  <2>2. QED
    BY <1>0, <2>1
<1>4. PICK f \in [0..N -> G] : Follows(f, N)
  BY <1>3
<1>5. Recurs(f)
  BY <1>0, <1>4
<1>6. Recurs(after)
  <2> HIDE DEF Recurs
  <2>1. QED
    BY <1>5, Zenon
<1> HIDE DEF after
<1> DEFINE U == {k \in 0..N : after[k] \in G}
<1>7. 0 \in U
  BY <1>0, <1>6
<1>8. ASSUME NEW k \in 0..N, k \in U, k < N PROVE k + 1 \in U
  <2>1. k + 1 \in 1..N /\ (k + 1) - 1 = k
    BY <1>0, <1>8
  <2>2. after[k + 1] = Register(after[k], batch[k + 1])
    BY <1>6, <2>1
  <2>3. QED
    BY <1>0, <1>8, <2>1, <2>2
<1>9. after[N] \in G
  <2> HIDE DEF U, N
  <2>1. 0..N \subseteq U
    BY <1>0, <1>7, <1>8, CountingUp
  <2>2. QED
    BY <1>0, <2>1 DEF U
<1>10. Registered(batch) = after[N]
  BY DEF Registered, after
<1>11. QED
  BY <1>9, <1>10

-----------------------------------------------------------------------------
(* Types                                                                    *)

\* Each bound is a number.
LEMMA Bounds ==
  /\ MaxNotices \in Nat /\ MaxHandlings \in Nat /\ MaxCrashes \in Nat
  /\ Capacity \in Nat \ {0}
<1>1. /\ MaxNotices \in {MaxNotices, MaxHandlings, MaxCrashes}
      /\ MaxHandlings \in {MaxNotices, MaxHandlings, MaxCrashes}
      /\ MaxCrashes \in {MaxNotices, MaxHandlings, MaxCrashes}
  OBVIOUS
<1>2. {MaxNotices, MaxHandlings, MaxCrashes} \subseteq Nat /\ Capacity \in Nat \ {0}
  BY BoundsAreNumbers
<1>3. QED
  BY <1>1, <1>2, Zenon

\* The variables of handle keep their types when one of them is assigned.
LEMMA LocalField ==
  ASSUME NEW l \in Locals
  PROVE  /\ \A x \in {0} \cup Handlings : [l EXCEPT !.h = x] \in Locals
         /\ \A x \in SUBSET Names : [l EXCEPT !.seen = x] \in Locals
         /\ \A x \in BOOLEAN : [l EXCEPT !.forward = x] \in Locals
         /\ \A x \in BOOLEAN : [l EXCEPT !.review = x] \in Locals
         /\ \A x \in BOOLEAN : [l EXCEPT !.known = x] \in Locals
         /\ \A x \in BOOLEAN : [l EXCEPT !.items = x] \in Locals
         /\ \A x \in BOOLEAN : [l EXCEPT !.form = x] \in Locals
         /\ \A x \in BOOLEAN : [l EXCEPT !.labelled = x] \in Locals
         /\ \A x \in Desks : [l EXCEPT !.desk = x] \in Locals
         /\ \A x \in Outcomes \cup {Nowhere} : [l EXCEPT !.outcome = x] \in Locals
         /\ \A x \in SUBSET Names : [l EXCEPT !.labels = x] \in Locals
BY DEF Locals

\* So does a record.
LEMMA RecordField ==
  ASSUME NEW r \in Records
  PROVE  /\ \A x \in BOOLEAN : [r EXCEPT !.open = x] \in Records
         /\ \A x \in BOOLEAN : [r EXCEPT !.decided = x] \in Records
         /\ \A x \in BOOLEAN : [r EXCEPT !.extraction = x] \in Records
         /\ \A x \in SUBSET Names : [r EXCEPT !.labels = x] \in Records
         /\ \A x \in {"unset", "yes", "no"} : [r EXCEPT !.labelled = x] \in Records
         /\ \A x \in Outcomes \cup {Nowhere} : [r EXCEPT !.outcome = x] \in Records
         /\ \A x \in BOOLEAN : [r EXCEPT !.matching = x] \in Records
         /\ \A x \in BOOLEAN : [r EXCEPT !.error = x] \in Records
BY DEF Records

LEMMA FreshTyped == Fresh \in Locals /\ Fresh.h = 0
BY DEF Fresh, Locals, Desks, Nowhere

LEMMA NoRecordTyped == NoRecord \in Records /\ NoRecord.outcome = Nowhere
BY DEF NoRecord, Records, Nowhere

\* A line of the journal says of a handling what its variables say.
LEMMA LineTyped ==
  ASSUME NEW l \in Locals, NEW type \in {"decision", "extraction", "delivery"}
  PROVE  Line(type, l) \in LineType
BY DEF Line, LineType, Locals

\* What a task owns: its queue, its place in handle and its variables.
TaskTypes ==
  /\ queue \in [Tasks -> Seq(Messages)]
  /\ at \in [Tasks -> Steps]
  /\ local \in [Tasks -> Locals]

\* One step of handle moves one task, and its queue stays as it is.
LEMMA GotoMoves ==
  ASSUME TaskTypes, NEW t \in Tasks, NEW step \in Steps, NEW l \in Locals, Goto(t, step, l)
  PROVE  /\ TaskTypes'
         /\ at'[t] = step /\ local'[t] = l /\ queue' = queue
         /\ \A u \in Tasks \ {t} : at'[u] = at[u] /\ local'[u] = local[u]
BY DEF TaskTypes, Goto

\* The end of a handling drops the id it was for; the task is free again when
\* its batch is done.
LEMMA NextMoves ==
  ASSUME TaskTypes, NEW t \in Tasks, queue[t] # <<>>, NextMessage(t)
  PROVE  /\ TaskTypes'
         /\ queue'[t] = Tail(queue[t]) /\ local'[t] = Fresh
         /\ at'[t] = IF queue'[t] = <<>> THEN "free" ELSE "fetch"
         /\ \A u \in Tasks \ {t} : at'[u] = at[u] /\ local'[u] = local[u]
                                   /\ queue'[u] = queue[u]
<1>1. Tail(queue[t]) \in Seq(Messages)
  BY DEF TaskTypes
<1>2. queue' \in [Tasks -> Seq(Messages)] /\ queue'[t] = Tail(queue[t])
      /\ \A u \in Tasks \ {t} : queue'[u] = queue[u]
  BY <1>1 DEF TaskTypes, NextMessage
<1>3. local' \in [Tasks -> Locals] /\ local'[t] = Fresh
      /\ \A u \in Tasks \ {t} : local'[u] = local[u]
  BY FreshTyped DEF TaskTypes, NextMessage
<1>4. at' \in [Tasks -> Steps] /\ at'[t] = (IF Tail(queue[t]) = <<>> THEN "free" ELSE "fetch")
      /\ \A u \in Tasks \ {t} : at'[u] = at[u]
  BY DEF TaskTypes, NextMessage, Steps
<1>5. QED
  BY <1>2, <1>3, <1>4 DEF TaskTypes

-----------------------------------------------------------------------------
(* What one step of a task may do                                           *)

\* The steps of handle from which a handling has its number.
Started == Steps \ {"free", "fetch", "fetched"}

\* Every step of handle reads the message, gives the handling its number, goes
\* on with it, or ends it.
Reads(t) ==
  /\ at[t] = "fetch" /\ UNCHANGED handled
  /\ \E l \in Locals : l.h = 0 /\ l.seen = category[Message(t)] /\ Goto(t, "fetched", l)
GoesOn(t) ==
  /\ at[t] \in Started /\ UNCHANGED handled
  /\ \E s \in Started, l \in Locals : l.h = local[t].h /\ Goto(t, s, l)
Ends(t) == at[t] # "free" /\ UNCHANGED handled /\ NextMessage(t)

\* The types of what a handling leaves behind.
StoreTypes ==
  /\ category \in [Messages -> SUBSET Names]
  /\ started \in 0..MaxHandlings
  /\ of \in [Handlings -> Messages \cup {Nowhere}]
  /\ received \in [Handlings -> Nat]
  /\ journal \in [Handlings -> Seq(LineType)]
  /\ record \in [Handlings -> Records]

\* A task that is busy has the message it is busy with at the head of its
\* queue, and a handling that has a number has one of those given out.
Busy(t) == at[t] = "free" <=> queue[t] = <<>>
Numbered(t) ==
  /\ at[t] \in Started => local[t].h \in 1..started /\ of[local[t].h] = Message(t)
  /\ at[t] \notin Started => local[t].h = 0

TaskInv == TaskTypes /\ StoreTypes /\ \A t \in Tasks : Busy(t) /\ Numbered(t)

\* The message of a busy task is a message, and the number of its handling one
\* of the numbers there are.
LEMMA BusyTask ==
  ASSUME TaskInv, NEW t \in Tasks, at[t] # "free"
  PROVE  /\ queue[t] # <<>> /\ queue[t] \in Seq(Messages) /\ local[t] \in Locals
         /\ Message(t) \in Messages /\ Message(t) = queue[t][1]
         /\ Tail(queue[t]) \in Seq(Messages)
         /\ at[t] \in Started => local[t].h \in Handlings /\ of[local[t].h] = Message(t)
                                 /\ local[t].h \in 1..started
<1>1. queue[t] # <<>> /\ queue[t] \in Seq(Messages) /\ local[t] \in Locals
  BY DEF TaskInv, TaskTypes, Busy
<1>2. Message(t) \in Messages /\ Message(t) = queue[t][1] /\ Tail(queue[t]) \in Seq(Messages)
  BY <1>1 DEF Message
<1>3. at[t] \in Started => local[t].h \in Handlings /\ of[local[t].h] = Message(t)
                           /\ local[t].h \in 1..started
  BY Bounds DEF TaskInv, StoreTypes, Numbered, Handlings
<1>4. QED
  BY <1>1, <1>2, <1>3

\* What the helpers of handle do to its variables.
LEMMA Helpers ==
  ASSUME NEW l \in Locals
  PROVE  /\ ForResult(l) \in SUBSET Names
         /\ Refusal(l) \in Outcomes \cup {Nowhere}
         /\ \A outcome \in Outcomes : Delivered(l, outcome) \in Locals
                                      /\ Delivered(l, outcome).h = l.h
                                      /\ Delivered(l, outcome).outcome = outcome
         /\ \A took \in BOOLEAN : AfterLabel(l, took).l \in Locals
                                  /\ AfterLabel(l, took).l.h = l.h
                                  /\ AfterLabel(l, took).step \in {"update", "delivery"}
<1>1. ForResult(l) \in SUBSET Names
  BY DEF ForResult, Names
<1>2. Refusal(l) \in Outcomes \cup {Nowhere}
  BY DEF Refusal, Outcomes
<1>3. ASSUME NEW outcome \in Outcomes
      PROVE  /\ Delivered(l, outcome) \in Locals /\ Delivered(l, outcome).h = l.h
             /\ Delivered(l, outcome).outcome = outcome
  <2> DEFINE m == [l EXCEPT !.outcome = outcome]
             labels == IF outcome \in Undelivered THEN m.labels \cup {"not sent"}
                       ELSE m.labels
  <2>1. m \in Locals /\ m.labels \in SUBSET Names /\ m.h = l.h /\ m.outcome = outcome
    BY LocalField DEF Locals
  <2>2. labels \in SUBSET Names
    BY <2>1 DEF Names
  <2>3. Delivered(l, outcome) = [m EXCEPT !.labels = labels]
    BY DEF Delivered
  <2> HIDE DEF m, labels
  <2>4. [m EXCEPT !.labels = labels].h = m.h
        /\ [m EXCEPT !.labels = labels].outcome = m.outcome
    BY <2>1 DEF Locals
  <2>5. [m EXCEPT !.labels = labels] \in Locals
    BY <2>1, <2>2, LocalField
  <2>6. QED
    BY <2>1, <2>3, <2>4, <2>5
<1>4. ASSUME NEW took \in BOOLEAN
      PROVE  /\ AfterLabel(l, took).l \in Locals /\ AfterLabel(l, took).l.h = l.h
             /\ AfterLabel(l, took).step \in {"update", "delivery"}
  <2>1. AfterLabel(l, took).l = [l EXCEPT !.labelled = took]
    BY DEF AfterLabel
  <2>2. [l EXCEPT !.labelled = took] \in Locals
    BY LocalField
  <2>3. [l EXCEPT !.labelled = took].h = l.h
    BY DEF Locals
  <2>4. QED
    BY <2>1, <2>2, <2>3 DEF AfterLabel
<1>5. QED
  BY <1>1, <1>2, <1>3, <1>4

\* After an attempt to forward, the handling is labelled or tried again.
LEMMA AfterForwardTyped ==
  ASSUME NEW l \in Locals, NEW answer \in Answers
  PROVE  /\ AfterForward(l, answer).l \in Locals /\ AfterForward(l, answer).l.h = l.h
         /\ AfterForward(l, answer).step \in {"label", "resend"}
BY Helpers DEF AfterForward, Outcomes

\* The writes of handle - a line, a record, a label, a copy - keep the types of
\* what they write to.
LEMMA WritesTyped ==
  ASSUME TaskInv, NEW t \in Tasks, at[t] \in Started
  PROVE  /\ \A r \in Records : Update(t, r) => record' \in [Handlings -> Records]
         /\ \A type \in {"decision", "extraction", "delivery"} :
              journal' = [journal EXCEPT ![local[t].h] = Append(@, Line(type, local[t]))]
                => journal' \in [Handlings -> Seq(LineType)]
         /\ \A answer \in Answers : Stamp(t, answer) => category' \in [Messages -> SUBSET Names]
         /\ \A answer \in Answers :
              received' = [received EXCEPT ![local[t].h] = IF Done(answer) THEN @ + 1 ELSE @]
                => received' \in [Handlings -> Nat]
<1>0. local[t].h \in Handlings /\ local[t] \in Locals /\ Message(t) \in Messages
  BY BusyTask DEF Started
<1>1. StoreTypes
  BY DEF TaskInv
<1>2. ASSUME NEW r \in Records, Update(t, r) PROVE record' \in [Handlings -> Records]
  BY <1>0, <1>1, <1>2 DEF Update, StoreTypes
<1>3. ASSUME NEW type \in {"decision", "extraction", "delivery"},
             journal' = [journal EXCEPT ![local[t].h] = Append(@, Line(type, local[t]))]
      PROVE  journal' \in [Handlings -> Seq(LineType)]
  <2>1. Line(type, local[t]) \in LineType
    BY <1>0, LineTyped
  <2>2. journal[local[t].h] \in Seq(LineType)
    BY <1>0, <1>1 DEF StoreTypes
  <2>3. Append(journal[local[t].h], Line(type, local[t])) \in Seq(LineType)
    BY <2>1, <2>2
  <2>4. QED
    BY <1>1, <1>3, <2>3 DEF StoreTypes
<1>4. ASSUME NEW answer \in Answers, Stamp(t, answer)
      PROVE  category' \in [Messages -> SUBSET Names]
  <2>1. local[t].labels \in SUBSET Names
    BY <1>0 DEF Locals
  <2>2. QED
    BY <1>0, <1>1, <1>4, <2>1 DEF Stamp, StoreTypes
<1>5. ASSUME NEW answer \in Answers,
             received' = [received EXCEPT ![local[t].h] = IF Done(answer) THEN @ + 1 ELSE @]
      PROVE  received' \in [Handlings -> Nat]
  BY <1>0, <1>1, <1>5 DEF StoreTypes
<1>6. QED
  BY <1>2, <1>3, <1>4, <1>5

\* What every step of handle is, to the task that takes it and to the store.
LEMMA StepKinds ==
  ASSUME TaskInv, NEW t \in Tasks, Step(t)
  PROVE  /\ Reads(t) \/ Start(t) \/ GoesOn(t) \/ Ends(t)
         /\ StoreTypes'
         /\ UNCHANGED <<processed, notices, crashes>>
<1> DEFINE l == local[t]
           Goal == /\ Reads(t) \/ Start(t) \/ GoesOn(t) \/ Ends(t)
                   /\ StoreTypes'
                   /\ UNCHANGED <<processed, notices, crashes>>
<1>0. /\ StoreTypes /\ l \in Locals
      /\ at[t] \in Started => l.h \in Handlings /\ Message(t) \in Messages
  BY BusyTask DEF TaskInv, TaskTypes, Started
<1>1. CASE Fetch(t)
  <2>1. UNCHANGED <<processed, category, handled, received, store, notices, crashes>>
        /\ at[t] = "fetch"
    BY <1>1 DEF Fetch
  <2>2. StoreTypes'
    BY <1>0, <2>1 DEF StoreTypes, handled, store
  <2>3. CASE Goto(t, "fetched", [Fresh EXCEPT !.seen = category[Message(t)]])
    <3>1. Message(t) \in Messages
      BY <2>1, BusyTask
    <3>2. category[Message(t)] \in SUBSET Names
      BY <1>0, <3>1 DEF StoreTypes
    <3>3. [Fresh EXCEPT !.seen = category[Message(t)]] \in Locals
      BY <3>2, FreshTyped, LocalField
    <3>4. /\ [Fresh EXCEPT !.seen = category[Message(t)]].h = 0
          /\ [Fresh EXCEPT !.seen = category[Message(t)]].seen = category[Message(t)]
      BY DEF Fresh
    <3>5. Reads(t)
      BY <2>1, <2>3, <3>3, <3>4 DEF Reads
    <3>6. QED
      BY <2>1, <2>2, <3>5
  <2>4. CASE Abandon(t)
    BY <2>1, <2>2, <2>4 DEF Abandon, Ends
  <2>5. QED
    BY <1>1, <2>3, <2>4 DEF Fetch
<1>2. CASE Skip(t)
  BY <1>0, <1>2 DEF Skip, Ends, StoreTypes, handled, store
<1>3. CASE Start(t)
  <2>1. Message(t) \in Messages
    BY <1>3, BusyTask DEF Start
  <2>2. started' \in 0..MaxHandlings /\ of' \in [Handlings -> Messages \cup {Nowhere}]
    BY <1>0, <1>3, <2>1, Bounds DEF Start, StoreTypes, Handlings
  <2>3. QED
    BY <1>0, <1>3, <2>2 DEF Start, StoreTypes, store
\* From here on the handling has its number.
<1>4. ASSUME NEW s \in Started, NEW m \in Locals, m.h = l.h, Goto(t, s, m),
             at[t] \in Started, UNCHANGED <<processed, handled, notices, crashes>>,
             category' \in [Messages -> SUBSET Names],
             received' \in [Handlings -> Nat],
             journal' \in [Handlings -> Seq(LineType)],
             record' \in [Handlings -> Records]
      PROVE  Goal
  BY <1>0, <1>4 DEF GoesOn, StoreTypes, handled
<1>5. ASSUME NextMessage(t),
             at[t] \in Started, UNCHANGED <<processed, handled, notices, crashes>>,
             category' \in [Messages -> SUBSET Names],
             received' \in [Handlings -> Nat],
             journal' \in [Handlings -> Seq(LineType)],
             record' \in [Handlings -> Records]
      PROVE  Goal
  BY <1>0, <1>5 DEF Ends, Started, StoreTypes, handled
<1>6. CASE Classify(t)
  <2>1. at[t] = "classify" /\ UNCHANGED <<processed, category, handled, received, store,
                                         notices, crashes>>
    BY <1>6 DEF Classify
  <2>2. ASSUME NEW forward \in BOOLEAN, NEW review \in BOOLEAN,
               Goto(t, "journal", [l EXCEPT !.forward = forward, !.review = review])
        PROVE  Goal
    <3>1. [l EXCEPT !.forward = forward] \in Locals
      BY <1>0, LocalField
    <3>2. [l EXCEPT !.forward = forward, !.review = review] \in Locals
      BY <3>1, LocalField
    <3>3. [l EXCEPT !.forward = forward, !.review = review].h = l.h
      BY <1>0 DEF Locals
    <3>4. QED
      BY <1>0, <1>4, <2>1, <2>2, <3>2, <3>3 DEF Started, Steps, StoreTypes, store
  <2>3. CASE Goto(t, "label error", [l EXCEPT !.labels = {"error"}])
    <3>1. [l EXCEPT !.labels = {"error"}] \in Locals
      BY <1>0, LocalField DEF Names
    <3>2. [l EXCEPT !.labels = {"error"}].h = l.h
      BY <1>0 DEF Locals
    <3>3. QED
      BY <1>0, <1>4, <2>1, <2>3, <3>1, <3>2 DEF Started, Steps, StoreTypes, store
  <2>4. QED
    BY <1>6, <2>2, <2>3 DEF Classify
<1>7. CASE JournalDecision(t)
  <2>1. at[t] = "journal" /\ UNCHANGED <<processed, category, handled, received, record,
                                        notices, crashes>>
    BY <1>7 DEF JournalDecision
  <2>2. CASE /\ journal' = [journal EXCEPT ![l.h] = Append(@, Line("decision", l))]
             /\ Goto(t, "open", l)
    <3>1. journal' \in [Handlings -> Seq(LineType)]
      BY <2>1, <2>2, WritesTyped DEF Started, Steps
    <3>2. QED
      BY <1>0, <1>4, <2>1, <2>2, <3>1 DEF Started, Steps, StoreTypes
  <2>3. CASE Goto(t, "label error", [l EXCEPT !.labels = {"error"}]) /\ UNCHANGED journal
    <3>1. [l EXCEPT !.labels = {"error"}] \in Locals
      BY <1>0, LocalField DEF Names
    <3>2. [l EXCEPT !.labels = {"error"}].h = l.h
      BY <1>0 DEF Locals
    <3>3. QED
      BY <1>0, <1>4, <2>1, <2>3, <3>1, <3>2 DEF Started, Steps, StoreTypes
  <2>4. QED
    BY <1>7, <2>2, <2>3 DEF JournalDecision
<1>8. CASE OpenRecord(t)
  <2> DEFINE m == [l EXCEPT !.labels = ForResult(l)]
             next == IF m.forward THEN "extract" ELSE "label"
  <2>1. at[t] = "open" /\ UNCHANGED <<processed, category, handled, received, journal,
                                     notices, crashes>>
    BY <1>8 DEF OpenRecord
  <2>2. m \in Locals
    BY <1>0, LocalField, Helpers
  <2>3. m.h = l.h
    BY <1>0 DEF Locals
  <2>4. [m EXCEPT !.known = TRUE] \in Locals
    BY <2>2, LocalField
  <2>5. [m EXCEPT !.known = TRUE].h = m.h
    BY <2>2 DEF Locals
  <2>6. next \in Started
    BY DEF Started, Steps
  <2>7. \/ /\ record' = [record EXCEPT ![m.h].open = TRUE, ![m.h].decided = TRUE]
           /\ Goto(t, next, [m EXCEPT !.known = TRUE])
        \/ UNCHANGED record /\ Goto(t, next, m)
    BY <1>8 DEF OpenRecord
  <2> HIDE DEF m, next
  <2>8. record' \in [Handlings -> Records]
    <3>1. record[m.h] \in Records
      BY <1>0, <2>1, <2>3 DEF StoreTypes, Started, Steps
    <3>2. [record[m.h] EXCEPT !.open = TRUE] \in Records
      BY <3>1, RecordField
    <3>3. [record[m.h] EXCEPT !.open = TRUE, !.decided = TRUE] \in Records
      BY <3>2, RecordField
    <3>4. CASE record' = [record EXCEPT ![m.h].open = TRUE, ![m.h].decided = TRUE]
      <4>1. record' = [record EXCEPT ![m.h] =
                        [record[m.h] EXCEPT !.open = TRUE, !.decided = TRUE]]
        BY <1>0, <2>1, <2>3, <3>1, <3>4 DEF StoreTypes, Started, Steps
      <4>2. QED
        BY <1>0, <3>3, <4>1 DEF StoreTypes
    <3>5. QED
      BY <1>0, <2>7, <3>4 DEF StoreTypes
  <2>9. QED
    BY <1>0, <1>4, <2>1, <2>2, <2>3, <2>4, <2>5, <2>6, <2>7, <2>8
    DEF Started, Steps, StoreTypes
<1>9. CASE Extract(t)
  <2> DEFINE r == [record[l.h] EXCEPT !.extraction = TRUE]
             read(items, form, desk) ==
               [l EXCEPT !.items = items, !.form = form, !.desk = desk]
  <2>1. /\ at[t] = "extract"
        /\ UNCHANGED <<processed, category, handled, received, notices, crashes>>
        /\ \/ /\ \E desk \in Desks : Goto(t, "send", [l EXCEPT !.desk = desk])
              /\ UNCHANGED store
           \/ /\ journal' = [journal EXCEPT ![l.h] = Append(@, Line("extraction", l))]
              /\ Update(t, r)
              /\ \E items, form \in BOOLEAN : \E desk \in Desks :
                   Goto(t, "send", read(items, form, desk))
           \/ UNCHANGED store /\ Abandon(t)
    BY <1>9 DEF Extract
  <2>2. journal' \in [Handlings -> Seq(LineType)] /\ record' \in [Handlings -> Records]
    <3>1. record[l.h] \in Records
      BY <1>0, <2>1 DEF StoreTypes, Started, Steps
    <3>2. r \in Records
      BY <3>1, RecordField
    <3> HIDE DEF r, read
    <3>3. CASE UNCHANGED store
      BY <1>0, <3>3 DEF StoreTypes, store
    <3>4. CASE /\ journal' = [journal EXCEPT ![l.h] = Append(@, Line("extraction", l))]
               /\ Update(t, r)
      <4>1. at[t] \in Started
        BY <2>1 DEF Started, Steps
      <4>2. record' \in [Handlings -> Records]
        BY <3>2, <3>4, <4>1, WritesTyped
      <4>3. journal' \in [Handlings -> Seq(LineType)]
        BY <3>4, <4>1, WritesTyped
      <4>4. QED
        BY <4>2, <4>3
    <3>5. QED
      BY <2>1, <3>3, <3>4
  <2>3. ASSUME NEW items \in BOOLEAN, NEW form \in BOOLEAN, NEW desk \in Desks
        PROVE  read(items, form, desk) \in Locals /\ read(items, form, desk).h = l.h
    <3>1. [l EXCEPT !.items = items] \in Locals
      BY <1>0, LocalField
    <3>2. [l EXCEPT !.items = items, !.form = form] \in Locals
      BY <3>1, LocalField
    <3>3. read(items, form, desk) \in Locals
      BY <3>2, LocalField
    <3>4. read(items, form, desk).h = l.h
      BY <1>0 DEF Locals
    <3>5. QED
      BY <3>3, <3>4
  <2>4. ASSUME NEW desk \in Desks
        PROVE  [l EXCEPT !.desk = desk] \in Locals /\ [l EXCEPT !.desk = desk].h = l.h
    <3>1. [l EXCEPT !.desk = desk] \in Locals
      BY <1>0, LocalField
    <3>2. [l EXCEPT !.desk = desk].h = l.h
      BY <1>0 DEF Locals
    <3>3. QED
      BY <3>1, <3>2
  <2> HIDE DEF r, read
  <2>5. (\E m \in Locals : m.h = l.h /\ Goto(t, "send", m)) \/ Abandon(t)
    <3>1. ASSUME NEW desk \in Desks, Goto(t, "send", [l EXCEPT !.desk = desk])
          PROVE  \E m \in Locals : m.h = l.h /\ Goto(t, "send", m)
      <4> DEFINE m == [l EXCEPT !.desk = desk]
      <4>1. m \in Locals /\ m.h = l.h /\ Goto(t, "send", m)
        BY <2>4, <3>1
      <4> HIDE DEF m
      <4>2. QED
        BY <4>1
    <3>2. QED
      BY <2>1, <2>3, <3>1
  <2>6. "send" \in Started /\ at[t] \in Started
    BY <2>1 DEF Started, Steps
  <2>7. QED
    BY <1>0, <1>4, <1>5, <2>1, <2>2, <2>5, <2>6 DEF StoreTypes, Abandon
<1>10. CASE Withhold(t)
  <2>1. /\ at[t] = "send"
        /\ UNCHANGED <<processed, category, handled, received, store, notices, crashes>>
        /\ Refusal(l) # Nowhere /\ Goto(t, "label", Delivered(l, Refusal(l)))
    BY <1>10 DEF Withhold
  <2>2. Refusal(l) \in Outcomes
    BY <1>0, <2>1, Helpers
  <2>3. Delivered(l, Refusal(l)) \in Locals /\ Delivered(l, Refusal(l)).h = l.h
    BY <1>0, <2>2, Helpers
  <2>4. QED
    BY <1>0, <1>4, <2>1, <2>3 DEF Started, Steps, StoreTypes, store
<1>11. CASE Send(t)
  <2>1. /\ at[t] = "send"
        /\ UNCHANGED <<processed, category, handled, store, notices, crashes>>
    BY <1>11 DEF Send
  <2>2. PICK answer \in Answers :
          /\ received' = [received EXCEPT ![l.h] = IF Done(answer) THEN @ + 1 ELSE @]
          /\ Goto(t, AfterForward(l, answer).step, AfterForward(l, answer).l)
    BY <1>11 DEF Send
  <2>3. received' \in [Handlings -> Nat]
    BY <2>1, <2>2, WritesTyped DEF Started, Steps
  <2>4. /\ AfterForward(l, answer).l \in Locals /\ AfterForward(l, answer).l.h = l.h
        /\ AfterForward(l, answer).step \in {"label", "resend"}
    BY <1>0, AfterForwardTyped
  <2>5. QED
    BY <1>0, <1>4, <2>1, <2>2, <2>3, <2>4 DEF Started, Steps, StoreTypes, store
<1>12. CASE Resend(t)
  <2> DEFINE m == [l EXCEPT !.form = FALSE]
  <2>1. /\ at[t] = "resend"
        /\ UNCHANGED <<processed, category, handled, store, notices, crashes>>
    BY <1>12 DEF Resend
  <2>2. PICK answer \in Answers :
          /\ received' = [received EXCEPT ![l.h] = IF Done(answer) THEN @ + 1 ELSE @]
          /\ Goto(t, AfterForward(m, answer).step, AfterForward(m, answer).l)
    BY <1>12 DEF Resend
  <2>3. received' \in [Handlings -> Nat]
    BY <2>1, <2>2, WritesTyped DEF Started, Steps
  <2>4. m \in Locals
    BY <1>0, LocalField
  <2>5. m.h = l.h
    BY <1>0 DEF Locals
  <2> HIDE DEF m
  <2>6. /\ AfterForward(m, answer).l \in Locals /\ AfterForward(m, answer).l.h = l.h
        /\ AfterForward(m, answer).step \in {"label", "resend"}
    BY <2>4, <2>5, AfterForwardTyped
  <2>7. QED
    BY <1>0, <1>4, <2>1, <2>2, <2>3, <2>6 DEF Started, Steps, StoreTypes, store
\* The label, at the first try or the second.
<1>13. ASSUME NEW answer \in Answers, at[t] \in {"label", "relabel"}, Stamp(t, answer),
              UNCHANGED <<processed, handled, received, store, notices, crashes>>,
              Goto(t, AfterLabel(l, answer = "ok").step, AfterLabel(l, answer = "ok").l)
       PROVE  Goal
  <2>1. category' \in [Messages -> SUBSET Names]
    BY <1>13, WritesTyped DEF Started, Steps
  <2>2. /\ AfterLabel(l, answer = "ok").l \in Locals
        /\ AfterLabel(l, answer = "ok").l.h = l.h
        /\ AfterLabel(l, answer = "ok").step \in {"update", "delivery"}
    BY <1>0, Helpers
  <2>3. QED
    BY <1>0, <1>4, <1>13, <2>1, <2>2 DEF Started, Steps, StoreTypes, store
<1>14. CASE Label(t)
  <2>1. /\ at[t] = "label"
        /\ UNCHANGED <<processed, handled, received, store, notices, crashes>>
    BY <1>14 DEF Label
  <2>2. CASE Goto(t, "relabel", l) /\ UNCHANGED category
    BY <1>0, <1>4, <2>1, <2>2 DEF Started, Steps, StoreTypes, store
  <2>3. QED
    BY <1>13, <1>14, <2>1, <2>2 DEF Label
<1>15. CASE Relabel(t)
  BY <1>13, <1>15 DEF Relabel
<1>16. CASE JournalDelivery(t)
  <2>1. at[t] = "delivery" /\ UNCHANGED <<processed, category, handled, received, record,
                                         notices, crashes>>
    BY <1>16 DEF JournalDelivery
  <2>2. CASE /\ journal' = [journal EXCEPT ![l.h] = Append(@, Line("delivery", l))]
             /\ Goto(t, "update", l)
    <3>1. journal' \in [Handlings -> Seq(LineType)]
      BY <2>1, <2>2, WritesTyped DEF Started, Steps
    <3>2. QED
      BY <1>0, <1>4, <2>1, <2>2, <3>1 DEF Started, Steps, StoreTypes
  <2>3. CASE Abandon(t) /\ UNCHANGED journal
    BY <1>0, <1>5, <2>1, <2>3 DEF Started, Steps, StoreTypes, Abandon
  <2>4. QED
    BY <1>16, <2>2, <2>3 DEF JournalDelivery
<1>17. CASE UpdateRecord(t)
  <2> DEFINE r == [record[l.h] EXCEPT !.labels = l.labels, !.labelled = Yes(l.labelled),
                                      !.outcome = l.outcome]
  <2>1. /\ at[t] = "update" /\ Update(t, r) /\ Goto(t, "match", l)
        /\ UNCHANGED <<processed, category, handled, received, journal, notices, crashes>>
    BY <1>17 DEF UpdateRecord
  <2>2. record[l.h] \in Records
    BY <1>0, <2>1 DEF StoreTypes, Started, Steps
  <2>3. l.labels \in SUBSET Names /\ l.outcome \in Outcomes \cup {Nowhere}
        /\ Yes(l.labelled) \in {"unset", "yes", "no"}
    BY <1>0 DEF Locals, Yes
  <2>4. [record[l.h] EXCEPT !.labels = l.labels] \in Records
    BY <2>2, <2>3, RecordField
  <2>5. [record[l.h] EXCEPT !.labels = l.labels, !.labelled = Yes(l.labelled)] \in Records
    BY <2>3, <2>4, RecordField
  <2>6. r \in Records
    BY <2>3, <2>5, RecordField
  <2> HIDE DEF r
  <2>7. record' \in [Handlings -> Records]
    BY <2>1, <2>6, WritesTyped DEF Started, Steps
  <2>8. QED
    BY <1>0, <1>4, <2>1, <2>7 DEF Started, Steps, StoreTypes
<1>18. CASE Match(t)
  <2> DEFINE r == [record[l.h] EXCEPT !.matching = TRUE]
  <2>1. /\ at[t] = "match" /\ NextMessage(t)
        /\ UNCHANGED record \/ Update(t, r)
        /\ UNCHANGED <<processed, category, handled, received, journal, notices, crashes>>
    BY <1>18 DEF Match
  <2>2. record[l.h] \in Records
    BY <1>0, <2>1 DEF StoreTypes, Started, Steps
  <2>3. r \in Records
    BY <2>2, RecordField
  <2> HIDE DEF r
  <2>4. record' \in [Handlings -> Records]
    BY <1>0, <2>1, <2>3, WritesTyped DEF Started, Steps, StoreTypes
  <2>5. QED
    BY <1>0, <1>5, <2>1, <2>4 DEF Started, Steps, StoreTypes
<1>19. CASE LabelError(t)
  <2>1. /\ at[t] = "label error" /\ Goto(t, "record error", l)
        /\ UNCHANGED <<processed, handled, received, store, notices, crashes>>
    BY <1>19 DEF LabelError
  <2>2. category' \in [Messages -> SUBSET Names]
    BY <1>19, <2>1, WritesTyped DEF LabelError, Started, Steps
  <2>3. QED
    BY <1>0, <1>4, <2>1, <2>2 DEF Started, Steps, StoreTypes, store
<1>20. CASE RecordError(t)
  <2> DEFINE opened == [NoRecord EXCEPT !.open = TRUE]
             r == [opened EXCEPT !.labels = l.labels, !.error = TRUE]
  <2>1. /\ at[t] = "record error" /\ NextMessage(t)
        /\ \/ record' = [record EXCEPT ![l.h] = r]
           \/ record' = [record EXCEPT ![l.h] = opened]
           \/ UNCHANGED record
        /\ UNCHANGED <<processed, category, handled, received, journal, notices, crashes>>
    BY <1>20 DEF RecordError, Abandon
  <2>2. opened \in Records
    BY NoRecordTyped, RecordField
  <2>3. l.labels \in SUBSET Names
    BY <1>0 DEF Locals
  <2>4. [opened EXCEPT !.labels = l.labels] \in Records
    <3> HIDE DEF opened
    <3>1. QED
      BY <2>2, <2>3, RecordField
  <2>5. r \in Records
    <3> HIDE DEF opened
    <3>1. QED
      BY <2>4, RecordField
  <2> HIDE DEF r, opened
  <2>6. record' \in [Handlings -> Records]
    BY <1>0, <2>1, <2>2, <2>5 DEF StoreTypes
  <2>7. QED
    BY <1>0, <1>5, <2>1, <2>6 DEF Started, Steps, StoreTypes
<1>21. QED
  BY <1>1, <1>2, <1>3, <1>6, <1>7, <1>8, <1>9, <1>10, <1>11, <1>12, <1>14, <1>15, <1>16,
     <1>17, <1>18, <1>19, <1>20 DEF Step

\* No two tasks have the same handling in hand.
OwnNumbers ==
  \A t, u \in Tasks : local[t].h = local[u].h /\ local[t].h # 0 => t = u

\* A task's step leaves the other tasks alone.
LEMMA OthersKeep ==
  ASSUME TaskInv, NEW t \in Tasks, Step(t), NEW u \in Tasks \ {t}
  PROVE  at'[u] = at[u] /\ local'[u] = local[u] /\ queue'[u] = queue[u]
<1>1. TaskTypes /\ (at[t] # "free" => queue[t] # <<>>)
  BY DEF TaskInv, Busy
<1>2. CASE Reads(t)
  BY <1>1, <1>2, GotoMoves DEF Reads, Steps
<1>3. CASE Start(t)
  BY <1>1, <1>3 DEF Start, Goto, TaskTypes
<1>4. CASE GoesOn(t)
  BY <1>1, <1>4, GotoMoves DEF GoesOn, Started
<1>5. CASE Ends(t)
  BY <1>1, <1>5, NextMoves DEF Ends
<1>6. QED
  BY <1>2, <1>3, <1>4, <1>5, StepKinds

\* Every step of a task keeps the types, and the numbers where they belong.
LEMMA StepKeepsTasks ==
  ASSUME TaskInv, OwnNumbers, NEW t \in Tasks, Step(t)
  PROVE  TaskInv' /\ OwnNumbers'
<1>1. /\ TaskTypes /\ StoreTypes /\ StoreTypes' /\ started \in Nat
      /\ \A u \in Tasks : Busy(u) /\ Numbered(u) /\ local[u].h \in {0} \cup Handlings
      /\ \A u \in Tasks : local[u].h <= started
  <2>1. TaskTypes /\ StoreTypes /\ started \in Nat /\ \A u \in Tasks : Busy(u) /\ Numbered(u)
    BY Bounds DEF TaskInv, StoreTypes
  <2>2. \A u \in Tasks : local[u].h \in {0} \cup Handlings
    BY <2>1 DEF TaskTypes, Locals
  <2>3. \A u \in Tasks : local[u].h <= started
    BY <2>1 DEF Numbered
  <2>4. QED
    BY <2>1, <2>2, <2>3, StepKinds
<1>2. CASE Reads(t)
  <2>1. PICK l \in Locals : l.h = 0 /\ Goto(t, "fetched", l)
    BY <1>2 DEF Reads
  <2>2. /\ TaskTypes' /\ at'[t] = "fetched" /\ local'[t] = l /\ queue' = queue
        /\ at[t] = "fetch"
    BY <1>1, <1>2, <2>1, GotoMoves DEF Reads, Steps
  <2>3. /\ \A u \in Tasks \ {t} : at'[u] = at[u] /\ local'[u] = local[u]
        /\ of' = of /\ started' = started
    BY <1>2, OthersKeep DEF Reads, handled
  <2>4. Busy(t)' /\ Numbered(t)'
    BY <1>1, <2>1, <2>2 DEF Busy, Numbered, Started
  <2>5. \A u \in Tasks \ {t} : Busy(u)' /\ Numbered(u)'
    BY <1>1, <2>2, <2>3 DEF Busy, Numbered, Message
  <2>6. OwnNumbers'
    BY <2>1, <2>2, <2>3 DEF OwnNumbers
  <2>7. QED
    BY <1>1, <2>2, <2>4, <2>5, <2>6 DEF TaskInv
<1>3. CASE Start(t)
  <2> DEFINE l == [Fresh EXCEPT !.h = started + 1]
  <2>1. /\ at[t] = "fetched" /\ started < MaxHandlings /\ started' = started + 1
        /\ of' = [of EXCEPT ![started + 1] = Message(t)] /\ Goto(t, "classify", l)
    BY <1>3 DEF Start
  <2>2. started + 1 \in Handlings
    BY <1>1, <2>1, Bounds DEF Handlings
  <2>3. l \in Locals
    BY <2>2, FreshTyped, LocalField
  <2>4. l.h = started + 1
    BY DEF Fresh
  <2> HIDE DEF l
  <2>5. TaskTypes' /\ at'[t] = "classify" /\ local'[t] = l /\ queue' = queue
    BY <1>1, <2>1, <2>3, GotoMoves DEF Steps
  <2>6. \A u \in Tasks \ {t} : at'[u] = at[u] /\ local'[u] = local[u]
    BY OthersKeep
  <2>7. of'[started + 1] = Message(t) /\ \A h \in 1..started : of'[h] = of[h]
    BY <1>1, <2>1, <2>2, Bounds DEF StoreTypes, Handlings
  <2>8. Busy(t)' /\ Numbered(t)'
    <3>1. "classify" \in Started
      BY DEF Started, Steps
    <3>2. Busy(t)'
      BY <1>1, <2>1, <2>5 DEF Busy
    <3>3. local'[t].h \in 1..started' /\ of'[local'[t].h] = Message(t)'
      <4>1. local'[t].h = started + 1 /\ Message(t)' = Message(t)
        BY <2>4, <2>5 DEF Message
      <4>2. QED
        BY <1>1, <2>1, <2>7, <4>1
    <3>4. QED
      BY <2>5, <3>1, <3>2, <3>3 DEF Numbered
  <2>9. \A u \in Tasks \ {t} : Busy(u)'
    BY <1>1, <2>5, <2>6 DEF Busy
  <2>10. \A u \in Tasks \ {t} : Numbered(u)'
    BY <1>1, <2>1, <2>5, <2>6, <2>7 DEF Numbered, Message
  <2>11. \A u \in Tasks \ {t} : local'[u].h # local'[t].h
    BY <1>1, <2>4, <2>5, <2>6
  <2>12. OwnNumbers'
    BY <2>6, <2>11 DEF OwnNumbers
  <2>13. QED
    BY <1>1, <2>5, <2>8, <2>9, <2>10, <2>12 DEF TaskInv
<1>4. CASE GoesOn(t)
  <2>1. PICK s \in Started, l \in Locals : l.h = local[t].h /\ Goto(t, s, l)
    BY <1>4 DEF GoesOn
  <2>2. TaskTypes' /\ at'[t] = s /\ local'[t] = l /\ queue' = queue
    BY <1>1, <2>1, GotoMoves DEF Started
  <2>3. /\ \A u \in Tasks \ {t} : at'[u] = at[u] /\ local'[u] = local[u]
        /\ of' = of /\ started' = started /\ at[t] \in Started
    BY <1>4, OthersKeep DEF GoesOn, handled
  <2>4. Busy(t)' /\ Numbered(t)'
    BY <1>1, <2>1, <2>2, <2>3 DEF Busy, Numbered, Started, Message
  <2>5. \A u \in Tasks \ {t} : Busy(u)' /\ Numbered(u)'
    BY <1>1, <2>2, <2>3 DEF Busy, Numbered, Message
  <2>6. OwnNumbers'
    BY <2>1, <2>2, <2>3 DEF OwnNumbers
  <2>7. QED
    BY <1>1, <2>2, <2>4, <2>5, <2>6 DEF TaskInv
<1>5. CASE Ends(t)
  <2>1. /\ TaskTypes' /\ queue'[t] = Tail(queue[t]) /\ local'[t] = Fresh
        /\ at'[t] = IF queue'[t] = <<>> THEN "free" ELSE "fetch"
    BY <1>1, <1>5, NextMoves DEF Ends, Busy
  <2>2. /\ \A u \in Tasks \ {t} : at'[u] = at[u] /\ local'[u] = local[u]
                                  /\ queue'[u] = queue[u]
        /\ of' = of /\ started' = started
    BY <1>5, OthersKeep DEF Ends, handled
  <2>3. Busy(t)' /\ Numbered(t)'
    BY <2>1, FreshTyped DEF Busy, Numbered, Started
  <2>4. \A u \in Tasks \ {t} : Busy(u)' /\ Numbered(u)'
    BY <1>1, <2>2 DEF Busy, Numbered, Message
  <2>5. OwnNumbers'
    BY <2>1, <2>2, FreshTyped DEF OwnNumbers
  <2>6. QED
    BY <1>1, <2>1, <2>3, <2>4, <2>5 DEF TaskInv
<1>6. QED
  BY <1>2, <1>3, <1>4, <1>5, StepKinds

-----------------------------------------------------------------------------
(* Types are kept                                                           *)

\* The memory, and the two counts of the model.
MemoryTypes ==
  /\ processed \in Seq(Messages) /\ Len(processed) <= Capacity
  /\ notices \in 0..MaxNotices /\ crashes \in 0..MaxCrashes

Typed == MemoryTypes /\ TaskInv /\ OwnNumbers

\* The types are those TypeOK asks for.
LEMMA TypedIsTypeOK == Typed => TypeOK
BY DEF Typed, MemoryTypes, TaskInv, TaskTypes, StoreTypes, TypeOK

\* The memory never grows past its capacity, whatever a batch carries.
LEMMA RegisteredTyped ==
  ASSUME MemoryTypes, NEW batch \in Seq(Messages)
  PROVE  /\ Registered(batch).ids \in Seq(Messages)
         /\ Len(Registered(batch).ids) <= Capacity
         /\ Registered(batch).fresh \in Seq(Messages)
<1> DEFINE G == {seen \in [ids: Seq(Messages), fresh: Seq(Messages)] :
                   Len(seen.ids) <= Capacity}
<1>1. [ids |-> processed, fresh |-> <<>>] \in G
  BY DEF MemoryTypes
<1>2. ASSUME NEW seen \in G, NEW m \in Messages PROVE Register(seen, m) \in G
  <2>1. /\ seen.ids \in Seq(Messages) /\ seen.fresh \in Seq(Messages)
        /\ Len(seen.ids) <= Capacity /\ Len(seen.ids) \in Nat /\ Capacity \in Nat \ {0}
    BY Bounds
  <2>2. CASE m \in ToSet(seen.ids)
    BY <2>2 DEF Register
  <2>3. CASE m \notin ToSet(seen.ids)
    <3> DEFINE ids == IF Len(seen.ids) = Capacity THEN Append(Tail(seen.ids), m)
                      ELSE Append(seen.ids, m)
               fresh == Append(seen.fresh, m)
    <3>1. Register(seen, m) = [ids |-> ids, fresh |-> fresh]
      BY <2>3 DEF Register
    <3>2. fresh \in Seq(Messages)
      BY <2>1
    <3>3. ids \in Seq(Messages) /\ Len(ids) <= Capacity
      <4>1. CASE Len(seen.ids) = Capacity
        <5>1. Tail(seen.ids) \in Seq(Messages) /\ Len(Tail(seen.ids)) = Capacity - 1
          BY <2>1, <4>1
        <5>2. QED
          BY <2>1, <4>1, <5>1
      <4>2. CASE Len(seen.ids) # Capacity
        BY <2>1, <4>2
      <4>3. QED
        BY <4>1, <4>2
    <3> HIDE DEF ids, fresh
    <3>4. QED
      BY <3>1, <3>2, <3>3
  <2>4. QED
    BY <2>2, <2>3
<1>3. Registered(batch) \in G
  <2> HIDE DEF G
  <2>1. QED
    BY <1>1, <1>2, RegisteredKeeps
<1>4. QED
  BY <1>3

\* A notification gives its fresh ids to a free task, and touches no other.
LEMMA NotifyMoves ==
  ASSUME Typed, NEW batch \in Batches, Notify(batch)
  PROVE  /\ MemoryTypes' /\ UNCHANGED <<local, category, handled, received, store, crashes>>
         /\ processed' = Registered(batch).ids
         /\ \/ Registered(batch).fresh = <<>> /\ UNCHANGED <<queue, at>>
            \/ \E t \in Tasks :
                 /\ at[t] = "free" /\ at' = [at EXCEPT ![t] = "fetch"]
                 /\ Registered(batch).fresh # <<>>
                 /\ Registered(batch).fresh \in Seq(Messages)
                 /\ queue' = [queue EXCEPT ![t] = Registered(batch).fresh]
<1>1. batch \in Seq(Messages) /\ MemoryTypes
  BY BoundsAreNumbers DEF Typed
<1>2. /\ Registered(batch).ids \in Seq(Messages)
      /\ Len(Registered(batch).ids) <= Capacity
      /\ Registered(batch).fresh \in Seq(Messages)
  BY <1>1, RegisteredTyped
<1>3. notices' \in 0..MaxNotices
  BY <1>1, Bounds DEF Notify, MemoryTypes
<1>4. QED
  BY <1>1, <1>2, <1>3 DEF Notify, MemoryTypes

\* So a notification keeps the types.
LEMMA NotifyKeepsTypes ==
  ASSUME Typed, NEW batch \in Batches, Notify(batch)
  PROVE  Typed'
<1>1. /\ TaskTypes /\ StoreTypes /\ OwnNumbers
      /\ \A u \in Tasks : Busy(u) /\ Numbered(u)
  BY DEF Typed, TaskInv
<1>2. /\ MemoryTypes' /\ UNCHANGED <<local, category, handled, received, store, crashes>>
      /\ \/ UNCHANGED <<queue, at>>
         \/ \E t \in Tasks : \E fresh \in Seq(Messages) :
              /\ at[t] = "free" /\ fresh # <<>>
              /\ at' = [at EXCEPT ![t] = "fetch"] /\ queue' = [queue EXCEPT ![t] = fresh]
  BY NotifyMoves
<1>3. StoreTypes' /\ OwnNumbers'
  BY <1>1, <1>2 DEF StoreTypes, OwnNumbers, handled, store
<1>4. CASE UNCHANGED <<queue, at>>
  BY <1>1, <1>2, <1>3, <1>4 DEF Typed, TaskInv, TaskTypes, Busy, Numbered, Message, handled
<1>5. ASSUME NEW t \in Tasks, NEW fresh \in Seq(Messages), at[t] = "free", fresh # <<>>,
             at' = [at EXCEPT ![t] = "fetch"], queue' = [queue EXCEPT ![t] = fresh]
      PROVE  Typed'
  <2>1. TaskTypes'
    BY <1>1, <1>2, <1>5 DEF TaskTypes, Steps
  <2>2. /\ at'[t] = "fetch" /\ queue'[t] = fresh
        /\ \A u \in Tasks \ {t} : at'[u] = at[u] /\ queue'[u] = queue[u]
    BY <1>1, <1>5 DEF TaskTypes
  <2>3. Busy(t)' /\ Numbered(t)'
    BY <1>1, <1>2, <1>5, <2>2 DEF Busy, Numbered, Started
  <2>4. \A u \in Tasks \ {t} : Busy(u)' /\ Numbered(u)'
    BY <1>1, <1>2, <2>2 DEF Busy, Numbered, Message, handled
  <2>5. QED
    BY <1>2, <1>3, <2>1, <2>3, <2>4 DEF Typed, TaskInv
<1>6. QED
  BY <1>2, <1>4, <1>5

\* A restart keeps the types.
LEMMA CrashKeepsTypes ==
  ASSUME Typed, Crash
  PROVE  Typed'
<1>1. TaskTypes'
  BY FreshTyped DEF Crash, TaskTypes, Steps
<1>2. StoreTypes'
  BY DEF Typed, TaskInv, Crash, StoreTypes, handled, store
<1>3. MemoryTypes'
  BY Bounds DEF Typed, MemoryTypes, Crash
<1>4. \A t \in Tasks : Busy(t)' /\ Numbered(t)'
  BY FreshTyped DEF Crash, Busy, Numbered, Started
<1>5. OwnNumbers'
  BY FreshTyped DEF Crash, OwnNumbers
<1>6. QED
  BY <1>1, <1>2, <1>3, <1>4, <1>5 DEF Typed, TaskInv

\* Every variable keeps its type, ProcessedMessages never remembers more ids
\* than its capacity, a task is free exactly when its batch is done, and no two
\* tasks ever have the same handling in hand.
THEOREM TypeCorrect == Spec => [](Typed /\ TypeOK)
<1>1. Init => Typed
  <2> SUFFICES ASSUME Init PROVE Typed
    OBVIOUS
  <2>1. TaskTypes
    BY FreshTyped DEF Init, TaskTypes, Steps
  <2>2. StoreTypes
    BY NoRecordTyped, Bounds DEF Init, StoreTypes
  <2>3. MemoryTypes
    BY Bounds DEF Init, MemoryTypes
  <2>4. \A t \in Tasks : Busy(t) /\ Numbered(t)
    BY FreshTyped DEF Init, Busy, Numbered, Started
  <2>5. OwnNumbers
    BY FreshTyped DEF Init, OwnNumbers
  <2>6. QED
    BY <2>1, <2>2, <2>3, <2>4, <2>5 DEF Typed, TaskInv
<1>2. Typed /\ [Next]_vars => Typed'
  <2> SUFFICES ASSUME Typed, [Next]_vars PROVE Typed'
    OBVIOUS
  <2>1. ASSUME NEW t \in Tasks, Step(t) PROVE Typed'
    BY <2>1, StepKeepsTasks, StepKinds DEF Typed, MemoryTypes
  <2>2. CASE UNCHANGED vars
    BY <2>2 DEF vars, process, handled, store, Typed, MemoryTypes, TaskInv, TaskTypes,
                StoreTypes, Busy, Numbered, Message, OwnNumbers
  <2>3. QED
    BY <2>1, <2>2, NotifyKeepsTypes, CrashKeepsTypes DEF Next
<1>3. QED
  BY <1>1, <1>2, TypedIsTypeOK, PTL DEF Spec

-----------------------------------------------------------------------------
(* Where a task stands says what it may do next                             *)

\* Each place in handle has its step; only "send" and "fetched" have two.
LEMMA StepAt ==
  ASSUME NEW t \in Tasks, Step(t)
  PROVE  /\ at[t] = "fetch" => Fetch(t)
         /\ at[t] = "fetched" => Skip(t) \/ Start(t)
         /\ at[t] = "classify" => Classify(t)
         /\ at[t] = "journal" => JournalDecision(t)
         /\ at[t] = "open" => OpenRecord(t)
         /\ at[t] = "extract" => Extract(t)
         /\ at[t] = "send" => Withhold(t) \/ Send(t)
         /\ at[t] = "resend" => Resend(t)
         /\ at[t] = "label" => Label(t)
         /\ at[t] = "relabel" => Relabel(t)
         /\ at[t] = "delivery" => JournalDelivery(t)
         /\ at[t] = "update" => UpdateRecord(t)
         /\ at[t] = "match" => Match(t)
         /\ at[t] = "label error" => LabelError(t)
         /\ at[t] = "record error" => RecordError(t)
         /\ at[t] # "free"
BY DEF Step, Fetch, Skip, Start, Classify, JournalDecision, OpenRecord, Extract, Withhold, Send,
       Resend, Label, Relabel, JournalDelivery, UpdateRecord, Match, LabelError, RecordError

\* The steps before the forward, and those after it.
Before == {"classify", "journal", "open", "extract", "send"}
After == {"label", "relabel", "delivery", "update", "match", "label error", "record error"}

\* Only the two attempts put copies on a desk, and one at a time.
LEMMA CopiesOnlySent ==
  ASSUME StoreTypes, NEW t \in Tasks, Step(t)
  PROVE  \/ received' = received
         \/ /\ at[t] \in {"send", "resend"}
            /\ received' = [received EXCEPT ![local[t].h] = @ + 1]
<1>0. ASSUME NEW answer \in Answers,
             received' = [received EXCEPT ![local[t].h] = IF Done(answer) THEN @ + 1 ELSE @]
      PROVE  \/ received' = received
             \/ received' = [received EXCEPT ![local[t].h] = @ + 1]
  BY <1>0 DEF StoreTypes
<1>1. CASE Send(t)
  BY <1>0, <1>1 DEF Send
<1>2. CASE Resend(t)
  BY <1>0, <1>2 DEF Resend
<1>3. QED
  BY <1>1, <1>2 DEF Step, Fetch, Skip, Start, Classify, JournalDecision, OpenRecord, Extract,
                    Withhold, Label, Relabel, JournalDelivery, UpdateRecord, Match, LabelError,
                    RecordError

\* Only a labelling step writes to the mailbox, and only on its own message.
LEMMA OnlyLabelsStamp ==
  ASSUME TaskTypes, StoreTypes, NEW t \in Tasks, Step(t)
  PROVE  \/ category' = category
         \/ /\ at[t] \in {"label", "relabel", "label error"}
            /\ category' = [category EXCEPT ![Message(t)] = local[t].labels]
<1>1. ASSUME NEW answer \in Answers, Stamp(t, answer)
      PROVE  \/ category' = category
             \/ category' = [category EXCEPT ![Message(t)] = local[t].labels]
  BY <1>1 DEF Stamp, StoreTypes
<1>2. CASE Label(t)
  BY <1>1, <1>2 DEF Label
<1>3. CASE Relabel(t)
  BY <1>1, <1>3 DEF Relabel
<1>4. CASE LabelError(t)
  BY <1>1, <1>4 DEF LabelError
<1>5. QED
  BY <1>2, <1>3, <1>4 DEF Step, Fetch, Skip, Start, Classify, JournalDecision, OpenRecord,
                          Extract, Withhold, Send, Resend, JournalDelivery, UpdateRecord, Match,
                          RecordError

\* A handling that has tried to forward never comes back to it.
LEMMA NoWayBack ==
  ASSUME TaskInv, NEW t \in Tasks, Step(t), at[t] \in After
  PROVE  at'[t] \in After \cup {"free", "fetch"}
<1>1. TaskTypes /\ queue[t] # <<>>
  BY BusyTask DEF TaskInv, After
<1>2. ASSUME NextMessage(t) PROVE at'[t] \in {"free", "fetch"}
  BY <1>1, <1>2, NextMoves
<1>3. ASSUME NEW s \in After, NEW l, Goto(t, s, l) PROVE at'[t] = s
  BY <1>1, <1>3 DEF Goto, TaskTypes
<1>0. ASSUME NEW answer, Goto(t, AfterLabel(local[t], answer = "ok").step,
                                AfterLabel(local[t], answer = "ok").l)
      PROVE  at'[t] \in After
  <2>1. AfterLabel(local[t], answer = "ok").step \in After
    BY DEF AfterLabel, After
  <2>2. QED
    BY <1>0, <1>3, <2>1
<1>4. CASE Label(t)
  BY <1>0, <1>3, <1>4 DEF Label, After
<1>5. CASE Relabel(t)
  BY <1>0, <1>5 DEF Relabel
<1>6. CASE JournalDelivery(t)
  BY <1>2, <1>3, <1>6 DEF JournalDelivery, Abandon, After
<1>7. CASE UpdateRecord(t)
  BY <1>3, <1>7 DEF UpdateRecord, After
<1>8. CASE Match(t)
  BY <1>2, <1>8 DEF Match
<1>9. CASE LabelError(t)
  BY <1>3, <1>9 DEF LabelError, After
<1>10. CASE RecordError(t)
  BY <1>2, <1>10 DEF RecordError, Abandon
<1>11. QED
  BY <1>4, <1>5, <1>6, <1>7, <1>8, <1>9, <1>10, StepAt DEF After

-----------------------------------------------------------------------------
(* How many copies one handling sends                                       *)

\* A second copy needs an answer that was lost.
Second == IF May("reply") THEN 1 ELSE 0

\* No handling sends more than one copy, or two when an answer can be lost;
\* before the first attempt it has sent none, and before the second at most
\* the one whose answer was lost.
Bounded == \A h \in Handlings : received[h] <= Second + 1
Unbegun == \A h \in Handlings : h > started => received[h] = 0
Sent(t) ==
  /\ at[t] \in Before => received[local[t].h] = 0
  /\ at[t] = "resend" => received[local[t].h] <= Second

CopiesInv == Bounded /\ Unbegun /\ \A t \in Tasks : Sent(t)

\* The other handlings' copies are not touched by a step of this one.
LEMMA OthersCopies ==
  ASSUME TaskInv, OwnNumbers, NEW t \in Tasks, Step(t),
         NEW u \in Tasks \ {t}, at[u] \in Started
  PROVE  received'[local[u].h] = received[local[u].h]
<1>1. local[u].h \in Handlings /\ local[u].h # 0 /\ StoreTypes
  BY BusyTask DEF TaskInv, Started, Handlings
<1>2. local[u].h # local[t].h
  BY <1>1 DEF OwnNumbers
<1>3. QED
  BY <1>1, <1>2, CopiesOnlySent DEF StoreTypes

\* What an attempt may come to: a label, after a copy that was acknowledged or
\* none at all, or another attempt, after one whose answer was lost at most.
LEMMA AttemptEffect ==
  ASSUME TaskInv, NEW t \in Tasks, Send(t) \/ Resend(t)
  PROVE  /\ at'[t] \in {"label", "resend"} /\ local'[t].h = local[t].h
         /\ at[t] = "resend" => at'[t] = "label"
         /\ at'[t] = "resend" => \/ received' = received
                                 \/ Second = 1
<1>1. /\ at[t] \in Started /\ TaskTypes /\ local[t] \in Locals /\ StoreTypes
      /\ at[t] \in {"send", "resend"}
  BY BusyTask DEF TaskInv, Send, Resend, Started, Steps
<1> DEFINE m == [local[t] EXCEPT !.form = FALSE]
<1>2. m \in Locals /\ m.h = local[t].h /\ m.form = FALSE
  <2>1. m \in Locals
    BY <1>1, LocalField
  <2>2. m.h = local[t].h /\ m.form = FALSE
    BY <1>1 DEF Locals
  <2>3. QED
    BY <2>1, <2>2
<1> HIDE DEF m
<1>3. PICK answer \in Answers, l \in Locals :
        /\ l.h = local[t].h /\ (at[t] = "resend" => ~l.form)
        /\ received' = [received EXCEPT ![local[t].h] = IF Done(answer) THEN @ + 1 ELSE @]
        /\ Goto(t, AfterForward(l, answer).step, AfterForward(l, answer).l)
  <2>1. CASE Send(t)
    BY <1>1, <2>1 DEF Send
  <2>2. CASE Resend(t)
    BY <1>2, <2>2 DEF Resend, m
  <2>3. QED
    BY <2>1, <2>2
<1>4. /\ AfterForward(l, answer).l \in Locals /\ AfterForward(l, answer).l.h = l.h
      /\ AfterForward(l, answer).step \in {"label", "resend"}
  BY AfterForwardTyped
<1>5. /\ at'[t] = AfterForward(l, answer).step /\ local'[t] = AfterForward(l, answer).l
  BY <1>1, <1>3, <1>4 DEF Goto, TaskTypes
<1>6. at[t] = "resend" => at'[t] = "label"
  BY <1>3, <1>5 DEF AfterForward
<1>7. ASSUME at'[t] = "resend" PROVE received' = received \/ Second = 1
  <2>1. answer # "ok"
    BY <1>5, <1>7 DEF AfterForward
  <2>2. CASE answer = "refused"
    BY <1>1, <1>3, <2>2 DEF Done, StoreTypes
  <2>3. CASE answer = "lost"
    BY <2>3 DEF Answers, Second
  <2>4. QED
    BY <2>1, <2>2, <2>3 DEF Answers
<1>8. QED
  BY <1>3, <1>4, <1>5, <1>6, <1>7

\* Every step of a task keeps the account of copies.
LEMMA StepKeepsCopies ==
  ASSUME TaskInv, OwnNumbers, CopiesInv, NEW t \in Tasks, Step(t)
  PROVE  CopiesInv'
<1> DEFINE h == local[t].h
<1>0. /\ TaskTypes /\ StoreTypes /\ StoreTypes' /\ TaskInv'
      /\ Second \in {0, 1} /\ started \in Nat /\ started' \in Nat
      /\ at[t] \in Started => h \in Handlings /\ h \in 1..started
  BY BusyTask, StepKinds, StepKeepsTasks, Bounds DEF TaskInv, StoreTypes, Second, Started
<1>1. /\ \A u \in Handlings : received[u] \in Nat
      /\ \A u \in Handlings : received[u] <= Second + 1
      /\ \A u \in Handlings : u > started => received[u] = 0
      /\ Sent(t) /\ DOMAIN received = Handlings
  BY <1>0 DEF CopiesInv, Bounded, Unbegun, StoreTypes
\* The step adds at most one copy, and only where there is room for it.
<1>2. \/ received' = received
      \/ /\ at[t] \in {"send", "resend"} /\ at[t] \in Started
         /\ received' = [received EXCEPT ![h] = @ + 1]
         /\ received[h] <= Second
  <2>1. "send" \in Before /\ "send" \in Started /\ "resend" \in Started
    BY DEF Before, Started, Steps
  <2>2. QED
    BY <1>0, <1>1, <2>1, CopiesOnlySent DEF Sent
<1>3. Bounded'
  BY <1>0, <1>1, <1>2 DEF Bounded
<1>4. started' >= started
  BY <1>0, StepKinds, Bounds DEF Reads, Start, GoesOn, Ends, handled
<1>5. Unbegun'
  <2>1. SUFFICES ASSUME NEW u \in Handlings, u > started' PROVE received'[u] = 0
    BY DEF Unbegun
  <2>2. u \in Nat /\ u > started
    BY <1>0, <1>4, <2>1 DEF Handlings
  <2>3. received[u] = 0 /\ (at[t] \in Started => h # u)
    BY <1>0, <1>1, <2>2
  <2>4. QED
    BY <1>0, <1>1, <1>2, <2>3
\* The task that took the step.
<1>6. Sent(t)'
  <2>1. CASE Reads(t)
    <3>1. at'[t] = "fetched"
      BY <1>0, <2>1 DEF Reads, Goto, TaskTypes
    <3>2. QED
      BY <3>1 DEF Sent, Before
  <2>2. CASE Start(t)
    <3>1. /\ at'[t] = "classify" /\ local'[t] = [Fresh EXCEPT !.h = started + 1]
          /\ received' = received /\ started + 1 \in Handlings
      BY <1>0, <2>2, Bounds DEF Start, Goto, TaskTypes, Handlings
    <3>2. [Fresh EXCEPT !.h = started + 1].h = started + 1
      BY DEF Fresh
    <3>3. received'[local'[t].h] = 0
      BY <1>0, <1>1, <3>1, <3>2
    <3>4. QED
      BY <3>1, <3>3 DEF Sent
  <2>3. CASE Ends(t)
    <3>1. at'[t] \in {"free", "fetch"}
      BY <1>0, <2>3, NextMoves DEF Ends, TaskInv, Busy
    <3>2. QED
      BY <3>1 DEF Sent, Before
  <2>4. CASE GoesOn(t)
    <3>1. local'[t].h = h /\ at[t] \in Started
      BY <1>0, <2>4, GotoMoves DEF GoesOn, Started
    <3>2. CASE at[t] \in Before \ {"send"}
      <4>1. received'[h] = 0
        BY <1>1, <1>2, <3>2 DEF Sent, Before
      <4>2. QED
        BY <1>0, <3>1, <4>1 DEF Sent
    <3>3. CASE Send(t) \/ Resend(t)
      <4>1. \/ at'[t] = "label"
            \/ /\ at'[t] = "resend" /\ at[t] = "send"
               /\ received' = received \/ Second = 1
        BY <1>0, <3>3, AttemptEffect DEF Send, Resend
      <4>2. CASE at'[t] = "label"
        BY <4>2 DEF Sent, Before
      <4>3. CASE /\ at'[t] = "resend" /\ at[t] = "send"
                 /\ received' = received \/ Second = 1
        <5>1. received[h] = 0
          BY <1>1, <4>3 DEF Sent, Before
        <5>2. received'[h] <= Second
          BY <1>0, <1>1, <1>2, <4>3, <5>1
        <5>3. QED
          BY <3>1, <4>3, <5>2 DEF Sent, Before
      <4>4. QED
        BY <4>1, <4>2, <4>3
    <3>4. CASE Withhold(t)
      BY <1>0, <3>4 DEF Withhold, Goto, TaskTypes, Sent, Before
    <3>5. CASE at[t] \in After
      BY <3>5, NoWayBack DEF Sent, Before, After
    <3>6. QED
      BY <3>1, <3>2, <3>3, <3>4, <3>5, StepAt DEF Started, Steps, Before, After
  <2>5. QED
    BY <2>1, <2>2, <2>3, <2>4, StepKinds
<1>7. ASSUME NEW u \in Tasks \ {t} PROVE Sent(u)'
  <2>1. at'[u] = at[u] /\ local'[u] = local[u]
    BY OthersKeep
  <2>2. at[u] \in Started => received'[local[u].h] = received[local[u].h]
    BY OthersCopies
  <2>3. at[u] \in Before \/ at[u] = "resend" => at[u] \in Started
    BY DEF Before, Started, Steps
  <2>4. Sent(u)
    BY DEF CopiesInv
  <2>5. QED
    BY <2>1, <2>2, <2>3, <2>4 DEF Sent
<1>8. QED
  BY <1>3, <1>5, <1>6, <1>7 DEF CopiesInv

-----------------------------------------------------------------------------
(* What a label says                                                        *)

\* The label a handling carries from place to place: the mark of an error, the
\* routing label of an RFQ, and in the end the plain RFQ label only when a
\* copy has gone to a desk.
Labelled(t) ==
  /\ at[t] = "label error" => local[t].labels = {"error"}
  /\ at[t] \in {"extract", "send", "resend"} =>
       local[t].forward /\ local[t].labels = ForResult(local[t])
  /\ at[t] \in {"label", "relabel"} /\ local[t].labels = {"rfq"} /\ ForwardEnabled =>
       received[local[t].h] > 0

LabelInv == NoSilentLoss /\ \A t \in Tasks : Labelled(t)

\* The plain RFQ label survives a delivery only when a copy was sent, the
\* forward is off, or a person must look at the message.
LEMMA DeliveryMarks ==
  ASSUME NEW l \in Locals, l.forward, l.labels = ForResult(l)
  PROVE  /\ Delivered(l, "FAILED").labels # {"rfq"}
         /\ Refusal(l) # Nowhere /\ ForwardEnabled =>
              Delivered(l, Refusal(l)).labels # {"rfq"}
<1>1. ASSUME NEW outcome \in Undelivered PROVE Delivered(l, outcome).labels # {"rfq"}
  <2> DEFINE m == [l EXCEPT !.outcome = outcome]
  <2>1. Delivered(l, outcome) = [m EXCEPT !.labels = m.labels \cup {"not sent"}]
    BY <1>1 DEF Delivered
  <2>2. m \in Locals
    BY <1>1, LocalField DEF Undelivered, Outcomes
  <2> HIDE DEF m
  <2>3. Delivered(l, outcome).labels = m.labels \cup {"not sent"}
    BY <2>1, <2>2 DEF Locals
  <2>4. "not sent" \in Delivered(l, outcome).labels /\ "not sent" \notin {"rfq"}
    BY <2>3
  <2>5. QED
    BY <2>4, Zenon
<1>2. Delivered(l, "FAILED").labels # {"rfq"}
  BY <1>1 DEF Undelivered
<1>3. ASSUME Refusal(l) # Nowhere, ForwardEnabled
      PROVE  Delivered(l, Refusal(l)).labels # {"rfq"}
  <2>1. CASE l.review
    <3>1. Refusal(l) = "UNSURE" /\ ForResult(l) = {"review"}
      BY <1>3, <2>1 DEF Refusal, ForResult
    <3>2. Delivered(l, "UNSURE").labels = l.labels
      BY DEF Delivered, Undelivered, Locals
    <3>3. QED
      BY <3>1, <3>2
  <2>2. CASE ~l.review
    <3>1. Refusal(l) \in Undelivered
      BY <1>3, <2>2 DEF Refusal, Undelivered
    <3>2. QED
      BY <1>1, <3>1
  <2>3. QED
    BY <2>1, <2>2
<1>4. QED
  BY <1>2, <1>3

\* What the step of a task does to what its own label says.
LEMMA StepKeepsOwnLabel ==
  ASSUME TaskInv, TaskInv', NEW t \in Tasks, Step(t), Labelled(t)
  PROVE  Labelled(t)'
<1> DEFINE l == local[t]
           Pending == {"extract", "send", "resend"}
<1>0. /\ TaskTypes /\ StoreTypes /\ l \in Locals /\ queue[t] # <<>>
      /\ at[t] \in Started => l.h \in Handlings
  BY BusyTask, StepAt DEF TaskInv, Started
<1>1. ASSUME NEW s, NEW m, Goto(t, s, m) PROVE at'[t] = s /\ local'[t] = m
  BY <1>0, <1>1 DEF Goto, TaskTypes
<1>2. ASSUME NEW s \in {"fetched", "classify", "journal", "open", "delivery", "update",
                        "match", "record error"},
             NEW m, Goto(t, s, m)
      PROVE  Labelled(t)'
  <2>1. at'[t] = s
    BY <1>1, <1>2
  <2>2. QED
    BY <2>1 DEF Labelled
<1>3. ASSUME NextMessage(t) PROVE Labelled(t)'
  <2>1. at'[t] \in {"free", "fetch"}
    BY <1>0, <1>3, NextMoves
  <2>2. QED
    BY <2>1 DEF Labelled
<1>4. CASE Fetch(t)
  BY <1>2, <1>3, <1>4 DEF Fetch, Abandon
<1>5. CASE Skip(t)
  BY <1>3, <1>5 DEF Skip
<1>6. CASE Start(t)
  BY <1>2, <1>6 DEF Start
<1>7. ASSUME Goto(t, "label error", [l EXCEPT !.labels = {"error"}]) PROVE Labelled(t)'
  <2>1. local'[t].labels = {"error"} /\ at'[t] = "label error"
    BY <1>0, <1>1, <1>7 DEF Locals
  <2>2. QED
    BY <2>1 DEF Labelled
<1>8. CASE Classify(t)
  BY <1>2, <1>7, <1>8 DEF Classify
<1>9. CASE JournalDecision(t)
  BY <1>2, <1>7, <1>9 DEF JournalDecision
<1>10. CASE OpenRecord(t)
  <2> DEFINE m == [l EXCEPT !.labels = ForResult(l)]
             next == IF m.forward THEN "extract" ELSE "label"
  <2>1. m \in Locals /\ m.labels = ForResult(l) /\ m.forward = l.forward /\ m.review = l.review
    <3>1. m \in Locals
      BY <1>0, LocalField, Helpers
    <3>2. m.labels = ForResult(l) /\ m.forward = l.forward /\ m.review = l.review
      BY <1>0 DEF Locals
    <3>3. QED
      BY <3>1, <3>2
  <2>2. [m EXCEPT !.known = TRUE].labels = m.labels
        /\ [m EXCEPT !.known = TRUE].forward = m.forward
        /\ [m EXCEPT !.known = TRUE].review = m.review
    BY <2>1 DEF Locals
  <2>3. \/ Goto(t, next, [m EXCEPT !.known = TRUE])
        \/ Goto(t, next, m)
    BY <1>10 DEF OpenRecord
  <2> HIDE DEF m
  <2>4. /\ at'[t] = IF l.forward THEN "extract" ELSE "label"
        /\ local'[t].labels = ForResult(l) /\ local'[t].forward = l.forward
        /\ local'[t].review = l.review
    BY <1>1, <2>1, <2>2, <2>3
  <2>5. ForResult(local'[t]) = ForResult(l)
    BY <2>4 DEF ForResult
  <2>6. ~l.forward => ForResult(l) # {"rfq"}
    BY DEF ForResult
  <2>7. l.forward \in BOOLEAN
    BY <1>0 DEF Locals
  <2>8. QED
    BY <2>4, <2>5, <2>6, <2>7 DEF Labelled, ForResult
<1>11. CASE Extract(t)
  <2>1. at[t] = "extract" /\ l.forward /\ l.labels = ForResult(l)
    BY <1>11 DEF Extract, Labelled
  <2>2. ASSUME NEW desk \in Desks, Goto(t, "send", [l EXCEPT !.desk = desk])
        PROVE  Labelled(t)'
    <3>1. /\ local'[t].labels = l.labels /\ local'[t].forward = l.forward
          /\ local'[t].review = l.review /\ at'[t] = "send"
      BY <1>0, <1>1, <2>2 DEF Locals
    <3>2. QED
      BY <2>1, <3>1 DEF Labelled, ForResult
  <2>3. ASSUME NEW items \in BOOLEAN, NEW form \in BOOLEAN, NEW desk \in Desks,
               Goto(t, "send", [l EXCEPT !.items = items, !.form = form, !.desk = desk])
        PROVE  Labelled(t)'
    <3>1. /\ local'[t].labels = l.labels /\ local'[t].forward = l.forward
          /\ local'[t].review = l.review /\ at'[t] = "send"
      BY <1>0, <1>1, <2>3 DEF Locals
    <3>2. QED
      BY <2>1, <3>1 DEF Labelled, ForResult
  <2>4. QED
    BY <1>3, <1>11, <2>2, <2>3 DEF Extract, Abandon
<1>12. CASE Withhold(t)
  <2>1. /\ at[t] = "send" /\ Refusal(l) # Nowhere
        /\ Goto(t, "label", Delivered(l, Refusal(l)))
    BY <1>12 DEF Withhold
  <2>2. l.forward /\ l.labels = ForResult(l)
    BY <2>1 DEF Labelled
  <2>3. at'[t] = "label" /\ local'[t] = Delivered(l, Refusal(l))
    BY <1>1, <2>1
  <2>4. ForwardEnabled => local'[t].labels # {"rfq"}
    BY <1>0, <2>1, <2>2, <2>3, DeliveryMarks
  <2>5. QED
    BY <2>3, <2>4 DEF Labelled
\* An attempt, with the form or without it.
<1>13. ASSUME NEW m \in Locals, NEW answer \in Answers, m.h = l.h, m.forward,
              m.labels = ForResult(m), at[t] \in {"send", "resend"},
              received' = [received EXCEPT ![l.h] = IF Done(answer) THEN @ + 1 ELSE @],
              Goto(t, AfterForward(m, answer).step, AfterForward(m, answer).l)
       PROVE  Labelled(t)'
  <2>1. l.h \in Handlings /\ received[l.h] \in Nat
    BY <1>0, <1>13 DEF StoreTypes, Started, Steps
  <2>2. /\ at'[t] = AfterForward(m, answer).step
        /\ local'[t] = AfterForward(m, answer).l
    BY <1>1, <1>13
  <2>3. CASE answer = "ok"
    <3>1. at'[t] = "label" /\ local'[t].h = l.h
      BY <1>13, <2>2, <2>3, Helpers DEF AfterForward, Outcomes
    <3>2. received'[l.h] > 0
      BY <1>0, <1>13, <2>1, <2>3 DEF Done, StoreTypes
    <3>3. QED
      BY <3>1, <3>2 DEF Labelled
  <2>4. CASE answer # "ok" /\ m.form
    <3>1. at'[t] = "resend" /\ local'[t] = m
      BY <2>2, <2>4 DEF AfterForward
    <3>2. QED
      BY <1>13, <3>1 DEF Labelled, ForResult
  <2>5. CASE answer # "ok" /\ ~m.form
    <3>1. at'[t] = "label" /\ local'[t] = Delivered(m, "FAILED")
      BY <2>2, <2>5 DEF AfterForward
    <3>2. local'[t].labels # {"rfq"}
      BY <1>13, <3>1, DeliveryMarks
    <3>3. QED
      BY <3>1, <3>2 DEF Labelled
  <2>6. QED
    BY <2>3, <2>4, <2>5
<1>14. CASE Send(t)
  <2>1. at[t] = "send" /\ l.forward /\ l.labels = ForResult(l)
    BY <1>14 DEF Send, Labelled
  <2>2. QED
    BY <1>0, <1>13, <1>14, <2>1 DEF Send
<1>15. CASE Resend(t)
  <2> DEFINE m == [l EXCEPT !.form = FALSE]
  <2>1. at[t] = "resend" /\ l.forward /\ l.labels = ForResult(l)
    BY <1>15 DEF Resend, Labelled
  <2>2. m \in Locals
    BY <1>0, LocalField
  <2>3. m.h = l.h /\ m.forward = l.forward /\ m.review = l.review /\ m.labels = l.labels
    BY <1>0 DEF Locals
  <2>4. m.forward /\ m.labels = ForResult(m)
    BY <2>1, <2>3 DEF ForResult
  <2>5. \E answer \in Answers :
          /\ received' = [received EXCEPT ![l.h] = IF Done(answer) THEN @ + 1 ELSE @]
          /\ Goto(t, AfterForward(m, answer).step, AfterForward(m, answer).l)
    BY <1>15 DEF Resend
  <2> HIDE DEF m
  <2>6. QED
    BY <1>13, <2>1, <2>2, <2>3, <2>4, <2>5
<1>16. ASSUME NEW answer, Goto(t, AfterLabel(l, answer = "ok").step,
                                  AfterLabel(l, answer = "ok").l)
       PROVE  Labelled(t)'
  <2>1. AfterLabel(l, answer = "ok").step \in {"update", "delivery"}
    BY DEF AfterLabel
  <2>2. QED
    BY <1>2, <1>16, <2>1
<1>17. CASE Label(t)
  <2>1. CASE Goto(t, "relabel", l)
    <3>1. /\ at'[t] = "relabel" /\ local'[t] = l /\ at[t] = "label"
          /\ received' = received
      BY <1>1, <1>17, <2>1 DEF Label
    <3>2. QED
      BY <3>1 DEF Labelled
  <2>2. QED
    BY <1>16, <1>17, <2>1 DEF Label
<1>18. CASE Relabel(t)
  BY <1>16, <1>18 DEF Relabel
<1>19. CASE JournalDelivery(t)
  BY <1>2, <1>3, <1>19 DEF JournalDelivery, Abandon
<1>20. CASE UpdateRecord(t)
  BY <1>2, <1>20 DEF UpdateRecord
<1>21. CASE Match(t)
  BY <1>3, <1>21 DEF Match
<1>22. CASE LabelError(t)
  BY <1>2, <1>22 DEF LabelError
<1>23. CASE RecordError(t)
  BY <1>3, <1>23 DEF RecordError, Abandon
<1>24. QED
  BY <1>4, <1>5, <1>6, <1>8, <1>9, <1>10, <1>11, <1>12, <1>14, <1>15, <1>17, <1>18, <1>19,
     <1>20, <1>21, <1>22, <1>23 DEF Step

\* Every step of a task keeps what the labels say.
LEMMA StepKeepsLabels ==
  ASSUME TaskInv, OwnNumbers, CopiesInv, LabelInv, NEW t \in Tasks, Step(t)
  PROVE  LabelInv'
<1>0. /\ TaskTypes /\ StoreTypes /\ StoreTypes' /\ TaskInv' /\ started \in Nat
      /\ Message(t) \in Messages
      /\ at[t] \in Started => /\ local[t].h \in Handlings /\ local[t].h \in 1..started
                              /\ of[local[t].h] = Message(t)
  <2>1. TaskTypes /\ StoreTypes /\ started \in Nat
    BY Bounds DEF TaskInv, StoreTypes
  <2>2. StoreTypes' /\ TaskInv' /\ at[t] # "free"
    BY StepAt, StepKinds, StepKeepsTasks
  <2>3. QED
    BY <2>1, <2>2, BusyTask
\* Copies are never taken back, and a handling keeps its message.
<1>1. \A h \in Handlings : received'[h] >= received[h]
  <2>1. received \in [Handlings -> Nat]
    BY <1>0 DEF StoreTypes
  <2>2. QED
    BY <1>0, <2>1, CopiesOnlySent
<1>2. \A h \in Handlings : received[h] > 0 => of'[h] = of[h]
  <2>1. CASE UNCHANGED of
    BY <2>1
  <2>2. CASE Start(t)
    BY <1>0, <2>2, Bounds DEF Start, StoreTypes, CopiesInv, Unbegun, Handlings
  <2>3. QED
    BY <2>1, <2>2, StepKinds DEF Reads, GoesOn, Ends, handled
<1>3. ASSUME NEW m \in Messages, Forwarded(m) # {} PROVE Forwarded(m)' # {}
  <2>1. PICK h \in Handlings : of[h] = m /\ received[h] > 0
    BY <1>3 DEF Forwarded
  <2>2. received[h] \in Nat /\ received'[h] \in Nat
    BY <1>0 DEF StoreTypes
  <2>3. of'[h] = m /\ received'[h] > 0
    BY <1>1, <1>2, <2>1, <2>2
  <2>4. QED
    BY <2>3 DEF Forwarded
<1>4. Labelled(t)'
  BY <1>0, StepKeepsOwnLabel DEF LabelInv
<1>5. ASSUME NEW u \in Tasks \ {t} PROVE Labelled(u)'
  <2>1. at'[u] = at[u] /\ local'[u] = local[u] /\ Labelled(u)
    BY OthersKeep DEF LabelInv
  <2>2. at[u] \in {"label", "relabel"} => received'[local[u].h] = received[local[u].h]
    BY OthersCopies DEF Started, Steps
  <2>3. QED
    BY <2>1, <2>2 DEF Labelled, ForResult
<1>6. NoSilentLoss'
  <2>1. SUFFICES ASSUME ForwardEnabled, NEW m \in Messages, category'[m] = {"rfq"}
                 PROVE  Forwarded(m)' # {}
    BY DEF NoSilentLoss
  <2>2. CASE category'[m] = category[m]
    BY <1>3, <2>1, <2>2 DEF LabelInv, NoSilentLoss
  <2>3. CASE category'[m] # category[m]
    <3>1. /\ at[t] \in {"label", "relabel", "label error"}
          /\ m = Message(t) /\ local[t].labels = {"rfq"}
      <4>1. /\ at[t] \in {"label", "relabel", "label error"}
            /\ category' = [category EXCEPT ![Message(t)] = local[t].labels]
        BY <1>0, <2>3, OnlyLabelsStamp
      <4>2. category \in [Messages -> SUBSET Names]
        BY <1>0 DEF StoreTypes
      <4>3. m = Message(t)
        BY ONLY <2>1, <2>3, <4>1, <4>2, m \in Messages
      <4>4. category'[Message(t)] = local[t].labels
        BY <1>0, <4>1, <4>2
      <4>5. QED
        BY <2>1, <4>1, <4>3, <4>4
    <3>2. at[t] \in {"label", "relabel"}
      <4>1. CASE at[t] = "label error"
        <5>1. {"rfq"} = {"error"}
          BY <3>1, <4>1 DEF LabelInv, Labelled
        <5>2. "rfq" \in {"error"}
          BY <5>1
        <5>3. QED
          BY <5>2
      <4>2. QED
        BY <3>1, <4>1
    <3>3. received[local[t].h] > 0
      BY <2>1, <3>1, <3>2 DEF LabelInv, Labelled
    <3>4. local[t].h \in Handlings /\ of[local[t].h] = m
      BY <1>0, <3>1, <3>2 DEF Started, Steps
    <3>5. QED
      BY <1>3, <3>3, <3>4 DEF Forwarded
  <2>4. QED
    BY <2>2, <2>3
<1>7. QED
  BY <1>4, <1>5, <1>6 DEF LabelInv

-----------------------------------------------------------------------------
(* What the journal says                                                    *)

\* A delivery line of a handling that says these three things.
HasLine(h, outcome, labels, labelled) ==
  \E i \in DOMAIN journal[h] :
    /\ journal[h][i].type = "delivery"
    /\ journal[h][i].outcome = outcome
    /\ journal[h][i].labels = labels
    /\ Yes(journal[h][i].labelled) = labelled

\* The delivery of an RFQ is in the journal before its record is updated.
Told(t) ==
  at[t] = "update" /\ local[t].outcome # Nowhere =>
    HasLine(local[t].h, local[t].outcome, local[t].labels, Yes(local[t].labelled))

JournalInv == RecordBehindJournal /\ \A t \in Tasks : Told(t)

\* A journal is only ever appended to, so a line stays where it was written.
LEMMA JournalGrows ==
  ASSUME TaskInv, NEW t \in Tasks, Step(t), NEW h \in Handlings
  PROVE  \/ journal'[h] = journal[h]
         \/ \E line \in LineType : journal'[h] = Append(journal[h], line)
<1>0. StoreTypes /\ (at[t] \in {"journal", "extract", "delivery"} => local[t] \in Locals)
  BY BusyTask DEF TaskInv
<1>1. ASSUME NEW type \in {"decision", "extraction", "delivery"},
             at[t] \in {"journal", "extract", "delivery"},
             journal' = [journal EXCEPT ![local[t].h] = Append(@, Line(type, local[t]))]
      PROVE  \/ journal'[h] = journal[h]
             \/ \E line \in LineType : journal'[h] = Append(journal[h], line)
  BY <1>0, <1>1, LineTyped DEF StoreTypes
<1>2. CASE JournalDecision(t)
  BY <1>1, <1>2 DEF JournalDecision
<1>3. CASE Extract(t)
  BY <1>1, <1>3 DEF Extract, store
<1>4. CASE JournalDelivery(t)
  BY <1>1, <1>4 DEF JournalDelivery
<1>5. CASE UNCHANGED journal
  BY <1>5
<1>6. QED
  BY <1>2, <1>3, <1>4, <1>5 DEF Step, store, Fetch, Skip, Start, Classify, OpenRecord, Withhold,
     Send, Resend, Label, Relabel, UpdateRecord, Match, LabelError, RecordError

LEMMA LinesStay ==
  ASSUME TaskInv, NEW t \in Tasks, Step(t), NEW h \in Handlings,
         NEW outcome, NEW labels, NEW labelled, HasLine(h, outcome, labels, labelled)
  PROVE  HasLine(h, outcome, labels, labelled)'
<1>1. journal[h] \in Seq(LineType)
  BY DEF TaskInv, StoreTypes
<1>2. PICK i \in DOMAIN journal[h] :
        /\ journal[h][i].type = "delivery"
        /\ journal[h][i].outcome = outcome
        /\ journal[h][i].labels = labels
        /\ Yes(journal[h][i].labelled) = labelled
  BY DEF HasLine
<1>3. i \in DOMAIN journal'[h] /\ journal'[h][i] = journal[h][i]
  <2>1. CASE journal'[h] = journal[h]
    BY <2>1
  <2>2. CASE \E line \in LineType : journal'[h] = Append(journal[h], line)
    BY <1>1, <2>2
  <2>3. QED
    BY <2>1, <2>2, JournalGrows
<1>4. QED
  BY <1>2, <1>3 DEF HasLine

\* Before the record is updated, the delivery line is written.
LEMMA StepKeepsOwnTold ==
  ASSUME TaskInv, NEW t \in Tasks, Step(t), Told(t)
  PROVE  Told(t)'
<1> DEFINE l == local[t]
<1>0. /\ TaskTypes /\ StoreTypes /\ l \in Locals /\ queue[t] # <<>>
      /\ at[t] = "delivery" => l.h \in Handlings
  BY BusyTask, StepAt DEF TaskInv, Started, Steps
<1>1. ASSUME NEW s, NEW m, Goto(t, s, m) PROVE at'[t] = s /\ local'[t] = m
  BY <1>0, <1>1 DEF Goto, TaskTypes
<1>2. ASSUME NEW s, NEW m, s # "update", Goto(t, s, m) PROVE Told(t)'
  <2>1. at'[t] # "update"
    BY <1>1, <1>2
  <2>2. QED
    BY <2>1 DEF Told
<1>3. ASSUME NextMessage(t) PROVE Told(t)'
  <2>1. at'[t] # "update"
    BY <1>0, <1>3, NextMoves
  <2>2. QED
    BY <2>1 DEF Told
<1>4. CASE Fetch(t)
  BY <1>2, <1>3, <1>4 DEF Fetch, Abandon
<1>5. CASE Skip(t)
  BY <1>3, <1>5 DEF Skip
<1>6. CASE Start(t)
  BY <1>2, <1>6 DEF Start
<1>7. CASE Classify(t)
  BY <1>2, <1>7 DEF Classify
<1>8. CASE JournalDecision(t)
  BY <1>2, <1>8 DEF JournalDecision
<1>9. CASE OpenRecord(t)
  BY <1>2, <1>9 DEF OpenRecord
<1>10. CASE Extract(t)
  BY <1>2, <1>3, <1>10 DEF Extract, Abandon
<1>11. CASE Withhold(t)
  BY <1>2, <1>11 DEF Withhold
<1>12. CASE Send(t) \/ Resend(t)
  <2>1. at'[t] # "update"
    BY <1>12, AttemptEffect
  <2>2. QED
    BY <2>1 DEF Told
<1>13. ASSUME NEW answer, Goto(t, AfterLabel(l, answer = "ok").step,
                                  AfterLabel(l, answer = "ok").l)
       PROVE  Told(t)'
  <2>1. CASE l.outcome = Nowhere
    <3>1. local'[t] = [l EXCEPT !.labelled = (answer = "ok")]
      BY <1>1, <1>13 DEF AfterLabel
    <3>2. local'[t].outcome = Nowhere
      BY <1>0, <2>1, <3>1 DEF Locals
    <3>3. QED
      BY <3>2 DEF Told
  <2>2. CASE l.outcome # Nowhere
    BY <1>2, <1>13, <2>2 DEF AfterLabel
  <2>3. QED
    BY <2>1, <2>2
<1>14. CASE Label(t)
  BY <1>2, <1>13, <1>14 DEF Label
<1>15. CASE Relabel(t)
  BY <1>13, <1>15 DEF Relabel
<1>16. CASE JournalDelivery(t)
  <2>1. CASE /\ journal' = [journal EXCEPT ![l.h] = Append(@, Line("delivery", l))]
             /\ Goto(t, "update", l)
    <3> DEFINE line == Line("delivery", l)
               i == Len(journal[l.h]) + 1
    <3>1. l.h \in Handlings /\ journal[l.h] \in Seq(LineType) /\ line \in LineType
      BY <1>0, <1>16, LineTyped DEF JournalDelivery, StoreTypes
    <3>2. line.type = "delivery" /\ line.outcome = l.outcome /\ line.labels = l.labels
          /\ line.labelled = l.labelled
      BY DEF Line
    <3> HIDE DEF line
    <3>3. journal'[l.h] = Append(journal[l.h], line)
      BY <1>0, <2>1, <3>1 DEF StoreTypes, line
    <3>4. i \in DOMAIN journal'[l.h] /\ journal'[l.h][i] = line
      BY <3>1, <3>3
    <3>5. HasLine(l.h, l.outcome, l.labels, Yes(l.labelled))'
      <4>1. journal'[l.h][i].type = "delivery" /\ journal'[l.h][i].outcome = l.outcome
            /\ journal'[l.h][i].labels = l.labels
            /\ Yes(journal'[l.h][i].labelled) = Yes(l.labelled)
        BY <3>2, <3>4
      <4>2. local'[t] = l
        BY <1>1, <2>1
      <4> HIDE DEF i
      <4>3. QED
        BY <3>4, <4>1, <4>2 DEF HasLine
    <3>6. local'[t] = l
      BY <1>1, <2>1
    <3>7. QED
      BY <3>5, <3>6 DEF Told
  <2>2. QED
    BY <1>3, <1>16, <2>1 DEF JournalDelivery, Abandon
<1>17. CASE UpdateRecord(t)
  BY <1>2, <1>17 DEF UpdateRecord
<1>18. CASE Match(t)
  BY <1>3, <1>18 DEF Match
<1>19. CASE LabelError(t)
  BY <1>2, <1>19 DEF LabelError
<1>20. CASE RecordError(t)
  BY <1>3, <1>20 DEF RecordError, Abandon
<1>21. QED
  BY <1>4, <1>5, <1>6, <1>7, <1>8, <1>9, <1>10, <1>11, <1>12, <1>14, <1>15, <1>16, <1>17, <1>18,
     <1>19, <1>20 DEF Step

\* What a page may say of a delivery comes from the update alone: a step leaves
\* what the record says as it was, says nothing of a delivery, or says what the
\* handling found.
LEMMA RecordEffect ==
  ASSUME TaskInv, NEW t \in Tasks, Step(t), NEW h \in Handlings
  PROVE  \/ /\ record'[h].outcome = record[h].outcome
            /\ record'[h].labels = record[h].labels
            /\ record'[h].labelled = record[h].labelled
         \/ record'[h].outcome = Nowhere
         \/ /\ at[t] = "update" /\ h = local[t].h
            /\ record'[h].outcome = local[t].outcome
            /\ record'[h].labels = local[t].labels
            /\ record'[h].labelled = Yes(local[t].labelled)
<1> DEFINE l == local[t]
           Same(r) == /\ r.outcome = record[l.h].outcome
                      /\ r.labels = record[l.h].labels
                      /\ r.labelled = record[l.h].labelled
<1>0. /\ StoreTypes /\ l \in Locals
      /\ at[t] \in Started => l.h \in Handlings
  BY BusyTask, StepAt DEF TaskInv, Started
<1>1. record \in [Handlings -> Records] /\ (l.h \in Handlings => record[l.h] \in Records)
  BY <1>0 DEF StoreTypes
<1>2. CASE record' = record
  BY <1>2
<1>3. ASSUME NEW r, l.h \in Handlings, Same(r), record' = [record EXCEPT ![l.h] = r]
      PROVE  /\ record'[h].outcome = record[h].outcome
             /\ record'[h].labels = record[h].labels
             /\ record'[h].labelled = record[h].labelled
  BY <1>1, <1>3
<1>4. CASE OpenRecord(t)
  <2> DEFINE m == [l EXCEPT !.labels = ForResult(l)]
             r == [record[l.h] EXCEPT !.open = TRUE, !.decided = TRUE]
  <2>1. l.h \in Handlings /\ m.h = l.h
    BY <1>0, <1>4 DEF OpenRecord, Started, Steps, Locals
  <2>2. record' = record \/ record' = [record EXCEPT ![m.h].open = TRUE, ![m.h].decided = TRUE]
    BY <1>4 DEF OpenRecord
  <2> HIDE DEF m
  <2>3. record' = record \/ record' = [record EXCEPT ![l.h] = r]
    BY <1>1, <2>1, <2>2
  <2>4. Same(r)
    BY <1>1, <2>1 DEF Records
  <2> HIDE DEF r
  <2>5. QED
    BY <1>2, <1>3, <2>1, <2>3, <2>4
<1>5. CASE Extract(t)
  <2> DEFINE r == [record[l.h] EXCEPT !.extraction = TRUE]
  <2>1. l.h \in Handlings
    BY <1>0, <1>5 DEF Extract, Started, Steps
  <2>2. record' = record \/ record' = [record EXCEPT ![l.h] = r]
    BY <1>5 DEF Extract, Update, store
  <2>3. Same(r)
    BY <1>1, <2>1 DEF Records
  <2> HIDE DEF r
  <2>4. QED
    BY <1>2, <1>3, <2>1, <2>2, <2>3
<1>6. CASE Match(t)
  <2> DEFINE r == [record[l.h] EXCEPT !.matching = TRUE]
  <2>1. l.h \in Handlings
    BY <1>0, <1>6 DEF Match, Started, Steps
  <2>2. record' = record \/ record' = [record EXCEPT ![l.h] = r]
    BY <1>6 DEF Match, Update
  <2>3. Same(r)
    BY <1>1, <2>1 DEF Records
  <2> HIDE DEF r
  <2>4. QED
    BY <1>2, <1>3, <2>1, <2>2, <2>3
<1>7. CASE UpdateRecord(t)
  <2> DEFINE r == [record[l.h] EXCEPT !.labels = l.labels, !.labelled = Yes(l.labelled),
                                      !.outcome = l.outcome]
  <2>1. l.h \in Handlings /\ at[t] = "update"
    BY <1>0, <1>7 DEF UpdateRecord, Started, Steps
  <2>2. record' = record \/ record' = [record EXCEPT ![l.h] = r]
    BY <1>7 DEF UpdateRecord, Update
  <2>3. r.outcome = l.outcome /\ r.labels = l.labels /\ r.labelled = Yes(l.labelled)
    BY <1>1, <2>1 DEF Records
  <2> HIDE DEF r
  <2>4. QED
    BY <1>1, <2>1, <2>2, <2>3
<1>8. CASE RecordError(t)
  <2> DEFINE opened == [NoRecord EXCEPT !.open = TRUE]
             r == [opened EXCEPT !.labels = l.labels, !.error = TRUE]
  <2>1. l.h \in Handlings
    BY <1>0, <1>8 DEF RecordError, Started, Steps
  <2>2. \/ record' = record
        \/ record' = [record EXCEPT ![l.h] = r]
        \/ record' = [record EXCEPT ![l.h] = opened]
    BY <1>8 DEF RecordError
  <2>3. opened.outcome = Nowhere
    BY NoRecordTyped DEF NoRecord, Records
  <2>4. r.outcome = Nowhere
    BY DEF NoRecord
  <2> HIDE DEF r, opened
  <2>5. QED
    BY <1>1, <2>1, <2>2, <2>3, <2>4
<1>9. QED
  BY <1>2, <1>4, <1>5, <1>6, <1>7, <1>8 DEF Step, store, Fetch, Skip, Start, Classify,
     JournalDecision, Withhold, Send, Resend, Label, Relabel, JournalDelivery, LabelError

\* Every step of a task keeps the journal ahead of the pages.
LEMMA StepKeepsJournal ==
  ASSUME TaskInv, OwnNumbers, JournalInv, NEW t \in Tasks, Step(t)
  PROVE  JournalInv'
<1>1. ASSUME NEW u \in Tasks PROVE Told(u)'
  <2>1. CASE u = t
    BY <2>1, StepKeepsOwnTold DEF JournalInv
  <2>2. CASE u # t
    <3>1. at'[u] = at[u] /\ local'[u] = local[u]
      BY <2>2, OthersKeep
    <3>2. at[u] = "update" => local[u].h \in Handlings
      BY BusyTask DEF Started, Steps
    <3>3. SUFFICES ASSUME at[u] = "update", local[u].outcome # Nowhere
                   PROVE  HasLine(local[u].h, local[u].outcome, local[u].labels,
                                  Yes(local[u].labelled))'
      BY <3>1 DEF Told
    <3>4. HasLine(local[u].h, local[u].outcome, local[u].labels, Yes(local[u].labelled))
      BY <3>3 DEF JournalInv, Told
    <3> DEFINE a == local[u].h
               b == local[u].outcome
               c == local[u].labels
               d == Yes(local[u].labelled)
    <3>5. \E i \in DOMAIN journal'[a] :
            /\ journal'[a][i].type = "delivery" /\ journal'[a][i].outcome = b
            /\ journal'[a][i].labels = c /\ Yes(journal'[a][i].labelled) = d
      <4> HIDE DEF a, b, c, d
      <4>1. a \in Handlings /\ HasLine(a, b, c, d)
        BY <3>2, <3>3, <3>4 DEF a, b, c, d
      <4>2. QED
        BY <4>1, LinesStay DEF HasLine
    <3>6. QED
      BY <3>1, <3>5 DEF HasLine
  <2>3. QED
    BY <2>1, <2>2
<1>2. RecordBehindJournal'
  <2>1. SUFFICES ASSUME NEW h \in Handlings, record'[h].outcome # Nowhere
                 PROVE  HasLine(h, record[h].outcome, record[h].labels, record[h].labelled)'
    BY DEF RecordBehindJournal, HasLine
  <2>2. PICK outcome, labels, labelled :
          /\ HasLine(h, outcome, labels, labelled)
          /\ record'[h].outcome = outcome /\ record'[h].labels = labels
          /\ record'[h].labelled = labelled
    <3>1. CASE /\ record'[h].outcome = record[h].outcome
               /\ record'[h].labels = record[h].labels
               /\ record'[h].labelled = record[h].labelled
      <4>1. HasLine(h, record[h].outcome, record[h].labels, record[h].labelled)
        BY <2>1, <3>1 DEF JournalInv, RecordBehindJournal, HasLine
      <4>2. QED
        BY <3>1, <4>1
    <3>2. CASE /\ at[t] = "update" /\ h = local[t].h
               /\ record'[h].outcome = local[t].outcome
               /\ record'[h].labels = local[t].labels
               /\ record'[h].labelled = Yes(local[t].labelled)
      <4>1. HasLine(h, local[t].outcome, local[t].labels, Yes(local[t].labelled))
        BY <2>1, <3>2 DEF JournalInv, Told
      <4>2. QED
        BY <3>2, <4>1
    <3>3. QED
      BY <2>1, <3>1, <3>2, RecordEffect
  <2>3. QED
    BY <2>2, LinesStay DEF HasLine
<1>3. QED
  BY <1>1, <1>2 DEF JournalInv

-----------------------------------------------------------------------------
(* Whatever the memory forgets                                              *)

HandlingInv == Typed /\ CopiesInv /\ LabelInv /\ JournalInv

\* A notification, a restart or no step at all leaves every handling where it
\* is, or drops it.
LEMMA OutsideKeeps ==
  ASSUME HandlingInv, UNCHANGED <<category, handled, received, store>>,
         \A t \in Tasks : \/ at'[t] \in {"free", "fetch"}
                          \/ at'[t] = at[t] /\ local'[t] = local[t]
  PROVE  CopiesInv' /\ LabelInv' /\ JournalInv'
<1>1. /\ category' = category /\ started' = started /\ of' = of /\ received' = received
      /\ journal' = journal /\ record' = record
  BY DEF handled, store
<1>2. Bounded' /\ Unbegun' /\ NoSilentLoss' /\ RecordBehindJournal'
  BY <1>1 DEF HandlingInv, CopiesInv, LabelInv, JournalInv, Bounded, Unbegun, NoSilentLoss,
              Forwarded, RecordBehindJournal
<1>3. ASSUME NEW t \in Tasks PROVE Sent(t)' /\ Labelled(t)' /\ Told(t)'
  <2>1. CASE at'[t] \in {"free", "fetch"}
    BY <2>1 DEF Sent, Before, Labelled, Told
  <2>2. CASE at'[t] = at[t] /\ local'[t] = local[t]
    <3>1. Sent(t) /\ Labelled(t) /\ Told(t)
      BY DEF HandlingInv, CopiesInv, LabelInv, JournalInv
    <3>2. Sent(t)'
      BY <1>1, <2>2, <3>1 DEF Sent
    <3>3. Labelled(t)'
      BY <1>1, <2>2, <3>1 DEF Labelled, ForResult
    <3>4. Told(t)'
      BY <1>1, <2>2, <3>1 DEF Told, HasLine
    <3>5. QED
      BY <3>2, <3>3, <3>4
  <2>3. QED
    BY <2>1, <2>2
<1>4. QED
  BY <1>2, <1>3 DEF CopiesInv, LabelInv, JournalInv

\* The invariant of handle: the account of copies, what the labels say and what
\* the journal says, kept through every interleaving of the tasks and every
\* restart, and however often an id is notified again.
THEOREM HandlingsHold == Spec => []HandlingInv
<1>1. Init /\ Typed => HandlingInv
  <2> SUFFICES ASSUME Init, Typed PROVE HandlingInv
    OBVIOUS
  <2>1. CopiesInv
    BY DEF Init, CopiesInv, Bounded, Unbegun, Sent, Before, Second
  <2>2. LabelInv
    BY DEF Init, LabelInv, NoSilentLoss, Labelled
  <2>3. JournalInv
    BY NoRecordTyped DEF Init, JournalInv, RecordBehindJournal, Told
  <2>4. QED
    BY <2>1, <2>2, <2>3 DEF HandlingInv
<1>2. HandlingInv /\ [Next]_vars /\ Typed' => HandlingInv'
  <2> SUFFICES ASSUME HandlingInv, [Next]_vars, Typed' PROVE HandlingInv'
    OBVIOUS
  <2>0. /\ TaskInv /\ OwnNumbers /\ CopiesInv /\ LabelInv /\ JournalInv /\ Typed
        /\ at \in [Tasks -> Steps]
    BY DEF HandlingInv, Typed, TaskInv, TaskTypes
  <2>1. ASSUME NEW batch \in Batches, Notify(batch) PROVE HandlingInv'
    <3>1. /\ UNCHANGED <<category, handled, received, store>> /\ local' = local
          /\ at' = at \/ \E t \in Tasks : at' = [at EXCEPT ![t] = "fetch"]
      BY <2>0, <2>1, NotifyMoves
    <3>2. \A t \in Tasks : \/ at'[t] \in {"free", "fetch"}
                           \/ at'[t] = at[t] /\ local'[t] = local[t]
      BY <2>0, <3>1
    <3>3. QED
      BY <3>1, <3>2, OutsideKeeps DEF HandlingInv
  <2>2. CASE Crash
    <3>1. UNCHANGED <<category, handled, received, store>>
      BY <2>2 DEF Crash
    <3>2. \A t \in Tasks : at'[t] = "free"
      BY <2>2 DEF Crash
    <3>3. \A t \in Tasks : \/ at'[t] \in {"free", "fetch"}
                           \/ at'[t] = at[t] /\ local'[t] = local[t]
      BY <3>2
    <3>4. CopiesInv' /\ LabelInv' /\ JournalInv'
      BY <3>1, <3>3, OutsideKeeps
    <3>5. QED
      BY <3>4 DEF HandlingInv
  <2>3. ASSUME NEW t \in Tasks, Step(t) PROVE HandlingInv'
    BY <2>0, <2>3, StepKeepsCopies, StepKeepsLabels, StepKeepsJournal DEF HandlingInv
  <2>4. CASE UNCHANGED vars
    BY <2>4, OutsideKeeps DEF vars, process, HandlingInv
  <2>5. QED
    BY <2>1, <2>2, <2>3, <2>4 DEF Next
<1>3. QED
  BY <1>1, <1>2, TypeCorrect, PTL DEF Spec

\* A message that carries the RFQ label and nothing beside it has reached a
\* desk, at every moment and through every crash: "forwarding runs before
\* labelling on purpose".
THEOREM NobodyTrustsAnEmptyLabel == Spec => []NoSilentLoss
<1>1. HandlingInv => NoSilentLoss
  BY DEF HandlingInv, LabelInv
<1>2. QED
  BY <1>1, HandlingsHold, PTL

\* What a page says became of an RFQ is in the decision journal already.
THEOREM PagesFollowTheJournal == Spec => []RecordBehindJournal
<1>1. HandlingInv => RecordBehindJournal
  BY DEF HandlingInv, JournalInv
<1>2. QED
  BY <1>1, HandlingsHold, PTL

\* One handling puts one copy on a desk at most, or two when the answer to the
\* first attempt can be lost.
THEOREM CopiesAreBounded ==
  Spec => [](\A h \in Handlings : received[h] <= IF May("reply") THEN 2 ELSE 1)
<1>1. HandlingInv => \A h \in Handlings : received[h] <= IF May("reply") THEN 2 ELSE 1
  BY DEF HandlingInv, CopiesInv, Bounded, Second
<1>2. QED
  BY <1>1, HandlingsHold, PTL

-----------------------------------------------------------------------------
(* While the memory forgets nothing                                         *)

\* The memory has room for every message there is.
MemoryHoldsAll == IsFiniteSet(Messages) /\ Cardinality(Messages) <= Capacity

\* ProcessedMessages forgets an id only to make room for another.  It has not
\* forgotten any while it is not full, whatever the inbox holds, nor if it has
\* room for all there is.
Roomy == Len(processed) < Capacity \/ MemoryHoldsAll

\* No id is in a sequence twice.
Single(s) == \A i, j \in DOMAIN s : s[i] = s[j] => i = j

\* A memory without duplicates that misses one message has room for it.
LEMMA RoomForOneMore ==
  ASSUME MemoryHoldsAll, NEW s \in Seq(Messages), Single(s),
         NEW m \in Messages, m \notin ToSet(s)
  PROVE  Len(s) < Capacity
<1> DEFINE n == Len(s) + 1
           f == [i \in 1..n |-> IF i = n THEN m ELSE s[i]]
<1>0. Len(s) \in Nat /\ n \in Nat /\ Capacity \in Nat /\ DOMAIN s = 1..Len(s)
  BY Bounds
<1>1. f \in [1..n -> Messages]
  BY <1>0
<1>2. \A i, j \in 1..n : i # j => f[i] # f[j]
  <2>1. \A i \in 1..Len(s) : s[i] # m
    BY <1>0 DEF ToSet
  <2>2. \A i, j \in 1..Len(s) : s[i] = s[j] => i = j
    BY <1>0 DEF Single
  <2>3. \A i \in 1..n : i # n => i \in 1..Len(s)
    BY <1>0
  <2>4. QED
    BY <1>0, <2>1, <2>2, <2>3
<1>3. IsFiniteSet(1..n) /\ Cardinality(1..n) = n
  BY <1>0, FS_Interval
<1>4. IsFiniteSet(Messages) /\ Cardinality(Messages) \in Nat /\ Cardinality(Messages) <= Capacity
  BY FS_CardinalityType DEF MemoryHoldsAll
<1> HIDE DEF f
<1>5. ~ (Cardinality(Messages) < n)
  <2> HIDE DEF n
  <2>1. QED
    BY <1>1, <1>2, <1>3, <1>4, FS_PigeonHole
<1>6. QED
  BY <1>0, <1>4, <1>5

\* A memory with room after a batch only grew: the batch left the ids it held,
\* and what it added is what it called fresh.  Once full, it stays full.
LEMMA RegisteredWhole ==
  ASSUME MemoryTypes, Single(processed), NEW batch \in Seq(Messages),
         Len(Registered(batch).ids) < Capacity \/ MemoryHoldsAll
  PROVE  /\ Single(Registered(batch).ids) /\ Single(Registered(batch).fresh)
         /\ ToSet(processed) \subseteq ToSet(Registered(batch).ids)
         /\ ToSet(Registered(batch).fresh) =
              ToSet(Registered(batch).ids) \ ToSet(processed)
<1> DEFINE Whole(seen) == /\ Single(seen.ids) /\ Single(seen.fresh)
                          /\ ToSet(processed) \subseteq ToSet(seen.ids)
                          /\ ToSet(seen.fresh) = ToSet(seen.ids) \ ToSet(processed)
           Full(seen) == ~MemoryHoldsAll /\ Len(seen.ids) = Capacity
           G == {seen \in [ids: Seq(Messages), fresh: Seq(Messages)] :
                   Full(seen) \/ Whole(seen)}
           base == [ids |-> processed, fresh |-> <<>>]
<1>1. base \in G
  <2>1. base \in [ids: Seq(Messages), fresh: Seq(Messages)]
    BY DEF MemoryTypes
  <2>2. base.ids = processed /\ base.fresh = <<>>
    OBVIOUS
  <2>3. Single(<<>>) /\ ToSet(<<>>) = {}
    BY DEF Single, ToSet
  <2> HIDE DEF base
  <2>4. Whole(base)
    BY <2>2, <2>3
  <2>5. QED
    BY <2>1, <2>4
<1>1a. ASSUME NEW seen \in G, NEW m \in Messages, Full(seen) PROVE Register(seen, m) \in G
  <2>1. seen.ids \in Seq(Messages) /\ seen.fresh \in Seq(Messages) /\ Len(seen.ids) = Capacity
    BY <1>1a
  <2> DEFINE ids == Append(Tail(seen.ids), m)
             fresh == Append(seen.fresh, m)
  <2>2. CASE m \in ToSet(seen.ids)
    BY <2>2 DEF Register
  <2>3. CASE m \notin ToSet(seen.ids)
    <3>1. ids \in Seq(Messages) /\ fresh \in Seq(Messages) /\ Len(ids) = Capacity
      BY <2>1, Bounds
    <3>2. Register(seen, m) = [ids |-> ids, fresh |-> fresh]
      BY <2>1, <2>3 DEF Register
    <3> HIDE DEF ids, fresh
    <3>3. Full([ids |-> ids, fresh |-> fresh])
      BY <1>1a, <3>1
    <3>4. QED
      BY <3>1, <3>2, <3>3
  <2>4. QED
    BY <2>2, <2>3
<1>2. ASSUME NEW seen \in G, NEW m \in Messages, ~Full(seen) PROVE Register(seen, m) \in G
  <2>1. /\ seen.ids \in Seq(Messages) /\ seen.fresh \in Seq(Messages)
        /\ Single(seen.ids) /\ Single(seen.fresh)
        /\ ToSet(processed) \subseteq ToSet(seen.ids)
        /\ ToSet(seen.fresh) = ToSet(seen.ids) \ ToSet(processed)
    BY <1>2
  <2>2. CASE m \in ToSet(seen.ids)
    BY <2>2 DEF Register
  <2>3. CASE m \notin ToSet(seen.ids)
    <3> DEFINE ids == Append(seen.ids, m)
               fresh == Append(seen.fresh, m)
    <3>1. Len(seen.ids) # Capacity
      <4>1. ASSUME MemoryHoldsAll PROVE Len(seen.ids) < Capacity
        BY <2>1, <2>3, <4>1, RoomForOneMore
      <4>2. QED
        BY <1>2, <2>1, <4>1, Bounds
    <3>2. Register(seen, m) = [ids |-> ids, fresh |-> fresh]
      BY <2>3, <3>1 DEF Register
    <3>3. ids \in Seq(Messages) /\ fresh \in Seq(Messages)
      BY <2>1
    <3>4. ASSUME NEW s \in Seq(Messages), Single(s), m \notin ToSet(s)
          PROVE  Single(Append(s, m)) /\ ToSet(Append(s, m)) = ToSet(s) \cup {m}
      <4>1. \A i \in 1..Len(s) : s[i] # m
        BY <3>4 DEF ToSet
      <4>2. DOMAIN Append(s, m) = 1..(Len(s) + 1) /\ DOMAIN s = 1..Len(s) /\ Len(s) \in Nat
        BY <3>4
      <4>3. /\ Append(s, m)[Len(s) + 1] = m
            /\ \A i \in 1..Len(s) : Append(s, m)[i] = s[i]
        BY <3>4
      <4>4. Single(Append(s, m))
        BY <3>4, <4>1, <4>2, <4>3 DEF Single
      <4>5. ASSUME NEW x PROVE x \in ToSet(Append(s, m)) <=> x \in ToSet(s) \cup {m}
        <5>1. ASSUME x \in ToSet(Append(s, m)) PROVE x \in ToSet(s) \cup {m}
          <6>1. PICK i \in 1..(Len(s) + 1) : Append(s, m)[i] = x
            BY <4>2, <5>1 DEF ToSet
          <6>2. CASE i \in 1..Len(s)
            BY <4>2, <4>3, <6>1, <6>2 DEF ToSet
          <6>3. CASE i = Len(s) + 1
            BY <4>3, <6>1, <6>3
          <6>4. QED
            BY <4>2, <6>1, <6>2, <6>3
        <5>2. ASSUME x \in ToSet(s) PROVE x \in ToSet(Append(s, m))
          <6>1. PICK i \in 1..Len(s) : s[i] = x
            BY <4>2, <5>2 DEF ToSet
          <6>2. i \in DOMAIN Append(s, m) /\ Append(s, m)[i] = x
            BY <4>2, <4>3, <6>1
          <6>3. QED
            BY <6>2 DEF ToSet
        <5>3. m \in ToSet(Append(s, m))
          <6>1. Len(s) + 1 \in DOMAIN Append(s, m)
            BY <4>2
          <6>2. QED
            BY <4>3, <6>1 DEF ToSet
        <5>4. QED
          BY <5>1, <5>2, <5>3
      <4>6. QED
        BY <4>4, <4>5
    <3>5. Single(ids) /\ ToSet(ids) = ToSet(seen.ids) \cup {m}
      BY <2>1, <2>3, <3>4
    <3>6. m \notin ToSet(seen.fresh) /\ m \notin ToSet(processed)
      BY <2>1, <2>3
    <3>7. Single(fresh) /\ ToSet(fresh) = ToSet(seen.fresh) \cup {m}
      BY <2>1, <3>4, <3>6
    <3> HIDE DEF ids, fresh
    <3>8. Whole([ids |-> ids, fresh |-> fresh])
      BY <2>1, <3>5, <3>6, <3>7
    <3>9. QED
      BY <3>2, <3>3, <3>8
  <2>4. QED
    BY <2>2, <2>3
<1>3. Registered(batch) \in G
  <2> HIDE DEF G
  <2>1. \A seen \in G, m \in Messages : Register(seen, m) \in G
    BY <1>1a, <1>2
  <2>2. QED
    BY <1>1, <2>1, RegisteredKeeps
<1>4. QED
  <2>1. ~Full(Registered(batch))
    BY <1>3, Bounds
  <2>2. QED
    BY <1>3, <2>1

\* The memory holds every id that is still in a queue, and no id twice.
MemoryInv ==
  /\ Single(processed)
  /\ OneTaskPerMessage
  /\ \A t \in Tasks : ToSet(queue[t]) \subseteq ToSet(processed)

\* A notification hands out no id that any task has.
LEMMA NotifyKeepsMemory ==
  ASSUME Roomy', Typed, MemoryInv, NEW batch \in Batches, Notify(batch)
  PROVE  /\ MemoryInv'
         /\ ToSet(processed) \subseteq ToSet(processed')
         /\ \A t \in Tasks : \/ at'[t] = at[t] /\ queue'[t] = queue[t]
                             \/ ToSet(queue'[t]) \cap ToSet(processed) = {}
<1> DEFINE seen == Registered(batch)
<1>1. batch \in Seq(Messages) /\ MemoryTypes /\ TaskTypes
  BY BoundsAreNumbers DEF Typed, TaskInv
<1>2. /\ processed' = seen.ids
      /\ \/ seen.fresh = <<>> /\ UNCHANGED <<queue, at>>
         \/ \E t \in Tasks : /\ at' = [at EXCEPT ![t] = "fetch"]
                             /\ queue' = [queue EXCEPT ![t] = seen.fresh]
  BY NotifyMoves
<1>3. /\ Single(seen.ids) /\ Single(seen.fresh)
      /\ ToSet(processed) \subseteq ToSet(seen.ids)
      /\ ToSet(seen.fresh) = ToSet(seen.ids) \ ToSet(processed)
  BY <1>1, <1>2, RegisteredWhole DEF MemoryInv, Roomy, MemoryHoldsAll
<1> HIDE DEF seen
<1>4. \A t \in Tasks : ToSet(queue[t]) \subseteq ToSet(processed)
  BY DEF MemoryInv
<1>5. CASE UNCHANGED <<queue, at>>
  BY <1>2, <1>3, <1>4, <1>5 DEF MemoryInv, OneTaskPerMessage
<1>6. ASSUME NEW t \in Tasks, at' = [at EXCEPT ![t] = "fetch"],
             queue' = [queue EXCEPT ![t] = seen.fresh]
      PROVE  /\ MemoryInv'
             /\ \A u \in Tasks : \/ at'[u] = at[u] /\ queue'[u] = queue[u]
                                 \/ ToSet(queue'[u]) \cap ToSet(processed) = {}
  <2>1. /\ queue'[t] = seen.fresh
        /\ \A u \in Tasks \ {t} : at'[u] = at[u] /\ queue'[u] = queue[u]
    BY <1>1, <1>6 DEF TaskTypes
  <2>2. ToSet(queue'[t]) \cap ToSet(processed) = {} /\ Single(queue'[t])
    BY <1>3, <2>1
  <2>3. \A u \in Tasks : ToSet(queue'[u]) \subseteq ToSet(processed')
    BY <1>2, <1>3, <1>4, <2>1
  <2>4. ASSUME NEW u \in Tasks, NEW w \in Tasks,
               NEW i \in DOMAIN queue'[u], NEW j \in DOMAIN queue'[w],
               queue'[u][i] = queue'[w][j]
        PROVE  u = w /\ i = j
    <3>1. queue'[u][i] \in ToSet(queue'[u]) /\ queue'[u][i] \in ToSet(queue'[w])
      BY <2>4 DEF ToSet
    <3>2. CASE u = t /\ w = t
      BY <2>2, <2>4, <3>2 DEF Single
    <3>3. CASE u # t /\ w # t
      BY <2>1, <2>4, <3>3 DEF MemoryInv, OneTaskPerMessage
    <3>4. CASE u = t /\ w # t
      BY <1>4, <2>1, <2>2, <3>1, <3>4
    <3>5. CASE u # t /\ w = t
      BY <1>4, <2>1, <2>2, <3>1, <3>5
    <3>6. QED
      BY <3>2, <3>3, <3>4, <3>5
  <2>5. OneTaskPerMessage'
    BY <2>4 DEF OneTaskPerMessage
  <2>6. Single(processed')
    BY <1>2, <1>3
  <2>7. QED
    BY <2>1, <2>2, <2>3, <2>5, <2>6 DEF MemoryInv
<1>7. QED
  BY <1>2, <1>3, <1>5, <1>6

\* A step leaves the queues as they are, or drops the head of its own.
LEMMA QueuesShorten ==
  ASSUME TaskInv, NEW t \in Tasks, Step(t)
  PROVE  \/ queue' = queue
         \/ /\ Ends(t)
            /\ \A u \in Tasks \ {t} : queue'[u] = queue[u]
            /\ \A i \in DOMAIN queue'[t] : /\ i \in Nat /\ i >= 1 /\ i + 1 \in DOMAIN queue[t]
                                           /\ queue'[t][i] = queue[t][i + 1]
<1>1. TaskTypes /\ queue[t] # <<>> /\ queue[t] \in Seq(Messages)
  BY BusyTask, StepAt DEF TaskInv
<1>2. CASE Reads(t)
  BY <1>2 DEF Reads, Goto
<1>3. CASE Start(t)
  BY <1>3 DEF Start, Goto
<1>4. CASE GoesOn(t)
  BY <1>4 DEF GoesOn, Goto
<1>5. CASE Ends(t)
  <2>1. queue'[t] = Tail(queue[t]) /\ \A u \in Tasks \ {t} : queue'[u] = queue[u]
    BY <1>1, <1>5, NextMoves DEF Ends
  <2>2. \A i \in DOMAIN Tail(queue[t]) :
          /\ i \in Nat /\ i >= 1 /\ i + 1 \in DOMAIN queue[t]
          /\ Tail(queue[t])[i] = queue[t][i + 1]
    BY <1>1
  <2>3. QED
    BY <1>5, <2>1, <2>2
<1>6. QED
  BY <1>2, <1>3, <1>4, <1>5, StepKinds

\* No step of a task gives it an id that is another's.
LEMMA StepKeepsMemory ==
  ASSUME TaskInv, MemoryInv, NEW t \in Tasks, Step(t)
  PROVE  MemoryInv'
<1>0. processed' = processed
  BY StepKinds
<1>1. CASE queue' = queue
  BY <1>0, <1>1 DEF MemoryInv, OneTaskPerMessage
<1>2. CASE /\ \A u \in Tasks \ {t} : queue'[u] = queue[u]
           /\ \A i \in DOMAIN queue'[t] : /\ i \in Nat /\ i >= 1 /\ i + 1 \in DOMAIN queue[t]
                                          /\ queue'[t][i] = queue[t][i + 1]
  <2>1. ASSUME NEW u \in Tasks
        PROVE  \/ queue'[u] = queue[u]
               \/ /\ u = t
                  /\ \A i \in DOMAIN queue'[u] : /\ i \in Nat /\ i + 1 \in DOMAIN queue[u]
                                                 /\ queue'[u][i] = queue[u][i + 1]
    BY <1>2
  <2>2. ASSUME NEW u \in Tasks PROVE ToSet(queue'[u]) \subseteq ToSet(processed')
    <3>1. ToSet(queue[u]) \subseteq ToSet(processed)
      BY DEF MemoryInv
    <3>2. ToSet(queue'[u]) \subseteq ToSet(queue[u])
      BY <2>1 DEF ToSet
    <3>3. QED
      BY <1>0, <3>1, <3>2
  <2>3. ASSUME NEW u \in Tasks, NEW w \in Tasks,
               NEW i \in DOMAIN queue'[u], NEW j \in DOMAIN queue'[w],
               queue'[u][i] = queue'[w][j]
        PROVE  u = w /\ i = j
    <3>1. CASE u = t /\ w = t
      <4>1. /\ i \in Nat /\ i + 1 \in DOMAIN queue[t] /\ queue'[t][i] = queue[t][i + 1]
            /\ j \in Nat /\ j + 1 \in DOMAIN queue[t] /\ queue'[t][j] = queue[t][j + 1]
        BY <1>2, <2>3, <3>1
      <4>2. i + 1 = j + 1
        BY <2>3, <3>1, <4>1 DEF MemoryInv, OneTaskPerMessage
      <4>3. QED
        BY <3>1, <4>1, <4>2
    <3>2. CASE u = t /\ w # t
      <4>1. i + 1 \in DOMAIN queue[t] /\ queue'[t][i] = queue[t][i + 1]
            /\ queue'[w] = queue[w]
        BY <1>2, <2>3, <3>2
      <4>2. QED
        BY <2>3, <3>2, <4>1 DEF MemoryInv, OneTaskPerMessage
    <3>3. CASE u # t /\ w = t
      <4>1. j + 1 \in DOMAIN queue[t] /\ queue'[t][j] = queue[t][j + 1]
            /\ queue'[u] = queue[u]
        BY <1>2, <2>3, <3>3
      <4>2. QED
        BY <2>3, <3>3, <4>1 DEF MemoryInv, OneTaskPerMessage
    <3>4. CASE u # t /\ w # t
      <4>1. queue'[u] = queue[u] /\ queue'[w] = queue[w]
        BY <1>2, <3>4
      <4>2. QED
        BY <2>3, <4>1 DEF MemoryInv, OneTaskPerMessage
    <3>5. QED
      BY <3>1, <3>2, <3>3, <3>4
  <2>4. OneTaskPerMessage'
    BY <2>3 DEF OneTaskPerMessage
  <2>5. QED
    BY <1>0, <2>2, <2>4 DEF MemoryInv
<1>3. QED
  BY <1>1, <1>2, QueuesShorten

\* A restart forgets the ids and the queues together.
LEMMA CrashKeepsMemory ==
  ASSUME Crash
  PROVE  MemoryInv'
<1>1. processed' = <<>> /\ \A t \in Tasks : queue'[t] = <<>>
  BY DEF Crash
<1>2. QED
  BY <1>1 DEF MemoryInv, Single, OneTaskPerMessage, ToSet

-----------------------------------------------------------------------------
(* The label as the durable memory                                          *)

\* From the moment a handling is allowed to begin until it labels its message,
\* the message carries none of our labels.
Unlabelled(t) ==
  /\ at[t] = "fetched" => local[t].seen = category[Message(t)]
  /\ at[t] \in Before \cup {"resend"} => category[Message(t)] = {}

\* Two busy tasks have two messages in hand.
LEMMA TwoHeads ==
  ASSUME TaskInv, MemoryInv, NEW t \in Tasks, NEW u \in Tasks, u # t,
         at[t] # "free", at[u] # "free"
  PROVE  Message(t) # Message(u)
<1>1. /\ Message(t) = queue[t][1] /\ queue[t] # <<>> /\ queue[t] \in Seq(Messages)
      /\ Message(u) = queue[u][1] /\ queue[u] # <<>> /\ queue[u] \in Seq(Messages)
  BY BusyTask
<1>2. 1 \in DOMAIN queue[t] /\ 1 \in DOMAIN queue[u]
  BY <1>1
<1>3. QED
  BY <1>1, <1>2 DEF MemoryInv, OneTaskPerMessage

\* No task labels a message that another has in hand.
LEMMA StepKeepsUnlabelled ==
  ASSUME TaskInv, MemoryInv, \A u \in Tasks : Unlabelled(u), NEW t \in Tasks, Step(t)
  PROVE  \A u \in Tasks : Unlabelled(u)'
<1>0. /\ TaskTypes /\ StoreTypes /\ at[t] # "free" /\ queue[t] # <<>>
      /\ Message(t) \in Messages /\ Unlabelled(t)
  BY BusyTask, StepAt DEF TaskInv
<1>1. ASSUME NEW u \in Tasks \ {t} PROVE Unlabelled(u)'
  <2>1. at'[u] = at[u] /\ local'[u] = local[u] /\ queue'[u] = queue[u]
    BY OthersKeep
  <2>2. Message(u)' = Message(u)
    BY <2>1 DEF Message
  <2>3. at[u] # "free" => category'[Message(u)] = category[Message(u)]
    <3>1. SUFFICES ASSUME at[u] # "free" PROVE category'[Message(u)] = category[Message(u)]
      OBVIOUS
    <3>2. Message(u) \in Messages /\ Message(u) # Message(t)
      BY <1>0, <3>1, BusyTask, TwoHeads
    <3>3. QED
      BY <1>0, <3>2, OnlyLabelsStamp DEF StoreTypes
  <2>4. Unlabelled(u)
    OBVIOUS
  <2>5. QED
    BY <2>1, <2>2, <2>3, <2>4 DEF Unlabelled, Before
<1>2. CASE Reads(t)
  <2>1. PICK l \in Locals : l.seen = category[Message(t)] /\ Goto(t, "fetched", l)
    BY <1>2 DEF Reads
  <2>2. at'[t] = "fetched" /\ local'[t] = l /\ Message(t)' = Message(t)
    BY <1>0, <2>1 DEF Goto, TaskTypes, Message
  <2>3. category' = category
    BY <1>0, <1>2, OnlyLabelsStamp DEF Reads
  <2>4. QED
    BY <1>1, <2>1, <2>2, <2>3 DEF Unlabelled, Before
<1>3. CASE Start(t)
  <2>1. /\ at'[t] = "classify" /\ Message(t)' = Message(t) /\ category' = category
        /\ at[t] = "fetched" /\ local[t].seen \cap Names = {}
    BY <1>0, <1>3 DEF Start, Goto, TaskTypes, Message, AlreadyHandled
  <2>2. category[Message(t)] \subseteq Names
    BY <1>0 DEF StoreTypes
  <2>3. category[Message(t)] = {}
    BY <1>0, <2>1, <2>2 DEF Unlabelled
  <2>4. Unlabelled(t)'
    BY <2>1, <2>3 DEF Unlabelled
  <2>5. QED
    BY <1>1, <2>4
<1>4. CASE GoesOn(t)
  <2>1. at'[t] \in Started /\ Message(t)' = Message(t) /\ at[t] \in Started
    BY <1>0, <1>4 DEF GoesOn, Goto, TaskTypes, Message, Started
  <2>2. CASE at[t] \in Before \cup {"resend"}
    <3>1. category' = category
      BY <1>0, <2>2, OnlyLabelsStamp DEF Before
    <3>2. QED
      BY <1>0, <1>1, <2>1, <2>2, <3>1 DEF Unlabelled, Started
  <2>3. CASE at[t] \in After
    <3>1. at'[t] \in After \cup {"free", "fetch"}
      BY <2>3, NoWayBack
    <3>2. Unlabelled(t)'
      BY <3>1 DEF Unlabelled, After, Before
    <3>3. QED
      BY <1>1, <3>2
  <2>4. QED
    BY <2>1, <2>2, <2>3 DEF Started, Steps, Before, After
<1>5. CASE Ends(t)
  <2>1. at'[t] \in {"free", "fetch"}
    BY <1>0, <1>5, NextMoves DEF Ends
  <2>2. Unlabelled(t)'
    BY <2>1 DEF Unlabelled, Before
  <2>3. QED
    BY <1>1, <2>2
<1>6. QED
  BY <1>2, <1>3, <1>4, <1>5, StepKinds

\* So a copy goes out only for a message that carries none of our labels.
LEMMA CopiesAreUnlabelled ==
  ASSUME TaskInv, NEW t \in Tasks, Step(t), Unlabelled(t)
  PROVE  \A h \in Handlings : received'[h] > received[h] => category[of[h]] = {}
<1>1. /\ StoreTypes
      /\ at[t] \in {"send", "resend"} => /\ local[t].h \in Handlings
                                         /\ of[local[t].h] = Message(t)
  BY BusyTask DEF TaskInv, Started, Steps
<1>2. \A h \in Handlings : received[h] \in Nat
  BY <1>1 DEF StoreTypes
<1>3. at[t] \in {"send", "resend"} => category[Message(t)] = {}
  BY DEF Unlabelled, Before
<1>4. ASSUME NEW h \in Handlings, received'[h] > received[h]
      PROVE  at[t] \in {"send", "resend"} /\ h = local[t].h
  <2>1. received \in [Handlings -> Nat]
    BY <1>1 DEF StoreTypes
  <2>2. received' # received
    BY <1>2, <1>4
  <2>3. QED
    BY <1>1, <1>2, <1>4, <2>1, <2>2, CopiesOnlySent
<1>5. QED
  BY <1>1, <1>3, <1>4

-----------------------------------------------------------------------------
(* How many handlings a message can have                                    *)

\* A message whose handling has not begun since the last restart: nobody has
\* told of it, or its turn is still to come.
Awaited(m) ==
  \/ m \notin ToSet(processed)
  \/ \E t \in Tasks : \E i \in DOMAIN queue[t] :
       queue[t][i] = m /\ (i = 1 => at[t] \notin Started)

\* The handlings a message has had, in every life of the process.
Begun(m) == {h \in Handlings : of[h] = m}

\* Each life of the process begins one handling of a message at most.
Counted ==
  \A m \in Messages :
    Cardinality(Begun(m)) <= crashes + (IF Awaited(m) THEN 0 ELSE 1)

\* The handlings are finitely many.
LEMMA HandlingsFinite ==
  /\ IsFiniteSet(Handlings)
  /\ \A S \in SUBSET Handlings : IsFiniteSet(S) /\ Cardinality(S) \in Nat
<1>1. IsFiniteSet(Handlings)
  BY Bounds, FS_Interval DEF Handlings
<1>2. QED
  BY <1>1, FS_Subset, FS_CardinalityType

\* A message whose handling began is not awaited again before a restart.
LEMMA StepAwaits ==
  ASSUME TaskInv, NEW t \in Tasks, Step(t), NEW m \in Messages, Awaited(m)'
  PROVE  Awaited(m)
<1>1. processed' = processed /\ TaskTypes
  BY StepKinds DEF TaskInv
<1>2. ASSUME NEW u \in Tasks, NEW i \in DOMAIN queue'[u], queue'[u][i] = m,
             i = 1 => at'[u] \notin Started
      PROVE  Awaited(m)
  <2>1. CASE queue' = queue
    <3>1. at[u] \in Started => at'[u] \in Started
      <4>1. CASE u # t
        BY <4>1, OthersKeep
      <4>2. CASE u = t
        <5>1. Reads(t) \/ Start(t) => at[t] \notin Started
          BY DEF Reads, Start, Started
        <5>2. GoesOn(t) => at'[t] \in Started
          BY <1>1 DEF GoesOn, Goto, TaskTypes
        <5>3. ~ Ends(t)
          <6>1. SUFFICES ASSUME Ends(t) PROVE FALSE
            OBVIOUS
          <6>2. queue[t] # <<>> /\ queue[t] \in Seq(Messages)
            BY BusyTask, StepAt
          <6>3. queue'[t] = Tail(queue[t])
            BY <1>1, <6>1, <6>2, NextMoves DEF Ends
          <6>4. Len(Tail(queue[t])) = Len(queue[t]) - 1 /\ Len(queue[t]) \in Nat
            BY <6>2
          <6>5. Tail(queue[t]) = queue[t]
            BY <2>1, <6>3
          <6>6. Len(Tail(queue[t])) = Len(queue[t])
            BY <6>5
          <6>7. QED
            BY <6>4, <6>6
        <5>4. QED
          BY <4>2, <5>1, <5>2, <5>3, StepKinds
      <4>3. QED
        BY <4>1, <4>2
    <3>2. QED
      BY <1>2, <2>1, <3>1 DEF Awaited
  <2>2. CASE queue'[u] = queue[u] /\ u # t
    BY <1>2, <2>2, OthersKeep DEF Awaited
  <2>3. CASE u = t /\ i \in Nat /\ i >= 1 /\ i + 1 \in DOMAIN queue[t]
             /\ queue'[t][i] = queue[t][i + 1]
    <3>1. i + 1 # 1 /\ queue[t][i + 1] = m
      BY <1>2, <2>3
    <3>2. QED
      BY <2>3, <3>1 DEF Awaited
  <2>4. QED
    BY <1>2, <2>1, <2>2, <2>3, QueuesShorten
<1>3. CASE m \notin ToSet(processed')
  BY <1>1, <1>3 DEF Awaited
<1>4. QED
  BY <1>2, <1>3 DEF Awaited

\* No step begins a second handling of a message in one life of the process.
LEMMA StepKeepsCount ==
  ASSUME TaskInv, MemoryInv, crashes \in Nat, Counted, NEW t \in Tasks, Step(t)
  PROVE  Counted'
<1>0. crashes' = crashes /\ TaskTypes /\ StoreTypes /\ queue[t] # <<>>
      /\ queue[t] \in Seq(Messages) /\ Message(t) = queue[t][1] /\ Message(t) \in Messages
  BY StepKinds, BusyTask, StepAt DEF TaskInv
<1>1. ASSUME NEW m \in Messages, Begun(m)' \subseteq Begun(m)
      PROVE  Cardinality(Begun(m)') <= crashes' + (IF Awaited(m)' THEN 0 ELSE 1)
  <2>1. Begun(m) \in SUBSET Handlings
    BY DEF Begun
  <2>2. Cardinality(Begun(m)') <= Cardinality(Begun(m))
    BY <1>1, <2>1, HandlingsFinite, FS_Subset
  <2>3. Cardinality(Begun(m)') \in Nat /\ Cardinality(Begun(m)) \in Nat
    BY <1>1, <2>1, HandlingsFinite
  <2>4. Awaited(m)' => Awaited(m)
    BY StepAwaits
  <2>5. Cardinality(Begun(m)) <= crashes + (IF Awaited(m) THEN 0 ELSE 1)
    BY DEF Counted
  <2>6. QED
    BY <1>0, <2>2, <2>3, <2>4, <2>5
<1>2. CASE Start(t)
  <2>1. /\ at[t] = "fetched" /\ at'[t] \in Started /\ queue' = queue /\ processed' = processed
        /\ of' = [of EXCEPT ![started + 1] = Message(t)]
    BY <1>0, <1>2 DEF Start, Goto, TaskTypes, Started, Steps
  <2>2. ASSUME NEW m \in Messages, m # Message(t) PROVE Begun(m)' \subseteq Begun(m)
    BY <1>0, <2>1, <2>2 DEF Begun, StoreTypes
  <2> PICK m \in Messages : m = Message(t)
    BY <1>0
  <2>3. 1 \in DOMAIN queue[t]
    BY <1>0
  <2>4. Awaited(m)
    BY <1>0, <2>1, <2>3 DEF Awaited, Started
  <2>5. ~ Awaited(m)'
    <3>1. SUFFICES ASSUME m \notin ToSet(processed')
                          \/ \E u \in Tasks : \E i \in DOMAIN queue'[u] :
                               queue'[u][i] = m /\ (i = 1 => at'[u] \notin Started)
                   PROVE  FALSE
      BY DEF Awaited
    <3>2. m \in ToSet(queue[t])
      BY <1>0, <2>3 DEF ToSet
    <3>3. m \in ToSet(processed')
      BY <2>1, <3>2 DEF MemoryInv
    <3>4. PICK u \in Tasks : \E i \in DOMAIN queue[u] :
            queue[u][i] = queue[t][1] /\ (i = 1 => at'[u] \notin Started)
      BY <1>0, <2>1, <3>1, <3>3
    <3>5. PICK i \in DOMAIN queue[u] :
            queue[u][i] = queue[t][1] /\ (i = 1 => at'[u] \notin Started)
      BY <3>4
    <3>6. u = t /\ i = 1
      BY <2>3, <3>5 DEF MemoryInv, OneTaskPerMessage
    <3>7. QED
      BY <2>1, <3>5, <3>6
  <2>6. Begun(m)' \subseteq Begun(m) \cup {started + 1}
    BY <1>0, <2>1 DEF Begun, StoreTypes
  <2>7. Cardinality(Begun(m)') <= Cardinality(Begun(m)) + 1
    <3>1. Begun(m) \in SUBSET Handlings /\ Begun(m)' \in SUBSET Handlings
      BY DEF Begun
    <3>2. IsFiniteSet(Begun(m)) /\ Cardinality(Begun(m)) \in Nat
          /\ Cardinality(Begun(m)') \in Nat
      BY <3>1, HandlingsFinite
    <3> DEFINE B == Begun(m)
               S == B \cup {started + 1}
    <3>3. IsFiniteSet(S) /\ Cardinality(S) \in Nat /\ Cardinality(S) <= Cardinality(B) + 1
      <4>1. IsFiniteSet(B) /\ Cardinality(B) \in Nat
        BY <3>2
      <4> HIDE DEF B
      <4>2. /\ IsFiniteSet(S)
            /\ Cardinality(S) = IF started + 1 \in B THEN Cardinality(B) ELSE Cardinality(B) + 1
        BY <4>1, FS_AddElement
      <4> HIDE DEF S
      <4>3. QED
        BY <4>1, <4>2
    <3>4. Cardinality(Begun(m)') <= Cardinality(S)
      BY <2>6, <3>3, FS_Subset
    <3> HIDE DEF S
    <3>5. QED
      BY <3>2, <3>3, <3>4
  <2>8. Cardinality(Begun(m)) <= crashes
    BY <1>0, <2>4 DEF Counted
  <2>9. Cardinality(Begun(m)) \in Nat /\ Cardinality(Begun(m)') \in Nat
    BY HandlingsFinite DEF Begun
  <2>10. Cardinality(Begun(m)') <= crashes' + (IF Awaited(m)' THEN 0 ELSE 1)
    BY <1>0, <2>5, <2>7, <2>8, <2>9
  <2>11. ASSUME NEW n \in Messages
         PROVE  Cardinality(Begun(n)') <= crashes' + (IF Awaited(n)' THEN 0 ELSE 1)
    <3>1. CASE n = m
      BY <2>10, <3>1
    <3>2. CASE n # m
      BY <1>1, <2>2, <3>2
    <3>3. QED
      BY <3>1, <3>2
  <2>12. QED
    BY <2>11 DEF Counted
<1>3. CASE UNCHANGED of
  <2>1. ASSUME NEW m \in Messages PROVE Begun(m)' \subseteq Begun(m)
    BY <1>3 DEF Begun
  <2>2. QED
    BY <1>1, <2>1 DEF Counted
<1>4. QED
  BY <1>2, <1>3, StepKinds DEF Reads, GoesOn, Ends, handled

-----------------------------------------------------------------------------
(* Theorems about a memory that forgets nothing                             *)

LifeInv == MemoryInv /\ Counted /\ \A t \in Tasks : Unlabelled(t)

\* A notification begins nothing, and makes nothing awaited that was handled.
LEMMA NotifyKeepsLife ==
  ASSUME Roomy', Typed, LifeInv, NEW batch \in Batches, Notify(batch)
  PROVE  LifeInv'
<1>1. /\ MemoryInv' /\ ToSet(processed) \subseteq ToSet(processed')
      /\ \A t \in Tasks : \/ at'[t] = at[t] /\ queue'[t] = queue[t]
                          \/ ToSet(queue'[t]) \cap ToSet(processed) = {}
  BY NotifyKeepsMemory DEF LifeInv
<1>2. /\ category' = category /\ of' = of /\ crashes' = crashes /\ local' = local
      /\ TaskTypes
      /\ \/ UNCHANGED <<queue, at>>
         \/ \E t \in Tasks : /\ at' = [at EXCEPT ![t] = "fetch"]
                             /\ queue' = [queue EXCEPT ![t] = Registered(batch).fresh]
  BY NotifyMoves DEF handled, Typed, TaskInv
<1>3. ASSUME NEW m \in Messages, Awaited(m)' PROVE Awaited(m)
  <2>1. CASE m \notin ToSet(processed)
    BY <2>1 DEF Awaited
  <2>2. CASE m \in ToSet(processed)
    <3>1. PICK t \in Tasks : \E i \in DOMAIN queue'[t] :
            queue'[t][i] = m /\ (i = 1 => at'[t] \notin Started)
      BY <1>1, <1>3, <2>2 DEF Awaited
    <3>2. m \in ToSet(queue'[t])
      BY <3>1 DEF ToSet
    <3>3. at'[t] = at[t] /\ queue'[t] = queue[t]
      BY <1>1, <2>2, <3>2
    <3>4. QED
      BY <3>1, <3>3 DEF Awaited
  <2>3. QED
    BY <2>1, <2>2
<1>4. Counted'
  <2>1. ASSUME NEW m \in Messages
        PROVE  Cardinality(Begun(m)') <= crashes' + (IF Awaited(m)' THEN 0 ELSE 1)
    <3>1. Begun(m)' = Begun(m)
      BY <1>2 DEF Begun
    <3>2. Cardinality(Begun(m)) <= crashes + (IF Awaited(m) THEN 0 ELSE 1)
      BY DEF LifeInv, Counted
    <3>3. Cardinality(Begun(m)) \in Nat /\ crashes \in Nat
      BY HandlingsFinite, Bounds DEF Begun, Typed, MemoryTypes
    <3>4. QED
      BY <1>2, <1>3, <3>1, <3>2, <3>3
  <2>2. QED
    BY <2>1 DEF Counted
<1>5. ASSUME NEW t \in Tasks PROVE Unlabelled(t)'
  <2>1. CASE at'[t] = at[t] /\ queue'[t] = queue[t]
    <3>1. Message(t)' = Message(t)
      BY <2>1 DEF Message
    <3>2. QED
      BY <1>2, <2>1, <3>1 DEF LifeInv, Unlabelled
  <2>2. CASE at'[t] = "fetch"
    BY <2>2 DEF Unlabelled, Before
  <2>3. QED
    BY <1>2, <2>1, <2>2 DEF TaskTypes
<1>6. QED
  BY <1>1, <1>4, <1>5 DEF LifeInv

\* A restart makes every message awaited, and counts one more life.
LEMMA CrashKeepsLife ==
  ASSUME Typed, LifeInv, Crash
  PROVE  LifeInv'
<1>1. /\ processed' = <<>> /\ crashes' = crashes + 1 /\ of' = of
      /\ \A t \in Tasks : at'[t] = "free"
  BY DEF Crash, handled
<1>2. ASSUME NEW m \in Messages
      PROVE  Cardinality(Begun(m)') <= crashes' + (IF Awaited(m)' THEN 0 ELSE 1)
  <2>1. Begun(m)' = Begun(m)
    BY <1>1 DEF Begun
  <2>2. Awaited(m)'
    BY <1>1 DEF Awaited, ToSet
  <2>3. Cardinality(Begun(m)) <= crashes + (IF Awaited(m) THEN 0 ELSE 1)
    BY DEF LifeInv, Counted
  <2>4. Cardinality(Begun(m)) \in Nat /\ crashes \in Nat
    BY HandlingsFinite, Bounds DEF Begun, Typed, MemoryTypes
  <2>5. QED
    BY <1>1, <2>1, <2>2, <2>3, <2>4
<1>3. \A t \in Tasks : Unlabelled(t)'
  BY <1>1 DEF Unlabelled, Before
<1>4. Counted'
  BY <1>2 DEF Counted
<1>5. QED
  BY <1>3, <1>4, CrashKeepsMemory DEF LifeInv

\* As long as ProcessedMessages has forgotten nothing, every id in a queue is
\* remembered and in one queue only, a message in hand carries no label of ours,
\* and each life of the process begins one handling of a message at most.
THEOREM LivesHold == Spec /\ []Roomy => []LifeInv
<1>1. Init => LifeInv
  <2> SUFFICES ASSUME Init PROVE LifeInv
    OBVIOUS
  <2>1. MemoryInv
    BY DEF Init, MemoryInv, Single, OneTaskPerMessage, ToSet
  <2>2. \A t \in Tasks : Unlabelled(t)
    BY DEF Init, Unlabelled, Before
  <2>3. ASSUME NEW m \in Messages
        PROVE  Cardinality(Begun(m)) <= crashes + (IF Awaited(m) THEN 0 ELSE 1)
    <3>1. Begun(m) = {}
      BY <2>3, NowhereIsNoMessage DEF Init, Begun
    <3>2. Cardinality(Begun(m)) = 0
      BY <3>1, FS_EmptySet
    <3>3. crashes = 0
      BY DEF Init
    <3>4. QED
      BY <3>2, <3>3
  <2>4. QED
    BY <2>1, <2>2, <2>3 DEF LifeInv, Counted
<1>2. LifeInv /\ Typed /\ Roomy' /\ [Next]_vars => LifeInv'
  <2> SUFFICES ASSUME LifeInv, Typed, Roomy', [Next]_vars PROVE LifeInv'
    OBVIOUS
  <2>1. ASSUME NEW t \in Tasks, Step(t) PROVE LifeInv'
    <3>1. TaskInv /\ MemoryInv /\ crashes \in Nat /\ Counted /\ \A u \in Tasks : Unlabelled(u)
      BY Bounds DEF Typed, MemoryTypes, LifeInv
    <3>2. MemoryInv'
      BY <2>1, <3>1, StepKeepsMemory
    <3>3. Counted'
      BY <2>1, <3>1, StepKeepsCount
    <3>4. \A u \in Tasks : Unlabelled(u)'
      BY <2>1, <3>1, StepKeepsUnlabelled
    <3>5. QED
      BY <3>2, <3>3, <3>4 DEF LifeInv
  <2>2. CASE UNCHANGED vars
    BY <2>2 DEF vars, process, handled, LifeInv, MemoryInv, OneTaskPerMessage, Counted, Begun,
                Awaited, Unlabelled, Message
  <2>3. QED
    BY <2>1, <2>2, NotifyKeepsLife, CrashKeepsLife DEF Next
<1>3. QED
  BY <1>1, <1>2, TypeCorrect, PTL DEF Spec

\* However the notifications of one message are repeated, at most one task has
\* it to do.
THEOREM NobodyWorksTwice == Spec /\ []Roomy => []OneTaskPerMessage
<1>1. LifeInv => OneTaskPerMessage
  BY DEF LifeInv, MemoryInv
<1>2. QED
  BY <1>1, LivesHold, PTL

\* A second handling that forwards a message costs a restart, and a second copy
\* from one handling a lost answer.
THEOREM EveryDuplicateHasACause ==
  Spec /\ []Roomy => []DuplicatesHaveACause
<1>1. LifeInv /\ HandlingInv => DuplicatesHaveACause
  <2> SUFFICES ASSUME LifeInv, HandlingInv PROVE DuplicatesHaveACause
    OBVIOUS
  <2>1. crashes \in Nat
    BY Bounds DEF HandlingInv, Typed, MemoryTypes
  <2>2. ASSUME NEW m \in Messages PROVE Cardinality(Forwarded(m)) <= 1 + crashes
    <3>1. /\ Begun(m) \in SUBSET Handlings /\ Forwarded(m) \in SUBSET Handlings
          /\ Forwarded(m) \in SUBSET Begun(m)
      BY DEF Begun, Forwarded
    <3>2. /\ IsFiniteSet(Begun(m)) /\ Cardinality(Begun(m)) \in Nat
          /\ Cardinality(Forwarded(m)) \in Nat
      BY <3>1, HandlingsFinite
    <3>3. Cardinality(Forwarded(m)) <= Cardinality(Begun(m))
      BY <3>1, <3>2, FS_Subset
    <3>4. Cardinality(Begun(m)) <= crashes + (IF Awaited(m) THEN 0 ELSE 1)
      BY DEF LifeInv, Counted
    <3>5. QED
      BY <2>1, <3>2, <3>3, <3>4
  <2>3. \A h \in Handlings : received[h] <= IF May("reply") THEN 2 ELSE 1
    BY DEF HandlingInv, CopiesInv, Bounded, Second
  <2>4. QED
    BY <2>2, <2>3 DEF DuplicatesHaveACause
<1>2. QED
  BY <1>1, HandlingsHold, LivesHold, PTL

\* A message that carries one of our labels is never forwarded again, across
\* restarts and repeated notifications.
THEOREM LabelsAreTheMemory == Spec /\ []Roomy => NoForwardOnceLabelled
<1>1. LifeInv /\ Typed /\ [Next]_vars =>
        [\A h \in Handlings : received'[h] > received[h] => category[of[h]] = {}]_vars
  <2> SUFFICES ASSUME LifeInv, Typed, Next
               PROVE  \A h \in Handlings : received'[h] > received[h] => category[of[h]] = {}
    OBVIOUS
  <2>0. \A h \in Handlings : received[h] \in Nat
    BY DEF Typed, TaskInv, StoreTypes
  <2>1. ASSUME NEW t \in Tasks, Step(t)
        PROVE  \A h \in Handlings : received'[h] > received[h] => category[of[h]] = {}
    BY <2>1, CopiesAreUnlabelled DEF Typed, LifeInv
  <2>2. CASE received' = received
    BY <2>0, <2>2
  <2>3. QED
    BY <2>1, <2>2 DEF Next, Notify, Crash
<1>2. QED
  BY <1>1, LivesHold, TypeCorrect, PTL DEF Spec, NoForwardOnceLabelled

=============================================================================
