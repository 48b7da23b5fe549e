------------------------------- MODULE Intake -------------------------------
(***************************************************************************)
(* From a change notification to a forwarded, labelled, journalled and     *)
(* recorded email: the webhook, NotificationService with its bounded       *)
(* memory of ids, ClassifyingEmailHandler.handle and the triage it calls.  *)
(*                                                                         *)
(* The service is one process on one event loop.  Every accepted batch is  *)
(* a background task that handles its ids in turn, and tasks interleave    *)
(* wherever one of them awaits the network.  The mailbox, the desks, the   *)
(* journal and the records outlive the process; the queues and the memory  *)
(* of ids do not.                                                          *)
(*                                                                         *)
(* A handling is numbered, and the number stands for the decision id and   *)
(* the record id it is given.  Drafts that a failed forward leaves behind, *)
(* the contents of every message, and the money the models cost are left   *)
(* out.                                                                    *)
(***************************************************************************)
EXTENDS Naturals, FiniteSets, Sequences, SequencesExt

CONSTANTS
  Messages,        \* messages of the inbox
  Tasks,           \* background tasks that may be running at once
  Batches,         \* the sequences of ids one notification request may carry
  Capacity,        \* ids ProcessedMessages remembers
  ForwardEnabled,  \* FORWARD_ENABLED
  Faults,          \* what may go wrong, a subset of AllFaults
  MaxNotices,      \* bound: notification requests
  MaxHandlings,    \* bound: handlings started
  MaxCrashes       \* bound: restarts of the process

\* Graph refuses a request; Graph carries it out and the answer is lost; a
\* model call raises; a line or a record cannot be written.
AllFaults == {"graph", "reply", "model", "journal", "records"}

ASSUME FaultsAreFaults == Faults \subseteq AllFaults
ASSUME BoundsAreNumbers ==
  /\ {MaxNotices, MaxHandlings, MaxCrashes} \subseteq Nat
  /\ Capacity \in Nat \ {0}
  /\ Batches \subseteq Seq(Messages)
  /\ ForwardEnabled \in BOOLEAN

VARIABLES
  processed,  \* ProcessedMessages: ids seen, oldest first
  queue,      \* per task, the ids it has still to finish
  at,         \* per task, the next step of handle
  local,      \* per task, the local variables of handle
  category,   \* per message, our labels on the mailbox copy
  started,    \* how many handlings have begun
  of,         \* per handling, its message
  received,   \* per handling, the copies of the email a desk received
  journal,    \* per handling, the lines under its decision id, in order
  record,     \* per handling, its record as the pages read it
  notices, crashes

process == <<processed, queue, at, local>>
handled == <<started, of>>
store   == <<journal, record>>
vars == <<process, category, handled, received, store, notices, crashes>>

Handlings == 1..MaxHandlings

\* `OutlookCategories`: the label of an RFQ, of anything else, of a verdict a
\* person must confirm, and the two marks of failure.
Names == {"rfq", "other", "review", "not sent", "error"}

Outcomes == {"SENT", "DISABLED", "UNSURE", "NO_REGION", "NO_ADDRESS", "FAILED"}

\* "The three outcomes that mean we tried and could not."
Undelivered == {"NO_REGION", "NO_ADDRESS", "FAILED"}

Nowhere == "none"   \* no delivery, no region, no message

ASSUME NowhereIsNoMessage == Nowhere \notin Messages

\* What the region of an RFQ leads to: a desk, a region with no address, none.
Desks == {"desk", "no address", Nowhere}

\* Where a message stands in handle, in the order of its awaits.
Steps == {"free", "fetch", "fetched", "classify", "journal", "open", "extract",
          "send", "resend", "label", "relabel", "delivery", "update", "match",
          "label error", "record error"}

Fresh == [h |-> 0, seen |-> {}, forward |-> FALSE, review |-> FALSE,
          known |-> FALSE, items |-> FALSE, form |-> FALSE, desk |-> Nowhere,
          outcome |-> Nowhere, labels |-> {}, labelled |-> FALSE]

NoRecord == [open |-> FALSE, decided |-> FALSE, extraction |-> FALSE,
             labels |-> {}, labelled |-> "unset", outcome |-> Nowhere,
             matching |-> FALSE, error |-> FALSE]

Line(type, l) ==
  [type |-> type, outcome |-> l.outcome, labels |-> l.labels, labelled |-> l.labelled]

Yes(b) == IF b THEN "yes" ELSE "no"

Message(t) == Head(queue[t])

\* Whether a fault of the environment may happen here.
May(fault) == fault \in Faults

\* What a request to Graph may come to: all but the first raise in the caller.
Answers == {"ok"} \cup (IF May("graph") THEN {"refused"} ELSE {})
                  \cup (IF May("reply") THEN {"lost"} ELSE {})
Done(answer) == answer # "refused"

Init ==
  /\ processed = <<>>
  /\ queue = [t \in Tasks |-> <<>>]
  /\ at = [t \in Tasks |-> "free"]
  /\ local = [t \in Tasks |-> Fresh]
  /\ category = [m \in Messages |-> {}]
  /\ started = 0
  /\ of = [h \in Handlings |-> Nowhere]
  /\ received = [h \in Handlings |-> 0]
  /\ journal = [h \in Handlings |-> <<>>]
  /\ record = [h \in Handlings |-> NoRecord]
  /\ notices = 0
  /\ crashes = 0

-----------------------------------------------------------------------------
\* The webhook and NotificationService.

\* Faulty: a memory that reports every id as new.
RegisterAgain(seen, id) ==
  [ids |-> seen.ids, fresh |-> Append(seen.fresh, id)]

\* ProcessedMessages.register: an id is fresh once, and the oldest one is
\* dropped when the memory is over its capacity.
Register(seen, id) ==
  IF id \in ToSet(seen.ids) THEN seen
  ELSE [ids |-> IF Len(seen.ids) = Capacity THEN Append(Tail(seen.ids), id)
                ELSE Append(seen.ids, id),
        fresh |-> Append(seen.fresh, id)]

\* What accept is left with after a batch: the memory, and the ids that were
\* not in it.
Registered(batch) ==
  LET after[i \in 0..Len(batch)] ==
        IF i = 0 THEN [ids |-> processed, fresh |-> <<>>]
        ELSE Register(after[i - 1], batch[i])
  IN after[Len(batch)]

\* One notification request: accept keeps the ids not seen before, and a
\* background task is added when there is one.
Notify(batch) ==
  LET seen == Registered(batch)
  IN /\ notices < MaxNotices
     /\ notices' = notices + 1
     /\ processed' = seen.ids
     /\ \/ /\ seen.fresh = <<>>
           /\ UNCHANGED <<queue, at>>
        \/ /\ seen.fresh # <<>>
           /\ \E t \in Tasks :
                /\ at[t] = "free"
                /\ queue' = [queue EXCEPT ![t] = seen.fresh]
                /\ at' = [at EXCEPT ![t] = "fetch"]
     /\ UNCHANGED <<local, category, handled, received, store, crashes>>

\* The process dies and comes back with nothing in memory.
Crash ==
  /\ crashes < MaxCrashes
  /\ crashes' = crashes + 1
  /\ processed' = <<>>
  /\ queue' = [t \in Tasks |-> <<>>]
  /\ at' = [t \in Tasks |-> "free"]
  /\ local' = [t \in Tasks |-> Fresh]
  /\ UNCHANGED <<category, handled, received, store, notices>>

\* The loop of process goes on to the next id of its batch.
NextMessage(t) ==
  /\ queue' = [queue EXCEPT ![t] = Tail(@)]
  /\ at' = [at EXCEPT ![t] = IF Tail(queue[t]) = <<>> THEN "free" ELSE "fetch"]
  /\ local' = [local EXCEPT ![t] = Fresh]

\* Faulty: a loop that an exception ends, with the ids after it.
AbandonBatch(t) ==
  /\ queue' = [queue EXCEPT ![t] = <<>>]
  /\ at' = [at EXCEPT ![t] = "free"]
  /\ local' = [local EXCEPT ![t] = Fresh]

\* Whatever handle raises is logged, and the loop goes on.
Abandon(t) == NextMessage(t)

Goto(t, step, l) ==
  /\ at' = [at EXCEPT ![t] = step]
  /\ local' = [local EXCEPT ![t] = l]
  /\ UNCHANGED queue

-----------------------------------------------------------------------------
\* ClassifyingEmailHandler.handle

\* get_message: the categories are those of the first request; the second
\* one, for the attachments, may still raise.
Fetch(t) ==
  /\ at[t] = "fetch"
  /\ \/ Goto(t, "fetched", [Fresh EXCEPT !.seen = category[Message(t)]])
     \/ May("graph") /\ Abandon(t)
  /\ UNCHANGED <<processed, category, handled, received, store, notices, crashes>>

\* Faulty: a handler that trusts its memory and never looks at the labels.
NeverHandled(seen) == FALSE

\* Our own label on the message means this one already ran to the end.
AlreadyHandled(seen) == seen \cap Names # {}

Skip(t) ==
  /\ at[t] = "fetched"
  /\ AlreadyHandled(local[t].seen)
  /\ NextMessage(t)
  /\ UNCHANGED <<processed, category, handled, received, store, notices, crashes>>

Start(t) ==
  /\ at[t] = "fetched"
  /\ ~AlreadyHandled(local[t].seen)
  /\ started < MaxHandlings
  /\ started' = started + 1
  /\ of' = [of EXCEPT ![started + 1] = Message(t)]
  /\ Goto(t, "classify", [Fresh EXCEPT !.h = started + 1])
  /\ UNCHANGED <<processed, category, received, store, notices, crashes>>

\* The files are read (_read never raises) and the pipeline answers, or it
\* raises and the failure is labelled.
Classify(t) ==
  /\ at[t] = "classify"
  /\ \/ \E forward, review \in BOOLEAN :
          Goto(t, "journal", [local[t] EXCEPT !.forward = forward, !.review = review])
     \/ May("model") /\ Goto(t, "label error", [local[t] EXCEPT !.labels = {"error"}])
  /\ UNCHANGED <<processed, category, handled, received, store, notices, crashes>>

\* decisions.record, inside the same try as the classification.
JournalDecision(t) ==
  LET l == local[t]
  IN /\ at[t] = "journal"
     /\ \/ /\ journal' = [journal EXCEPT ![l.h] = Append(@, Line("decision", l))]
           /\ Goto(t, "open", l)
        \/ /\ May("journal")
           /\ Goto(t, "label error", [l EXCEPT !.labels = {"error"}])
           /\ UNCHANGED journal
     /\ UNCHANGED <<processed, category, handled, received, record, notices, crashes>>

\* for_result: "a person must look at this" replaces the routing label.
ForResult(l) ==
  IF l.review THEN {"review"} ELSE IF l.forward THEN {"rfq"} ELSE {"other"}

\* records.open never raises; without a record id every later update is
\* skipped.  Only what the policy sends to a desk is read and delivered.
OpenRecord(t) ==
  LET l == [local[t] EXCEPT !.labels = ForResult(local[t])]
      next == IF l.forward THEN "extract" ELSE "label"
  IN /\ at[t] = "open"
     /\ \/ /\ record' = [record EXCEPT ![l.h].open = TRUE, ![l.h].decided = TRUE]
           /\ Goto(t, next, [l EXCEPT !.known = TRUE])
        \/ /\ May("records")
           /\ UNCHANGED record
           /\ Goto(t, next, l)
     /\ UNCHANGED <<processed, category, handled, received, journal, notices, crashes>>

\* EmailRecords.update: nothing without a record id, and a write that fails
\* is logged and swallowed.
Update(t, new) ==
  \/ local[t].known /\ record' = [record EXCEPT ![local[t].h] = new]
  \/ (~local[t].known \/ May("records")) /\ UNCHANGED record

\* The reading goes wrong without stopping anything, or its line is appended
\* and the record updated - unless the line cannot be written, which raises.
Extract(t) ==
  LET l == local[t]
  IN /\ at[t] = "extract"
     /\ \/ /\ \E desk \in Desks : Goto(t, "send", [l EXCEPT !.desk = desk])
           /\ UNCHANGED store
        \/ /\ journal' = [journal EXCEPT ![l.h] = Append(@, Line("extraction", l))]
           /\ Update(t, [record[l.h] EXCEPT !.extraction = TRUE])
           /\ \E items, form \in BOOLEAN : \E desk \in Desks :
                Goto(t, "send", [l EXCEPT !.items = items, !.form = form, !.desk = desk])
        \/ /\ May("journal")
           /\ Abandon(t)
           /\ UNCHANGED store
     /\ UNCHANGED <<processed, category, handled, received, notices, crashes>>

\* Why an RFQ is not sent, in the order _deliver asks.
Refusal(l) ==
  IF ~ForwardEnabled THEN "DISABLED"
  ELSE IF l.review THEN "UNSURE"
  ELSE IF l.desk = Nowhere THEN "NO_REGION"
  ELSE IF l.desk = "no address" THEN "NO_ADDRESS"
  ELSE Nowhere

\* Faulty: an outcome that leaves the label alone.
DeliveredUnmarked(l, outcome) == [l EXCEPT !.outcome = outcome]

\* The outcome decides whether "not sent" joins the label.
Delivered(l, outcome) ==
  [l EXCEPT !.outcome = outcome,
            !.labels = IF outcome \in Undelivered THEN @ \cup {"not sent"} ELSE @]

Withhold(t) ==
  /\ at[t] = "send"
  /\ Refusal(local[t]) # Nowhere
  /\ Goto(t, "label", Delivered(local[t], Refusal(local[t])))
  /\ UNCHANGED <<processed, category, handled, received, store, notices, crashes>>

\* What an attempt leaves to do: with the form on it, a failure is tried
\* again without.
AfterForward(l, answer) ==
  IF answer = "ok" THEN [step |-> "label", l |-> Delivered(l, "SENT")]
  ELSE IF l.form THEN [step |-> "resend", l |-> l]
  ELSE [step |-> "label", l |-> Delivered(l, "FAILED")]

\* The first attempt of _deliver, carrying the form when there is one.
Send(t) ==
  /\ at[t] = "send"
  /\ Refusal(local[t]) = Nowhere
  /\ \E answer \in Answers :
       LET next == AfterForward(local[t], answer)
       IN /\ received' = [received EXCEPT ![local[t].h] = IF Done(answer) THEN @ + 1 ELSE @]
          /\ Goto(t, next.step, next.l)
  /\ UNCHANGED <<processed, category, handled, store, notices, crashes>>

\* "Sending the RFQ without it beats not sending the RFQ."
Resend(t) ==
  /\ at[t] = "resend"
  /\ \E answer \in Answers :
       LET next == AfterForward([local[t] EXCEPT !.form = FALSE], answer)
       IN /\ received' = [received EXCEPT ![local[t].h] = IF Done(answer) THEN @ + 1 ELSE @]
          /\ Goto(t, next.step, next.l)
  /\ UNCHANGED <<processed, category, handled, store, notices, crashes>>

\* Faulty: a handler that keeps the delivery for the record alone.
AfterLabelUnjournalled(l, took) ==
  [step |-> "update", l |-> [l EXCEPT !.labelled = took]]

\* Only an RFQ that was due for delivery has a delivery line.
AfterLabel(l, took) ==
  [step |-> IF l.outcome = Nowhere THEN "update" ELSE "delivery",
   l |-> [l EXCEPT !.labelled = took]]

\* One PATCH of the categories: it replaces whatever the message carried.
Stamp(t, answer) ==
  category' = [category EXCEPT ![Message(t)] =
                 IF Done(answer) THEN local[t].labels ELSE @]

\* _label: the first PATCH may be refused because the change key in the id
\* has moved on, which is what a forward does to it.
Label(t) ==
  /\ at[t] = "label"
  /\ \/ /\ Goto(t, "relabel", local[t])
        /\ UNCHANGED category
     \/ \E answer \in Answers :
          LET next == AfterLabel(local[t], answer = "ok")
          IN Stamp(t, answer) /\ Goto(t, next.step, next.l)
  /\ UNCHANGED <<processed, handled, received, store, notices, crashes>>

\* set_categories reads the current id and writes once more.
Relabel(t) ==
  /\ at[t] = "relabel"
  /\ \E answer \in Answers :
       LET next == AfterLabel(local[t], answer = "ok")
       IN Stamp(t, answer) /\ Goto(t, next.step, next.l)
  /\ UNCHANGED <<processed, handled, received, store, notices, crashes>>

JournalDelivery(t) ==
  LET l == local[t]
  IN /\ at[t] = "delivery"
     /\ \/ /\ journal' = [journal EXCEPT ![l.h] = Append(@, Line("delivery", l))]
           /\ Goto(t, "update", l)
        \/ /\ May("journal")
           /\ Abandon(t)
           /\ UNCHANGED journal
     /\ UNCHANGED <<processed, category, handled, received, record, notices, crashes>>

UpdateRecord(t) ==
  LET l == local[t]
  IN /\ at[t] = "update"
     /\ Update(t, [record[l.h] EXCEPT !.labels = l.labels, !.labelled = Yes(l.labelled),
                                      !.outcome = l.outcome])
     /\ Goto(t, "match", l)
     /\ UNCHANGED <<processed, category, handled, received, journal, notices, crashes>>

\* _match never raises; with no line read there is nothing to match.
Match(t) ==
  LET l == local[t]
  IN /\ at[t] = "match"
     /\ \/ UNCHANGED record
        \/ l.items /\ Update(t, [record[l.h] EXCEPT !.matching = TRUE])
     /\ NextMessage(t)
     /\ UNCHANGED <<processed, category, handled, received, journal, notices, crashes>>

\* The error label, whether or not it sticks; a first write refused as a
\* conflict and the second one are one step here.
LabelError(t) ==
  /\ at[t] = "label error"
  /\ \E answer \in Answers :
       Stamp(t, answer) /\ Goto(t, "record error", local[t])
  /\ UNCHANGED <<processed, handled, received, store, notices, crashes>>

\* _record_failure opens a record with no decision behind it and writes the
\* error into it; the exception is then raised again.
RecordError(t) ==
  LET l == local[t]
      opened == [NoRecord EXCEPT !.open = TRUE]
  IN /\ at[t] = "record error"
     /\ \/ record' = [record EXCEPT ![l.h] =
                        [opened EXCEPT !.labels = l.labels, !.error = TRUE]]
        \/ May("records") /\ record' = [record EXCEPT ![l.h] = opened]
        \/ May("records") /\ UNCHANGED record
     /\ Abandon(t)
     /\ UNCHANGED <<processed, category, handled, received, journal, notices, crashes>>

Step(t) ==
  \/ Fetch(t) \/ Skip(t) \/ Start(t) \/ Classify(t) \/ JournalDecision(t)
  \/ OpenRecord(t) \/ Extract(t) \/ Withhold(t) \/ Send(t) \/ Resend(t)
  \/ Label(t) \/ Relabel(t) \/ JournalDelivery(t) \/ UpdateRecord(t)
  \/ Match(t) \/ LabelError(t) \/ RecordError(t)

Next ==
  \/ \E batch \in Batches : Notify(batch)
  \/ Crash
  \/ \E t \in Tasks : Step(t)

Spec == Init /\ [][Next]_vars

\* Every request has a timeout, so a task that may go on does.
FairSpec == Spec /\ \A t \in Tasks : WF_vars(Step(t))

-----------------------------------------------------------------------------
\* Properties

LineType == [type: {"decision", "extraction", "delivery"},
             outcome: Outcomes \cup {Nowhere}, labels: SUBSET Names, labelled: BOOLEAN]

\* The variables of handle, and a record as the pages read it.
Locals == [h: {0} \cup Handlings, seen: SUBSET Names, forward: BOOLEAN, review: BOOLEAN,
           known: BOOLEAN, items: BOOLEAN, form: BOOLEAN,
           desk: Desks, outcome: Outcomes \cup {Nowhere},
           labels: SUBSET Names, labelled: BOOLEAN]

Records == [open: BOOLEAN, decided: BOOLEAN, extraction: BOOLEAN, labels: SUBSET Names,
            labelled: {"unset", "yes", "no"}, outcome: Outcomes \cup {Nowhere},
            matching: BOOLEAN, error: BOOLEAN]

\* Every variable has its type, and ProcessedMessages.register never lets the
\* memory grow past its capacity.
TypeOK ==
  /\ processed \in Seq(Messages) /\ Len(processed) <= Capacity
  /\ queue \in [Tasks -> Seq(Messages)]
  /\ at \in [Tasks -> Steps]
  /\ local \in [Tasks -> Locals]
  /\ category \in [Messages -> SUBSET Names]
  /\ started \in 0..MaxHandlings
  /\ of \in [Handlings -> Messages \cup {Nowhere}]
  /\ received \in [Handlings -> Nat]
  /\ journal \in [Handlings -> Seq(LineType)]
  /\ record \in [Handlings -> Records]
  /\ notices \in 0..MaxNotices
  /\ crashes \in 0..MaxCrashes

\* The handlings of a message that put a copy of it on a desk.
Forwarded(m) == {h \in Handlings : of[h] = m /\ received[h] > 0}

\* However the notifications of one message are repeated, at most one task
\* has it to do: two would both find it unlabelled and both forward it.  It
\* rests on ProcessedMessages remembering every id that is still in a queue.
OneTaskPerMessage ==
  \A t, u \in Tasks : \A i \in DOMAIN queue[t], j \in DOMAIN queue[u] :
    queue[t][i] = queue[u][j] => t = u /\ i = j

\* "Forwarding runs before labelling on purpose": at every moment, a crash
\* included, a message that carries the RFQ label and nothing beside it has
\* reached a desk, so nobody who trusts the mailbox loses an RFQ silently.
NoSilentLoss ==
  ForwardEnabled => \A m \in Messages : category[m] = {"rfq"} => Forwarded(m) # {}

\* "A forward sent twice is two real emails": a second handling that forwards a
\* message costs a restart of the service, and a second copy from one handling
\* the answer of Graph being lost on the way.
DuplicatesHaveACause ==
  /\ \A m \in Messages : Cardinality(Forwarded(m)) <= 1 + crashes
  /\ \A h \in Handlings : received[h] <= IF May("reply") THEN 2 ELSE 1

\* What a page says became of an RFQ is in the journal already, with the same
\* labels and the same answer to whether they stuck.
RecordBehindJournal ==
  \A h \in Handlings : record[h].outcome # Nowhere =>
    \E i \in DOMAIN journal[h] :
      /\ journal[h][i].type = "delivery"
      /\ journal[h][i].outcome = record[h].outcome
      /\ journal[h][i].labels = record[h].labels
      /\ Yes(journal[h][i].labelled) = record[h].labelled

\* A message that carries one of our labels is never forwarded again, across
\* restarts and repeated notifications: the label is the durable dedupe.
NoForwardOnceLabelled ==
  [][\A h \in Handlings : received'[h] > received[h] => category[of[h]] = {}]_vars

\* "One bad email must not stop the queue": every id a request left in a batch
\* is fetched in its turn, whatever happens to the ids before it.
EveryIdIsTakenUp ==
  \A t \in Tasks, m \in Messages :
    (\E i \in 2..Len(queue[t]) : queue[t][i] = m)
      ~> (at[t] = "fetch" /\ Message(t) = m)

-----------------------------------------------------------------------------
\* What comments of the code say and the code does not keep.

\* handlers.py: "The file is what failed, not the forward."  A second attempt
\* is only made when the first one reached nobody.
OnlyTheFileFailed ==
  \A t \in Tasks : at[t] = "resend" => received[local[t].h] = 0

\* registries.py: "Mark an RFQ that no desk received."
NotSentMeansNotReceived ==
  \A m \in Messages : "not sent" \in category[m] => Forwarded(m) = {}

\* handlers.py, _extract: "Runs before the forward and never blocks it."
ReadingNeverBlocks ==
  [][\A t \in Tasks : at[t] = "extract" /\ at'[t] # "extract"
       => at'[t] = "send"]_vars
=============================================================================
