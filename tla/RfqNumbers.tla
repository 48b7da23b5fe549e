----------------------------- MODULE RfqNumbers -----------------------------
(***************************************************************************)
(* How an RFQ gets its number, `RFQ-0042`, as its record is opened: from   *)
(* the counter file of the folder store, or from the sequence of the       *)
(* database.  Every open here is of an email whose verdict says RFQ; the   *)
(* same message may be opened twice, because a message that is handled     *)
(* again after a restart is opened again.                                  *)
(***************************************************************************)
EXTENDS Naturals, FiniteSets

CONSTANTS
  Messages,
  Opens,       \* opens that may be under way at one time
  Stores,      \* the stores there may be, of "folder" and "database"
  MaxNumber,   \* bound: numbers issued in one count
  MaxRecords,  \* bound: records
  MaxCrashes,  \* bound: deaths of the process
  MaxLosses    \* bound: times the count is lost

ASSUME StoresAreKnown == Stores \subseteq {"folder", "database"}
ASSUME BoundsAreNumbers == {MaxNumber, MaxRecords, MaxCrashes, MaxLosses} \subseteq Nat

VARIABLES
  counter,  \* what is issued so far: the file's content, the sequence's value
  torn,     \* whether the counter file is being rewritten
  opening,  \* per open, its message and the number it holds, 0 for none yet
  records,  \* the records there are
  losses,   \* history: times the folder store forgot what it had issued
  crashes,
  store     \* the store this service runs with

vars == <<counter, torn, opening, records, losses, crashes, store>>

Nobody == "none"
Idle == [message |-> Nobody, number |-> 0]

Init ==
  /\ counter = 0
  /\ torn = FALSE
  /\ opening = [o \in Opens |-> Idle]
  /\ records = {}
  /\ losses = 0
  /\ crashes = 0
  /\ store \in Stores

\* The folder store opens one record at a time, under its lock and without an
\* await; the database's transactions overlap.
Begin(o, m) ==
  /\ opening[o] = Idle
  /\ Cardinality(records) < MaxRecords
  /\ store = "folder" => \A p \in Opens : opening[p] = Idle
  /\ opening' = [opening EXCEPT ![o].message = m]
  /\ UNCHANGED <<counter, torn, records, losses, crashes, store>>

\* nextval, or one more than the file says; no file, or an empty one, says that
\* nothing has been issued.
NextNumber == counter + 1

Taking(o) == opening[o].message # Nobody /\ opening[o].number = 0

\* nextval: never handed out twice, and not given back by a rollback.
TakeFromSequence(o) ==
  /\ store = "database"
  /\ Taking(o) /\ counter < MaxNumber
  /\ counter' = NextNumber
  /\ opening' = [opening EXCEPT ![o].number = NextNumber]
  /\ UNCHANGED <<torn, records, losses, crashes, store>>

Truncate(o, number) ==
  /\ store = "folder"
  /\ Taking(o) /\ counter < MaxNumber
  /\ opening' = [opening EXCEPT ![o].number = number]
  /\ counter' = 0
  /\ torn' = TRUE
  /\ UNCHANGED <<records, crashes, store>>

\* The file is read, and write_text opens it for writing, which empties it, ...
EmptyCounterFile(o) ==
  /\ Truncate(o, NextNumber)
  /\ UNCHANGED losses

\* ... or it is there and could not be read: "numbering starts again", and so
\* the file is emptied all the same, ...
EmptyUnreadFile(o) ==
  /\ losses < MaxLosses
  /\ Truncate(o, 1)
  /\ losses' = losses + 1

\* Faulty: a counter written as it was read.
FillAsRead(o) ==
  /\ torn
  /\ opening[o].number # 0
  /\ counter' = opening[o].number - 1
  /\ torn' = FALSE
  /\ UNCHANGED <<opening, records, losses, crashes, store>>

\* ... and then it is filled.
FillCounterFile(o) ==
  /\ torn
  /\ opening[o].number # 0
  /\ counter' = opening[o].number
  /\ torn' = FALSE
  /\ UNCHANGED <<opening, records, losses, crashes, store>>

\* The number is taken before it is used.
Issued(o) == opening[o].number # 0 /\ ~torn

\* emails_message_id_key and the one on rfq_reference; the folder store makes
\* a new folder for every open.
Insertable(o) ==
  store = "database" =>
    \A r \in records : /\ r.message # opening[o].message
                       /\ r.number # opening[o].number

WriteRecord(o) ==
  /\ Issued(o)
  /\ Insertable(o)
  /\ records' = records \cup {[id |-> Cardinality(records) + 1,
                               message |-> opening[o].message,
                               number |-> opening[o].number,
                               count |-> losses]}
  /\ opening' = [opening EXCEPT ![o] = Idle]
  /\ UNCHANGED <<counter, torn, losses, crashes, store>>

\* A write that stops half-way leaves the file as it is: empty, so that the
\* count is lost.
LeaveFile ==
  /\ torn' = FALSE
  /\ losses' = IF torn THEN losses + 1 ELSE losses
  /\ losses' <= MaxLosses
  /\ UNCHANGED counter

\* Anything raises: the folder cannot be made, the sequence cannot be reached,
\* the counter cannot be written, before it is emptied or after, the row is
\* refused, the disk is full.  open logs it and returns None.
Fail(o) ==
  /\ opening[o] # Idle
  /\ opening' = [opening EXCEPT ![o] = Idle]
  /\ LeaveFile
  /\ UNCHANGED <<records, crashes, store>>

\* The process dies.
Crash ==
  /\ crashes < MaxCrashes
  /\ crashes' = crashes + 1
  /\ opening' = [o \in Opens |-> Idle]
  /\ LeaveFile
  /\ UNCHANGED <<records, store>>

Next ==
  \/ \E o \in Opens :
       \/ \E m \in Messages : Begin(o, m)
       \/ TakeFromSequence(o) \/ EmptyCounterFile(o) \/ EmptyUnreadFile(o)
       \/ FillCounterFile(o) \/ WriteRecord(o) \/ Fail(o)
  \/ Crash

Spec == Init /\ [][Next]_vars

-----------------------------------------------------------------------------
\* Properties

\* Counter, opens and records have their types, and nothing holds a number
\* above the bound.
TypeOK ==
  /\ counter \in 0..MaxNumber
  /\ torn \in BOOLEAN
  /\ opening \in [Opens -> [message: Messages \cup {Nobody}, number: 0..MaxNumber]]
  /\ records \subseteq [id: Nat \ {0}, message: Messages, number: 1..MaxNumber,
                 count: 0..MaxLosses]
  /\ IsFiniteSet(records)
  /\ losses \in 0..MaxLosses
  /\ crashes \in 0..MaxCrashes
  /\ store \in Stores

\* "A number handed out twice is two RFQs a customer cannot tell apart"
\* (_take_number): no two records share one, whatever opens overlap, fail, are
\* rolled back or die.
OneNumberOneRfq ==
  \A r, s \in records : r.number = s.number => r = s

\* What the code does keep of that: over the database no two records share a
\* number, and over the folder they do so only where the count was lost between
\* the two, the file read in vain or its rewriting broken off.
OneNumberPerCount ==
  \A r, s \in records :
    r.number = s.number /\ (store = "database" \/ r.count = s.count) => r = s

\* The same of the numbers being issued: none is on a record of this count, and
\* no two opens hold one.
NumbersInHandAreNew ==
  \A o \in Opens : opening[o].number # 0 =>
    /\ \A r \in records : r.count = losses => r.number # opening[o].number
    /\ \A p \in Opens : opening[p].number = opening[o].number => p = o

\* database.py, open: "a number taken for a record that then failed to write is
\* a gap in the sequence somebody would go looking for", so with nobody opening
\* there is no number without its record.
NoGap ==
  (\A o \in Opens : opening[o] = Idle) =>
    \A n \in 1..counter : \E r \in records : r.number = n
=============================================================================
