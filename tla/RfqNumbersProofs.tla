-------------------------- MODULE RfqNumbersProofs --------------------------
(***************************************************************************)
(* Theorems about RfqNumbers, for every set of messages and opens and      *)
(* every bound.                                                            *)
(*                                                                         *)
(* That no two records of one count share a number is not inductive: an   *)
(* open holds its number for a while before the record is written, and     *)
(* while the folder store rewrites its file the count is in nobody's hands *)
(* but that open's.  IInv says where every number stands to the count:     *)
(* covered by it, or, during the rewrite, by the number about to be        *)
(* written; and that a count once lost never comes back.                   *)
(***************************************************************************)
EXTENDS RfqNumbers, FiniteSetTheorems, TLAPS

\* Every number on a record of this count is covered by it, no record is of a
\* count to come, and the database has only one.
RecordsCounted ==
  /\ \A r \in records : r.count <= losses
  /\ store = "database" => losses = 0
  /\ ~torn => \A r \in records : r.count = losses => r.number <= counter

\* The folder store opens one record at a time, and it is that open which
\* rewrites the file; the database has no file.
StoreDiscipline ==
  /\ store = "folder" =>
       \A o, p \in Opens : opening[o] # Idle /\ opening[p] # Idle => o = p
  /\ torn => store = "folder" /\ \E o \in Opens : opening[o].number # 0

\* A number in hand belongs to an open of some message and is covered by the
\* count, or is above all of this count while the file is being written.
HandsCounted ==
  \A o \in Opens : opening[o].number # 0 =>
    /\ opening[o].message # Nobody
    /\ ~torn => opening[o].number <= counter
    /\ torn => \A r \in records : r.count = losses => r.number < opening[o].number

IInv ==
  /\ TypeOK
  /\ RecordsCounted
  /\ StoreDiscipline
  /\ HandsCounted
  /\ NumbersInHandAreNew

-----------------------------------------------------------------------------
\* Each bound is a number.
LEMMA Bounds ==
  MaxNumber \in Nat /\ MaxRecords \in Nat /\ MaxCrashes \in Nat /\ MaxLosses \in Nat
<1>1. MaxNumber \in {MaxNumber, MaxRecords, MaxCrashes, MaxLosses}
      /\ MaxRecords \in {MaxNumber, MaxRecords, MaxCrashes, MaxLosses}
      /\ MaxCrashes \in {MaxNumber, MaxRecords, MaxCrashes, MaxLosses}
      /\ MaxLosses \in {MaxNumber, MaxRecords, MaxCrashes, MaxLosses}
  OBVIOUS
<1>2. QED
  BY <1>1, BoundsAreNumbers, Zenon

\* An open that is not under way is a typed one that holds nothing.
LEMMA IdleOpen ==
  /\ Idle \in [message: Messages \cup {Nobody}, number: 0..MaxNumber]
  /\ Idle.message = Nobody /\ Idle.number = 0
BY Bounds DEF Idle

\* Types, a number in hand only for a message, and a finite set of records:
\* Begin, TakeFromSequence, the steps of the file's rewrite, WriteRecord, Fail
\* and Crash all keep them.
TypedOpens == TypeOK /\ \A o \in Opens : opening[o].number # 0 => opening[o].message # Nobody

THEOREM TypeCorrect == Spec => []TypedOpens
<1>1. Init => TypedOpens
  <2> SUFFICES ASSUME Init PROVE TypedOpens
    OBVIOUS
  <2>1. /\ opening \in [Opens -> [message: Messages \cup {Nobody}, number: 0..MaxNumber]]
        /\ \A o \in Opens : opening[o].number = 0
    BY IdleOpen DEF Init
  <2>2. records = {} /\ IsFiniteSet(records)
    BY FS_EmptySet DEF Init
  <2>3. counter \in 0..MaxNumber /\ crashes \in 0..MaxCrashes /\ losses \in 0..MaxLosses
    BY Bounds DEF Init
  <2>4. torn \in BOOLEAN /\ store \in Stores
    BY DEF Init
  <2>5. QED
    BY <2>1, <2>2, <2>3, <2>4 DEF TypedOpens, TypeOK
<1>2. TypedOpens /\ [Next]_vars => TypedOpens'
  <2> SUFFICES ASSUME TypedOpens, [Next]_vars PROVE TypedOpens'
    OBVIOUS
  <2> USE Bounds DEF TypedOpens, TypeOK
  <2>1. ASSUME NEW o \in Opens, NEW m \in Messages, Begin(o, m) PROVE TypedOpens'
    BY <2>1 DEF Begin, Idle
  <2>2. ASSUME NEW o \in Opens, TakeFromSequence(o) PROVE TypedOpens'
    BY <2>2 DEF TakeFromSequence, NextNumber, Taking
  <2>3. ASSUME NEW o \in Opens, EmptyCounterFile(o) \/ EmptyUnreadFile(o)
        PROVE  TypedOpens'
    <3>1. PICK n \in 1..MaxNumber : Truncate(o, n)
      <4>1. counter + 1 \in 1..MaxNumber /\ 1 \in 1..MaxNumber
        BY <2>3 DEF EmptyCounterFile, EmptyUnreadFile, Truncate
      <4>2. QED
        BY <2>3, <4>1 DEF EmptyCounterFile, EmptyUnreadFile, NextNumber
    <3>2. losses' \in 0..MaxLosses
      BY <2>3 DEF EmptyCounterFile, EmptyUnreadFile
    <3>3. /\ opening' \in [Opens -> [message: Messages \cup {Nobody}, number: 0..MaxNumber]]
          /\ \A p \in Opens : opening'[p].number # 0 => opening'[p].message # Nobody
      BY <3>1 DEF Truncate, Taking
    <3>4. counter' = 0 /\ torn' = TRUE /\ UNCHANGED <<records, crashes, store>>
      BY <3>1 DEF Truncate
    <3>5. QED
      BY <3>2, <3>3, <3>4
  <2>4. ASSUME NEW o \in Opens, FillCounterFile(o) PROVE TypedOpens'
    BY <2>4 DEF FillCounterFile
  <2>5. ASSUME NEW o \in Opens, WriteRecord(o) PROVE TypedOpens'
    <3> DEFINE new == [id |-> Cardinality(records) + 1, message |-> opening[o].message,
                       number |-> opening[o].number, count |-> losses]
    <3>1. Cardinality(records) \in Nat
      BY FS_CardinalityType
    <3>2. new \in [id: Nat \ {0}, message: Messages, number: 1..MaxNumber,
                     count: 0..MaxLosses]
      BY <2>5, <3>1 DEF WriteRecord, Issued
    <3>3. records' = records \cup {new}
      BY <2>5 DEF WriteRecord
    <3>4. IsFiniteSet(records')
      BY <3>3, FS_AddElement
    <3>5. opening' = [opening EXCEPT ![o] = Idle]
      BY <2>5 DEF WriteRecord
    <3> HIDE DEF new
    <3>6. UNCHANGED <<counter, torn, losses, crashes, store>>
      BY <2>5 DEF WriteRecord
    <3>7. /\ opening' \in [Opens -> [message: Messages \cup {Nobody}, number: 0..MaxNumber]]
          /\ \A p \in Opens : opening'[p].number # 0 => opening'[p].message # Nobody
      BY <3>5, IdleOpen
    <3>8. records' \subseteq [id: Nat \ {0}, message: Messages, number: 1..MaxNumber,
                             count: 0..MaxLosses]
      BY <3>2, <3>3
    <3>9. QED
      BY <3>4, <3>6, <3>7, <3>8
  <2>6. ASSUME NEW o \in Opens, Fail(o) PROVE TypedOpens'
    <3>1. losses' \in 0..MaxLosses
      BY <2>6 DEF Fail, LeaveFile
    <3>2. /\ opening' \in [Opens -> [message: Messages \cup {Nobody}, number: 0..MaxNumber]]
          /\ \A p \in Opens : opening'[p].number # 0 => opening'[p].message # Nobody
      BY <2>6, IdleOpen DEF Fail
    <3>3. torn' = FALSE /\ UNCHANGED <<counter, records, crashes, store>>
      BY <2>6 DEF Fail, LeaveFile
    <3>4. QED
      BY <3>1, <3>2, <3>3
  <2>7. CASE Crash
    <3>1. /\ counter' \in 0..MaxNumber /\ crashes' \in 0..MaxCrashes
          /\ losses' \in 0..MaxLosses
      BY <2>7 DEF Crash, LeaveFile
    <3>2. /\ opening' \in [Opens -> [message: Messages \cup {Nobody}, number: 0..MaxNumber]]
          /\ \A o \in Opens : opening'[o].number = 0
      BY <2>7, IdleOpen DEF Crash
    <3>3. torn' = FALSE /\ records' = records /\ store' = store
      BY <2>7 DEF Crash, LeaveFile
    <3>4. QED
      BY <3>1, <3>2, <3>3
  <2>8. CASE UNCHANGED vars
    BY <2>8 DEF vars
  <2>9. QED
    BY <2>1, <2>2, <2>3, <2>4, <2>5, <2>6, <2>7, <2>8 DEF Next
<1>3. QED
  BY <1>1, <1>2, PTL DEF Spec

-----------------------------------------------------------------------------
\* The strengthened invariant: every number of this count, on a record or in
\* hand, stands under it, and no number in hand is anybody else's.
THEOREM Inductive == Spec => []IInv
<1> DEFINE Parts == RecordsCounted /\ StoreDiscipline /\ HandsCounted /\ NumbersInHandAreNew
<1>1. Init => Parts
  <2> SUFFICES ASSUME Init PROVE Parts
    OBVIOUS
  <2>1. records = {} /\ ~torn /\ losses = 0 /\ \A o \in Opens : opening[o] = Idle
    BY DEF Init
  <2>2. QED
    BY <2>1, IdleOpen DEF RecordsCounted, StoreDiscipline, HandsCounted, NumbersInHandAreNew
<1>2. TypedOpens /\ TypedOpens' /\ Parts /\ [Next]_vars => Parts'
  <2> SUFFICES ASSUME TypedOpens, TypedOpens', Parts, [Next]_vars PROVE Parts'
    OBVIOUS
  <2>0. /\ counter \in Nat /\ counter' \in Nat /\ losses \in Nat
        /\ \A o \in Opens : opening[o].number \in Nat
        /\ \A o \in Opens : opening'[o].number \in Nat
        /\ \A r \in records : r.number \in Nat /\ r.number >= 1 /\ r.count \in Nat
        /\ store \in {"folder", "database"}
    BY StoresAreKnown, Bounds DEF TypedOpens, TypeOK
  <2>1. ASSUME NEW o \in Opens, NEW m \in Messages, Begin(o, m) PROVE Parts'
    <3>1. /\ \A p \in Opens \ {o} : opening'[p] = opening[p]
          /\ opening[o].number = 0 /\ opening'[o].number = 0
      BY <2>1, IdleOpen DEF Begin, TypedOpens, TypeOK
    <3>2. store = "folder" => \A p \in Opens : opening[p] = Idle
      BY <2>1 DEF Begin
    <3>3. UNCHANGED <<counter, torn, records, losses, store>>
      BY <2>1 DEF Begin
    <3>4. \A p \in Opens : opening[p].number # 0 => opening'[p].number # 0
      BY <3>1
    <3>5. StoreDiscipline'
      BY <3>1, <3>2, <3>3, <3>4 DEF StoreDiscipline
    <3>6. QED
      BY <3>1, <3>3, <3>5, <2>0 DEF RecordsCounted, HandsCounted, NumbersInHandAreNew
  <2>2. ASSUME NEW o \in Opens, TakeFromSequence(o) PROVE Parts'
    <3>1. /\ \A p \in Opens \ {o} : opening'[p] = opening[p]
          /\ opening[o].number = 0 /\ opening'[o].number = counter + 1
          /\ opening'[o].message = opening[o].message
          /\ opening[o].message # Nobody
      BY <2>2 DEF TakeFromSequence, Taking, NextNumber, TypedOpens, TypeOK
    <3>2. store = "database" /\ ~torn /\ ~torn' /\ counter' = counter + 1
          /\ UNCHANGED <<records, losses, store>>
      BY <2>2 DEF TakeFromSequence, NextNumber, StoreDiscipline
    <3>3. QED
      BY <2>0, <3>1, <3>2 DEF RecordsCounted, StoreDiscipline, HandsCounted,
         NumbersInHandAreNew
  <2>3. ASSUME NEW o \in Opens, EmptyCounterFile(o) \/ EmptyUnreadFile(o) PROVE Parts'
    <3>1. /\ \A p \in Opens \ {o} : opening'[p] = opening[p]
          /\ opening[o].number = 0
          /\ opening'[o].message = opening[o].message
          /\ opening[o].message # Nobody
          /\ store = "folder" /\ store' = store
          /\ torn' /\ records' = records
      BY <2>3 DEF EmptyCounterFile, EmptyUnreadFile, Truncate, Taking, TypedOpens, TypeOK
    <3>2. \A p \in Opens \ {o} : opening[p] = Idle
      BY <3>1, IdleOpen DEF StoreDiscipline
    <3>3. ~torn
      BY <3>1, <3>2, IdleOpen DEF StoreDiscipline
    <3>4. \/ opening'[o].number = counter + 1 /\ losses' = losses
          \/ opening'[o].number = 1 /\ losses' = losses + 1
      BY <2>3 DEF EmptyCounterFile, EmptyUnreadFile, Truncate, NextNumber, TypedOpens, TypeOK
    <3>5. opening'[o].number # 0
      BY <2>0, <3>4
    <3>6. \A r \in records : r.count = losses' => r.number < opening'[o].number
      BY <2>0, <3>3, <3>4 DEF RecordsCounted
    <3>7. \A r \in records : r.count <= losses'
      BY <2>0, <3>4 DEF RecordsCounted
    <3>8. RecordsCounted'
      BY <3>1, <3>7 DEF RecordsCounted
    <3>9. StoreDiscipline'
      BY <3>1, <3>2, <3>5, IdleOpen DEF StoreDiscipline
    <3>10. HandsCounted' /\ NumbersInHandAreNew'
      BY <2>0, <3>1, <3>2, <3>6, IdleOpen DEF HandsCounted, NumbersInHandAreNew
    <3>11. QED
      BY <3>8, <3>9, <3>10
  <2>4. ASSUME NEW o \in Opens, FillCounterFile(o) PROVE Parts'
    <3>1. torn /\ ~torn' /\ opening[o].number # 0 /\ counter' = opening[o].number
          /\ UNCHANGED <<opening, records, losses, store>>
      BY <2>4 DEF FillCounterFile
    <3>2. \A p \in Opens : opening[p].number # 0 => p = o
      BY <3>1, IdleOpen DEF StoreDiscipline
    <3>3. \A r \in records : r.count = losses => r.number <= counter'
      BY <2>0, <3>1 DEF HandsCounted
    <3>4. QED
      BY <2>0, <3>1, <3>2, <3>3 DEF RecordsCounted, StoreDiscipline, HandsCounted,
         NumbersInHandAreNew
  <2>5. ASSUME NEW o \in Opens, WriteRecord(o) PROVE Parts'
    <3>1. /\ \A p \in Opens \ {o} : opening'[p] = opening[p]
          /\ opening'[o] = Idle
          /\ opening[o].number # 0 /\ ~torn
          /\ UNCHANGED <<counter, torn, losses, store>>
      BY <2>5 DEF WriteRecord, Issued, TypedOpens, TypeOK
    <3>2. \A r \in records' :
            r \in records \/ (r.number = opening[o].number /\ r.count = losses)
      BY <2>5 DEF WriteRecord
    <3>3. RecordsCounted'
      BY <2>0, <3>1, <3>2 DEF RecordsCounted, HandsCounted
    <3>4. NumbersInHandAreNew'
      BY <3>1, <3>2, IdleOpen DEF NumbersInHandAreNew
    <3>5. QED
      BY <2>0, <3>1, <3>3, <3>4, IdleOpen DEF StoreDiscipline, HandsCounted
  <2>6. ASSUME NEW o \in Opens, Fail(o) PROVE Parts'
    <3>1. /\ \A p \in Opens \ {o} : opening'[p] = opening[p]
          /\ opening[o] # Idle /\ opening'[o] = Idle
          /\ ~torn' /\ losses' = IF torn THEN losses + 1 ELSE losses
          /\ UNCHANGED <<counter, records, store>>
      BY <2>6 DEF Fail, LeaveFile, TypedOpens, TypeOK
    <3>2. torn => \A p \in Opens : opening'[p].number = 0
      BY <3>1, IdleOpen DEF StoreDiscipline
    <3>3. torn => store # "database"
      BY DEF StoreDiscipline
    <3>4. \A r \in records : torn => r.count # losses'
      BY <2>0, <3>1 DEF RecordsCounted
    <3>5. RecordsCounted'
      BY <2>0, <3>1, <3>3, <3>4 DEF RecordsCounted
    <3>6. StoreDiscipline'
      BY <3>1 DEF StoreDiscipline
    <3>7. CASE torn
      <4>1. HandsCounted' /\ NumbersInHandAreNew'
        BY <3>2, <3>7 DEF HandsCounted, NumbersInHandAreNew
      <4>2. QED
        BY <3>5, <3>6, <4>1
    <3>8. CASE ~torn
      <4>1. HandsCounted' /\ NumbersInHandAreNew'
        BY <3>1, <3>8, IdleOpen DEF HandsCounted, NumbersInHandAreNew
      <4>2. QED
        BY <3>5, <3>6, <4>1
    <3>9. QED
      BY <3>7, <3>8
  <2>7. CASE Crash
    <3>1. /\ \A o \in Opens : opening'[o] = Idle
          /\ ~torn' /\ losses' = IF torn THEN losses + 1 ELSE losses
          /\ UNCHANGED <<counter, records, store>>
      BY <2>7 DEF Crash, LeaveFile
    <3>2. RecordsCounted'
      BY <2>0, <3>1 DEF RecordsCounted, StoreDiscipline
    <3>3. QED
      BY <3>1, <3>2, IdleOpen DEF StoreDiscipline, HandsCounted, NumbersInHandAreNew
  <2>8. CASE UNCHANGED vars
    BY <2>8 DEF vars, RecordsCounted, StoreDiscipline, HandsCounted, NumbersInHandAreNew
  <2>9. QED
    BY <2>1, <2>2, <2>3, <2>4, <2>5, <2>6, <2>7, <2>8 DEF Next
<1>3. Spec => [](TypedOpens /\ Parts)
  BY <1>1, <1>2, TypeCorrect, PTL DEF Spec
<1>4. TypedOpens /\ Parts => IInv
  BY DEF IInv, TypedOpens
<1>5. QED
  BY <1>3, <1>4, PTL

\* A number is handed out twice only across a loss of the count, whatever opens
\* overlap, fail, are rolled back or die; the sequence of the database loses
\* none.  For the folder store nothing more is true: a file that cannot be read,
\* and a rewrite that dies or fails, make it number from one again.
THEOREM NumbersAreUnique == Spec => []OneNumberPerCount
<1> DEFINE Whole == OneNumberPerCount /\ (store = "database" => \A r \in records : r.count = 0)
<1>1. Init => Whole
  BY DEF Init, OneNumberPerCount
<1>2. IInv /\ Whole /\ [Next]_vars => Whole'
  <2> SUFFICES ASSUME IInv, Whole, [Next]_vars PROVE Whole'
    OBVIOUS
  <2>1. ASSUME NEW o \in Opens, WriteRecord(o) PROVE Whole'
    <3>1. \A r \in records : r.count = losses => r.number # opening[o].number
      BY <2>1 DEF WriteRecord, Issued, IInv, NumbersInHandAreNew
    <3> DEFINE new == [id |-> Cardinality(records) + 1, message |-> opening[o].message,
                       number |-> opening[o].number, count |-> losses]
    <3>2. /\ records' = records \cup {new} /\ store' = store
          /\ new.number = opening[o].number /\ new.count = losses
      BY <2>1 DEF WriteRecord
    <3>3. store = "database" => losses = 0
      BY DEF IInv, RecordsCounted
    <3> HIDE DEF new
    <3>4. QED
      BY <3>1, <3>2, <3>3 DEF OneNumberPerCount
  <2>2. CASE records' = records /\ store' = store
    BY <2>2 DEF OneNumberPerCount
  <2>3. QED
    BY <2>1, <2>2 DEF Next, vars, Begin, TakeFromSequence, EmptyCounterFile,
       EmptyUnreadFile, Truncate, FillCounterFile, Fail, Crash
<1>3. Whole => OneNumberPerCount
  OBVIOUS
<1>4. QED
  BY <1>1, <1>2, <1>3, Inductive, PTL DEF Spec

=============================================================================
