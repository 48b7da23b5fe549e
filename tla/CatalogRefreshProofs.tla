------------------------ MODULE CatalogRefreshProofs ------------------------
(***************************************************************************)
(* What the refresh keeps for every sheet, any number of revisions, runs   *)
(* of sync_catalog and failures.                                           *)
(***************************************************************************)
EXTENDS CatalogRefresh, TLAPS

Holding == {"indexed", "opened", "written", "replaced", "noting"}

\* What is past the index is a catalogue.
HeldIsUsable == \A p \in Processes : at[p] \in Holding => fetched[p] \in Usable

\* Nothing is newer than the sheet.
BehindTheSheet ==
  /\ \A p \in Processes : fetched[p] <= live
  /\ \A f \in Files : disk[f] \in Usable => disk[f] <= live

\* What the service is about to put in front is not older than what is there.
NotGoingBack ==
  memory \in Usable =>
    /\ memory <= live
    /\ at["service"] \in Holding \cup {"indexing"} => memory <= fetched["service"]

\* A catalogue is in memory only while the service is up.
OnlyWhileUp == memory \in Usable => at["service"] # "down"

\* Until two processes have met over it, the temporary file is its writer's.
OwnTemporary ==
  ~met =>
    /\ \A p, q \in Processes : HasTemporary(p) /\ HasTemporary(q) => p = q
    /\ \A p \in Processes :
         /\ at[p] = "opened" => handle[p] = "temporary" /\ disk["temporary"] = Empty
         /\ at[p] = "written" => disk["temporary"] = fetched[p]

\* Where sync_catalog has not run, the service's snapshot is its own.
OwnSnapshot ==
  syncs = 0 =>
    /\ at["sync"] = "down" /\ ~met
    /\ at["service"] \in {"replaced", "noting"} => disk["csv"] = fetched["service"]

IInv ==
  /\ TypeOK
  /\ HeldIsUsable
  /\ BehindTheSheet
  /\ NotGoingBack
  /\ OnlyWhileUp
  /\ OwnTemporary
  /\ OwnSnapshot
  /\ SnapshotWhole
  /\ RestartNeverOlder

-----------------------------------------------------------------------------
\* In the beginning nothing is on disk, in memory or under way.
LEMMA Beginning == Init => IInv
<1> SUFFICES ASSUME Init PROVE IInv
  OBVIOUS
<1> USE RevisionsAreNumbers, SomeAreUsable, MarksAreNoTexts, BoundsAreNumbers DEF Init
<1>0. MaxSyncs \in Nat /\ MaxFaults \in Nat /\ Absent \notin Usable
  OBVIOUS
<1>1. TypeOK
  <2>1. disk \in [Files -> Texts] /\ memory \in Usable \cup {Absent, Torn}
    BY DEF Texts
  <2>2. /\ at \in [Processes -> Phases]
        /\ fetched \in [Processes -> Revisions]
        /\ handle \in [Processes -> {"temporary", "csv", "gone"}]
    BY DEF Phases
  <2>3. live \in Revisions /\ met \in BOOLEAN
    OBVIOUS
  <2>4. syncs \in 0 .. MaxSyncs /\ faults \in 0 .. MaxFaults
    BY <1>0
  <2> QED
    BY <2>1, <2>2, <2>3, <2>4 DEF TypeOK
<1>2. HeldIsUsable
  BY DEF HeldIsUsable, Holding
<1>3. BehindTheSheet
  <2>1. \A p \in Processes : fetched[p] = 0
    OBVIOUS
  <2>2. \A f \in Files : disk[f] \notin Usable
    BY <1>0
  <2> QED
    BY <2>1, <2>2 DEF BehindTheSheet
<1>4. NotGoingBack
  BY DEF NotGoingBack
<1>5. OnlyWhileUp
  BY DEF OnlyWhileUp
<1>6. OwnTemporary
  BY DEF OwnTemporary, HasTemporary
<1>7. OwnSnapshot
  BY DEF OwnSnapshot, Processes
<1>8. SnapshotWhole
  BY DEF SnapshotWhole, Files
<1>9. RestartNeverOlder
  BY DEF RestartNeverOlder
<1> QED
  BY <1>1, <1>2, <1>3, <1>4, <1>5, <1>6, <1>7, <1>8, <1>9 DEF IInv

\* Each action keeps the invariant, whichever process takes it.  The conjuncts
\* an action cannot disturb are one step, the others have one each.
LEMMA EachStep == IInv /\ [Next]_vars => IInv'
<1> SUFFICES ASSUME IInv, [Next]_vars
             PROVE  IInv'
  OBVIOUS
<1> USE DEF IInv
<1>1. ASSUME Edit
      PROVE  IInv'
  <2>1. (TypeOK /\ HeldIsUsable /\ OnlyWhileUp /\ OwnTemporary /\ OwnSnapshot
     /\ SnapshotWhole /\ RestartNeverOlder)'
    BY <1>1 DEF TypeOK, Edit, HeldIsUsable, OnlyWhileUp, OwnTemporary,
       HasTemporary, OwnSnapshot, SnapshotWhole, RestartNeverOlder
  <2>2. BehindTheSheet'
    <3>1. live \in Nat /\ live' = live + 1 /\ fetched' = fetched /\ disk' = disk
      BY <1>1, RevisionsAreNumbers DEF Edit, TypeOK
    <3>2. ASSUME NEW q \in Processes PROVE fetched[q] <= live + 1
      <4>1. fetched[q] \in Nat /\ fetched[q] <= live
        BY RevisionsAreNumbers DEF TypeOK, BehindTheSheet
      <4> QED BY <3>1, <4>1
    <3>3. ASSUME NEW f \in Files, disk[f] \in Usable PROVE disk[f] <= live + 1
      <4>1. disk[f] \in Nat /\ disk[f] <= live
        BY <3>3, RevisionsAreNumbers, SomeAreUsable DEF BehindTheSheet
      <4> QED BY <3>1, <4>1
    <3> QED
      BY <3>1, <3>2, <3>3 DEF BehindTheSheet
  <2>3. NotGoingBack'
    BY <1>1, RevisionsAreNumbers, SomeAreUsable DEF TypeOK, NotGoingBack, Edit
  <2> QED
    BY <2>1, <2>2, <2>3
<1>2. ASSUME Load
      PROVE  IInv'
  <2>1. (BehindTheSheet /\ OwnTemporary /\ OwnSnapshot /\ SnapshotWhole)'
    BY <1>2 DEF BehindTheSheet, Load, OwnTemporary, HasTemporary, OwnSnapshot,
       SnapshotWhole
  <2>2. TypeOK'
    BY <1>2 DEF TypeOK, Load, Loaded, Files, Texts, Phases
  <2>3. HeldIsUsable'
    BY <1>2 DEF HeldIsUsable, Load, Holding
  <2>4. NotGoingBack'
    BY <1>2, SomeAreUsable, MarksAreNoTexts DEF BehindTheSheet, NotGoingBack,
       Load, Loaded, Files, Holding
  <2>5. OnlyWhileUp'
    BY <1>2 DEF TypeOK, OnlyWhileUp, Load, Processes
  <2>6. RestartNeverOlder'
    BY <1>2, RevisionsAreNumbers, SomeAreUsable, MarksAreNoTexts DEF
       RestartNeverOlder, Load, Loaded
  <2> QED
    BY <2>1, <2>2, <2>3, <2>4, <2>5, <2>6
<1>3. ASSUME Sync
      PROVE  IInv'
  <2>1. (BehindTheSheet /\ NotGoingBack /\ OnlyWhileUp /\ OwnTemporary /\
     SnapshotWhole)'
    BY <1>3 DEF BehindTheSheet, Sync, NotGoingBack, OnlyWhileUp, OwnTemporary,
       HasTemporary, SnapshotWhole
  <2>2. TypeOK'
    BY <1>3, BoundsAreNumbers DEF TypeOK, Sync, Processes, Phases
  <2>3. HeldIsUsable'
    BY <1>3 DEF HeldIsUsable, Sync, Holding
  <2>4. OwnSnapshot'
    BY <1>3 DEF TypeOK, OwnSnapshot, Sync
  <2>5. RestartNeverOlder'
    BY <1>3 DEF TypeOK, RestartNeverOlder, Sync
  <2> QED
    BY <2>1, <2>2, <2>3, <2>4, <2>5
<1>4. ASSUME NEW p \in Processes, Fetch(p)
      PROVE  IInv'
  <2>1. (OnlyWhileUp /\ OwnTemporary /\ OwnSnapshot /\ SnapshotWhole /\
     RestartNeverOlder)'
    BY <1>4 DEF OnlyWhileUp, Fetch, OwnTemporary, HasTemporary, OwnSnapshot,
       SnapshotWhole, RestartNeverOlder
  <2>2. TypeOK'
    BY <1>4 DEF TypeOK, Fetch, Phases
  <2>3. HeldIsUsable'
    BY <1>4 DEF HeldIsUsable, Fetch, Holding
  <2>4. BehindTheSheet'
    BY <1>4, RevisionsAreNumbers DEF TypeOK, BehindTheSheet, Fetch
  <2>5. NotGoingBack'
    BY <1>4 DEF TypeOK, NotGoingBack, Fetch
  <2> QED
    BY <2>1, <2>2, <2>3, <2>4, <2>5
<1>5. ASSUME NEW p \in Processes, Index(p)
      PROVE  IInv'
  <2>1. (BehindTheSheet /\ SnapshotWhole /\ RestartNeverOlder)'
    BY <1>5 DEF BehindTheSheet, Index, SnapshotWhole, RestartNeverOlder
  <2>2. TypeOK'
    BY <1>5 DEF TypeOK, Index, GiveUp, Resting, Phases
  <2>3. HeldIsUsable'
    BY <1>5 DEF TypeOK, HeldIsUsable, Index, HasRows, GiveUp, Resting, Holding
  <2>4. NotGoingBack'
    BY <1>5 DEF TypeOK, NotGoingBack, Index, GiveUp, Processes
  <2>5. OnlyWhileUp'
    BY <1>5 DEF TypeOK, OnlyWhileUp, Index, GiveUp, Resting, Processes
  <2>6. OwnTemporary'
    BY <1>5 DEF TypeOK, OwnTemporary, Index, GiveUp, Resting, HasTemporary
  <2>7. OwnSnapshot'
    BY <1>5 DEF TypeOK, OwnSnapshot, Index, GiveUp, Resting, Processes
  <2> QED
    BY <2>1, <2>2, <2>3, <2>4, <2>5, <2>6, <2>7
<1>6. ASSUME NEW p \in Processes, OpenTemporary(p)
      PROVE  IInv'
  <2>1. (OnlyWhileUp /\ RestartNeverOlder)'
    BY <1>6 DEF OnlyWhileUp, OpenTemporary, RestartNeverOlder
  <2>2. TypeOK'
    BY <1>6 DEF TypeOK, OpenTemporary, Texts, Phases
  <2>3. HeldIsUsable'
    BY <1>6 DEF HeldIsUsable, OpenTemporary, Holding
  <2>4. BehindTheSheet'
    BY <1>6, SomeAreUsable, MarksAreNoTexts DEF BehindTheSheet, OpenTemporary
  <2>5. NotGoingBack'
    BY <1>6 DEF NotGoingBack, OpenTemporary, Holding
  <2>6. OwnTemporary'
    BY <1>6 DEF TypeOK, OwnTemporary, OpenTemporary, Files, HasTemporary
  <2>7. OwnSnapshot'
    BY <1>6 DEF TypeOK, OwnSnapshot, OpenTemporary, Processes, HasTemporary
  <2>8. SnapshotWhole'
    BY <1>6 DEF TypeOK, SnapshotWhole, OpenTemporary
  <2> QED
    BY <2>1, <2>2, <2>3, <2>4, <2>5, <2>6, <2>7, <2>8
<1>7. ASSUME NEW p \in Processes, WriteTemporary(p)
      PROVE  IInv'
  <2>1. OnlyWhileUp'
    BY <1>7 DEF OnlyWhileUp, WriteTemporary
  <2>2. TypeOK'
    BY <1>7 DEF TypeOK, HeldIsUsable, WriteTemporary, Over, Released, Texts,
       Phases, Holding
  <2>3. HeldIsUsable'
    BY <1>7 DEF HeldIsUsable, WriteTemporary, Holding
  <2>4. BehindTheSheet'
    BY <1>7, SomeAreUsable, MarksAreNoTexts DEF TypeOK, BehindTheSheet,
       WriteTemporary, Over
  <2>5. NotGoingBack'
    BY <1>7 DEF NotGoingBack, WriteTemporary, Holding
  <2>6. OwnTemporary'
    BY <1>7 DEF TypeOK, OwnTemporary, WriteTemporary, Over, Files,
       HasTemporary
  <2>7. OwnSnapshot'
    BY <1>7 DEF OwnSnapshot, WriteTemporary, Processes
  <2>8. SnapshotWhole'
    BY <1>7 DEF TypeOK, OwnTemporary, SnapshotWhole, WriteTemporary, Files
  <2>9. RestartNeverOlder'
    BY <1>7 DEF TypeOK, OwnTemporary, OwnSnapshot, RestartNeverOlder,
       WriteTemporary, Files
  <2> QED
    BY <2>1, <2>2, <2>3, <2>4, <2>5, <2>6, <2>7, <2>8, <2>9
<1>8. ASSUME NEW p \in Processes, Replace(p)
      PROVE  IInv'
  <2>1. TypeOK'
    BY <1>8 DEF TypeOK, Replace, GiveUp, Resting, Files, Texts, Phases
  <2>2. HeldIsUsable'
    BY <1>8 DEF TypeOK, HeldIsUsable, Replace, GiveUp, Holding
  <2>3. BehindTheSheet'
    BY <1>8, SomeAreUsable, MarksAreNoTexts DEF TypeOK, BehindTheSheet,
       Replace, Files
  <2>4. NotGoingBack'
    BY <1>8 DEF TypeOK, NotGoingBack, Replace, GiveUp, Processes, Holding
  <2>5. OnlyWhileUp'
    BY <1>8 DEF TypeOK, OnlyWhileUp, Replace, GiveUp, Resting, Processes
  <2>6. OwnTemporary'
    BY <1>8 DEF TypeOK, OwnTemporary, Replace, GiveUp, Resting, HasTemporary
  <2>7. OwnSnapshot'
    BY <1>8 DEF TypeOK, OwnTemporary, OwnSnapshot, Replace, GiveUp, Resting,
       Processes, Files
  <2>8. SnapshotWhole'
    BY <1>8 DEF TypeOK, HeldIsUsable, OwnTemporary, SnapshotWhole, Replace,
       Files, Holding
  <2>9. RestartNeverOlder'
    BY <1>8 DEF TypeOK, HeldIsUsable, NotGoingBack, OwnTemporary, OwnSnapshot,
       RestartNeverOlder, Replace, Processes, Files, Holding
  <2> QED
    BY <2>1, <2>2, <2>3, <2>4, <2>5, <2>6, <2>7, <2>8, <2>9
<1>9. ASSUME NEW p \in Processes, OpenNote(p)
      PROVE  IInv'
  <2>1. (OnlyWhileUp /\ OwnTemporary /\ OwnSnapshot /\ SnapshotWhole /\
     RestartNeverOlder)'
    BY <1>9 DEF OnlyWhileUp, OpenNote, OwnTemporary, HasTemporary,
       OwnSnapshot, SnapshotWhole, RestartNeverOlder
  <2>2. TypeOK'
    BY <1>9 DEF TypeOK, OpenNote, Texts, Phases
  <2>3. HeldIsUsable'
    BY <1>9 DEF HeldIsUsable, OpenNote, Holding
  <2>4. BehindTheSheet'
    BY <1>9, SomeAreUsable, MarksAreNoTexts DEF BehindTheSheet, OpenNote
  <2>5. NotGoingBack'
    BY <1>9 DEF NotGoingBack, OpenNote, Holding
  <2> QED
    BY <2>1, <2>2, <2>3, <2>4, <2>5
<1>10. ASSUME NEW p \in Processes, WriteNote(p)
       PROVE  IInv'
  <2>1. (OwnSnapshot /\ SnapshotWhole)'
    BY <1>10 DEF OwnSnapshot, WriteNote, SnapshotWhole
  <2>2. TypeOK'
    BY <1>10 DEF TypeOK, HeldIsUsable, WriteNote, Over, Resting, Texts,
       Phases, Holding
  <2>3. HeldIsUsable'
    BY <1>10 DEF HeldIsUsable, WriteNote, Holding
  <2>4. BehindTheSheet'
    BY <1>10, SomeAreUsable, MarksAreNoTexts DEF BehindTheSheet, WriteNote,
       Over
  <2>5. NotGoingBack'
    BY <1>10 DEF TypeOK, BehindTheSheet, NotGoingBack, WriteNote, Resting,
       Holding
  <2>6. OnlyWhileUp'
    BY <1>10 DEF OnlyWhileUp, WriteNote, Resting
  <2>7. OwnTemporary'
    BY <1>10 DEF OwnTemporary, WriteNote, Resting, HasTemporary
  <2>8. RestartNeverOlder'
    BY <1>10, RevisionsAreNumbers DEF TypeOK, OwnSnapshot, RestartNeverOlder,
       WriteNote
  <2> QED
    BY <2>1, <2>2, <2>3, <2>4, <2>5, <2>6, <2>7, <2>8
<1>11. ASSUME NEW p \in Processes, Unavailable(p)
       PROVE  IInv'
  <2>1. (BehindTheSheet /\ SnapshotWhole /\ RestartNeverOlder)'
    BY <1>11 DEF BehindTheSheet, Unavailable, SnapshotWhole, RestartNeverOlder
  <2>2. TypeOK'
    BY <1>11, BoundsAreNumbers DEF TypeOK, Unavailable, GiveUp, Resting,
       Phases
  <2>3. HeldIsUsable'
    BY <1>11 DEF HeldIsUsable, Unavailable, GiveUp, Resting, Holding
  <2>4. NotGoingBack'
    BY <1>11 DEF NotGoingBack, Unavailable, GiveUp, Resting
  <2>5. OnlyWhileUp'
    BY <1>11 DEF OnlyWhileUp, Unavailable, GiveUp, Resting
  <2>6. OwnTemporary'
    BY <1>11 DEF OwnTemporary, Unavailable, GiveUp, Resting, HasTemporary
  <2>7. OwnSnapshot'
    BY <1>11 DEF OwnSnapshot, Unavailable, GiveUp, Resting
  <2> QED
    BY <2>1, <2>2, <2>3, <2>4, <2>5, <2>6, <2>7
<1>12. ASSUME NEW p \in Processes, Refused(p)
       PROVE  IInv'
  <2>1. TypeOK'
    BY <1>12, BoundsAreNumbers DEF TypeOK, Refused, CutShort, GiveUp, Resting,
       Released, Texts, Phases
  <2>2. HeldIsUsable'
    BY <1>12 DEF HeldIsUsable, Refused, GiveUp, Resting, Holding
  <2>3. BehindTheSheet'
    BY <1>12, SomeAreUsable, MarksAreNoTexts DEF TypeOK, BehindTheSheet,
       Refused, CutShort
  <2>4. NotGoingBack'
    BY <1>12 DEF NotGoingBack, Refused, GiveUp, Resting, Holding
  <2>5. OnlyWhileUp'
    BY <1>12 DEF OnlyWhileUp, Refused, GiveUp, Resting
  <2>6. OwnTemporary'
    BY <1>12 DEF TypeOK, OwnTemporary, Refused, CutShort, GiveUp, Resting,
       Released, Files, HasTemporary
  <2>7. OwnSnapshot'
    BY <1>12 DEF TypeOK, OwnSnapshot, Refused, GiveUp, Resting, Processes
  <2>8. SnapshotWhole'
    BY <1>12 DEF TypeOK, OwnTemporary, SnapshotWhole, Refused, CutShort, Files
  <2>9. RestartNeverOlder'
    BY <1>12 DEF TypeOK, OwnTemporary, OwnSnapshot, RestartNeverOlder,
       Refused, CutShort, Files
  <2> QED
    BY <2>1, <2>2, <2>3, <2>4, <2>5, <2>6, <2>7, <2>8, <2>9
<1>13. ASSUME NEW p \in Processes, Die(p)
       PROVE  IInv'
  <2>1. TypeOK'
    BY <1>13, BoundsAreNumbers DEF TypeOK, Die, CutShort, Released, Texts,
       Phases
  <2>2. HeldIsUsable'
    BY <1>13 DEF HeldIsUsable, Die, Holding
  <2>3. BehindTheSheet'
    BY <1>13, SomeAreUsable, MarksAreNoTexts DEF TypeOK, BehindTheSheet, Die,
       CutShort
  <2>4. NotGoingBack'
    BY <1>13, SomeAreUsable, MarksAreNoTexts DEF NotGoingBack, Die
  <2>5. OnlyWhileUp'
    BY <1>13, SomeAreUsable, MarksAreNoTexts DEF OnlyWhileUp, Die
  <2>6. OwnTemporary'
    BY <1>13 DEF TypeOK, OwnTemporary, Die, CutShort, Released, Files,
       HasTemporary
  <2>7. OwnSnapshot'
    BY <1>13 DEF TypeOK, OwnSnapshot, Die, Processes
  <2>8. SnapshotWhole'
    BY <1>13 DEF TypeOK, OwnTemporary, SnapshotWhole, Die, CutShort, Files
  <2>9. RestartNeverOlder'
    BY <1>13, SomeAreUsable, MarksAreNoTexts DEF OwnSnapshot,
       RestartNeverOlder, Die, Processes
  <2> QED
    BY <2>1, <2>2, <2>3, <2>4, <2>5, <2>6, <2>7, <2>8, <2>9
<1>14. CASE UNCHANGED vars
  BY <1>14 DEF vars, TypeOK, HeldIsUsable, BehindTheSheet, NotGoingBack,
     OnlyWhileUp, OwnTemporary, OwnSnapshot, SnapshotWhole, RestartNeverOlder,
     HasTemporary
<1> QED
  BY <1>1, <1>2, <1>3, <1>4, <1>5, <1>6, <1>7, <1>8, <1>9, <1>10, <1>11,
     <1>12, <1>13, <1>14 DEF Next

\* The invariant holds of every behaviour of the refresh.
LEMMA Always == Spec => []IInv
<1> QED
  BY Beginning, EachStep, PTL DEF Spec

-----------------------------------------------------------------------------
\* Every variable keeps its type: a revision with no products in it is never
\* on disk, and never what the service answers from.
THEOREM TypeCorrect == Spec => []TypeOK
<1>1. IInv => TypeOK
  BY DEF IInv
<1> QED
  BY Always, <1>1, PTL

\* However often the sheet is edited, a file refused or a process dies, the
\* snapshot is one revision, whole, until two processes meet over the
\* temporary file.
THEOREM SnapshotStaysWhole == Spec => []SnapshotWhole
<1>1. IInv => SnapshotWhole
  BY DEF IInv
<1> QED
  BY Always, <1>1, PTL

\* The service alone writes its snapshot before it answers from it, so what a
\* restart loads is never older than what was being served.
THEOREM NothingLostByRestart == Spec => []RestartNeverOlder
<1>1. IInv => RestartNeverOlder
  BY DEF IInv
<1> QED
  BY Always, <1>1, PTL

\* What the service answers from is replaced by a whole, usable and not older
\* revision or not at all, with sync_catalog writing the same files or not.
THEOREM WorkingCopyKept == Spec => KeepsWorking
<1> DEFINE Kept == at'["service"] # "down" /\ memory \in Usable
                     => memory' \in Usable /\ memory' >= memory
<1>1. ASSUME IInv, [Next]_vars PROVE Kept
  <2> SUFFICES ASSUME at'["service"] # "down", memory \in Usable
               PROVE  memory' \in Usable /\ memory' >= memory
    OBVIOUS
  <2>1. memory \in Nat
    BY RevisionsAreNumbers, SomeAreUsable
  <2>2. CASE memory' = memory
    BY <2>1, <2>2
  <2>3. CASE Load
    BY <1>1, <2>3 DEF IInv, OnlyWhileUp, Load
  <2>4. CASE WriteNote("service")
    <3>1. memory' = fetched["service"]
      BY <2>4 DEF WriteNote
    <3>2. fetched["service"] \in Usable /\ memory <= fetched["service"]
      BY <1>1, <2>4 DEF IInv, HeldIsUsable, NotGoingBack, WriteNote, Holding, Processes
    <3>3. fetched["service"] \in Nat
      BY <3>2, RevisionsAreNumbers, SomeAreUsable
    <3> QED
      BY <2>1, <3>1, <3>2, <3>3
  <2>5. CASE Die("service")
    BY <1>1, <2>5 DEF IInv, TypeOK, Die, Processes
  <2>6. memory' = memory \/ Load \/ WriteNote("service") \/ Die("service")
    BY <1>1 DEF Next, vars, Processes, Edit, Sync, Fetch, Index, OpenTemporary,
       WriteTemporary, Replace, OpenNote, WriteNote, Unavailable, Refused, Die
  <2> QED
    BY <2>2, <2>3, <2>4, <2>5, <2>6
<1>2. IInv /\ [Next]_vars => [Kept]_vars
  BY <1>1
<1> QED
  BY Always, <1>2, PTL DEF Spec, KeepsWorking
=============================================================================
