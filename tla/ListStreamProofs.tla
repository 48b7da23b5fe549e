-------------------------- MODULE ListStreamProofs --------------------------
(***************************************************************************)
(* No wake-up is lost between a writer and a page, for any number of       *)
(* writers, pages and writes.  QuietMeansCurrent is inductive once the     *)
(* types are known: a write is covered by its writer until it announces,   *)
(* by the event of the page until the generator wakes, and from there on   *)
(* by the line on its way and the read the page owes for it.               *)
(***************************************************************************)
EXTENDS ListStream, TLAPS

LEMMA TypeInit == Init => TypeOK
BY BoundsAreNumbers DEF Init, TypeOK

LEMMA TypeStep == TypeOK /\ [Next]_vars => TypeOK'
<1> SUFFICES ASSUME TypeOK, [Next]_vars PROVE TypeOK'
  OBVIOUS
<1> USE BoundsAreNumbers DEF TypeOK
<1>1. ASSUME NEW w \in Writers, Commit(w) PROVE TypeOK'
  BY <1>1 DEF Commit
<1>2. ASSUME NEW w \in Writers, Announce(w) PROVE TypeOK'
  BY <1>2 DEF Announce
<1>3. ASSUME NEW p \in Pages, Open(p) PROVE TypeOK'
  BY <1>3 DEF Open
<1>4. ASSUME NEW p \in Pages, Close(p) PROVE TypeOK'
  BY <1>4 DEF Close
<1>5. ASSUME NEW p \in Pages, Wake(p) PROVE TypeOK'
  BY <1>5 DEF Wake
<1>6. ASSUME NEW p \in Pages, Resume(p) PROVE TypeOK'
  BY <1>6 DEF Resume
<1>7. ASSUME NEW p \in Pages, ReadList(p) PROVE TypeOK'
  BY <1>7 DEF ReadList
<1>8. CASE UNCHANGED vars
  BY <1>8 DEF vars
<1> QED
  BY <1>1, <1>2, <1>3, <1>4, <1>5, <1>6, <1>7, <1>8 DEF Next

\* Streams, events and writers keep their types, and a closed stream leaves
\* nothing behind.
THEOREM TypeCorrect == Spec => []TypeOK
BY TypeInit, TypeStep, PTL DEF Spec

LEMMA QuietStep ==
  TypeOK /\ QuietMeansCurrent /\ [Next]_vars => QuietMeansCurrent'
<1> SUFFICES ASSUME TypeOK, QuietMeansCurrent, [Next]_vars,
                    NEW q \in Pages, q \in listening'
             PROVE  \/ (seen[q] = version)'
                    \/ (changed[q] \/ told[q])'
                    \/ (\E w \in Writers : writing[w])'
  BY TypeStep DEF QuietMeansCurrent, TypeOK
<1> USE DEF TypeOK, QuietMeansCurrent
<1>1. ASSUME NEW w \in Writers, Commit(w) PROVE writing'[w]
  BY <1>1 DEF Commit
<1>2. ASSUME NEW w \in Writers, Announce(w) PROVE changed'[q]
  BY <1>2 DEF Announce
<1>3. ASSUME NEW p \in Pages, Open(p), p = q PROVE told'[q]
  BY <1>3 DEF Open
<1>4. ASSUME NEW p \in Pages, Wake(p), p = q PROVE told'[q]
  BY <1>4 DEF Wake
<1>5. ASSUME NEW p \in Pages, Resume(p)
      PROVE  /\ q \in listening
             /\ UNCHANGED <<version, writing, seen[q], changed[q], told[q]>>
  BY <1>5 DEF Resume
<1>6. ASSUME NEW p \in Pages, ReadList(p), p = q PROVE seen'[q] = version'
  BY <1>6 DEF ReadList
<1>7. ASSUME NEW p \in Pages, p # q,
             Open(p) \/ Close(p) \/ Wake(p) \/ ReadList(p)
      PROVE  /\ q \in listening
             /\ UNCHANGED <<version, writing, seen[q], changed[q], told[q]>>
  BY <1>7 DEF Open, Close, Wake, ReadList
<1>8. ASSUME NEW p \in Pages, Close(p) PROVE p # q
  BY <1>8 DEF Close
<1>9. CASE UNCHANGED vars
  BY <1>9 DEF vars
<1> QED
  BY <1>1, <1>2, <1>3, <1>4, <1>5, <1>6, <1>7, <1>8, <1>9 DEF Next

\* Whatever writers and streams do, a page that owes no read and has nothing
\* on its way to it shows every write that has been announced.
THEOREM NoLostWakeup == Spec => []QuietMeansCurrent
<1>1. Init => QuietMeansCurrent
  BY DEF Init, QuietMeansCurrent
<1> QED
  BY <1>1, TypeInit, TypeStep, QuietStep, PTL DEF Spec
=============================================================================
