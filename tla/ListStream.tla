----------------------------- MODULE ListStream -----------------------------
(***************************************************************************)
(* How a page that watches the list of RFQs learns that it has changed:    *)
(* writers commit to the database and then announce, Changes sets one      *)
(* event per open stream, and the generator `events` of /api/quotes/stream *)
(* turns a set event into one CHANGED line.                                *)
(*                                                                         *)
(* The page itself is outside this repository.  It is taken to read the    *)
(* list once its stream is open and again after every CHANGED line, which  *)
(* is what the endpoint's documentation asks of it.                        *)
(***************************************************************************)
EXTENDS Naturals

CONSTANTS
  Writers,   \* requests and tasks that write records
  Pages,     \* browsers with the list open
  MaxWrites, \* bound: writes of the records
  MaxVisits  \* bound: times a page opens a stream

ASSUME BoundsAreNumbers == {MaxWrites, MaxVisits} \subseteq Nat

VARIABLES
  version,   \* how many writes are committed: what a read of the list returns
  writing,   \* per writer, whether it has committed and not announced yet
  listening, \* the pages whose stream is open
  changed,   \* per page, whether its event is set
  sending,   \* per page, whether `events` is held up by the yield of a line
  told,      \* per page, whether a line is on its way or a read is still owed
  seen,      \* per page, the version it last read
  visits

vars == <<version, writing, listening, changed, sending, told, seen, visits>>

Init ==
  /\ version = 0
  /\ writing = [w \in Writers |-> FALSE]
  /\ listening = {}
  /\ changed = [p \in Pages |-> FALSE]
  /\ sending = [p \in Pages |-> FALSE]
  /\ told = [p \in Pages |-> FALSE]
  /\ seen = [p \in Pages |-> 0]
  /\ visits = 0

\* The transaction of a write is over.
Commit(w) ==
  /\ ~writing[w]
  /\ version < MaxWrites
  /\ version' = version + 1
  /\ writing' = [writing EXCEPT ![w] = TRUE]
  /\ UNCHANGED <<listening, changed, sending, told, seen, visits>>

\* Faulty: an announcement that wakes only the pages that are waiting at that moment.
AnnounceToIdle(w) ==
  /\ writing[w]
  /\ writing' = [writing EXCEPT ![w] = FALSE]
  /\ changed' = [p \in Pages |-> changed[p] \/ (p \in listening /\ ~sending[p])]
  /\ UNCHANGED <<version, listening, sending, told, seen, visits>>

\* Changes.announce: every listener's event is set, whether it is waiting or
\* not, and setting it twice is setting it once.
Announce(w) ==
  /\ writing[w]
  /\ writing' = [writing EXCEPT ![w] = FALSE]
  /\ changed' = [p \in Pages |-> changed[p] \/ p \in listening]
  /\ UNCHANGED <<version, listening, sending, told, seen, visits>>

\* Changes.subscribe, as the stream opens; the page reads the list after it.
Open(p) ==
  /\ p \notin listening
  /\ visits < MaxVisits
  /\ visits' = visits + 1
  /\ listening' = listening \cup {p}
  /\ told' = [told EXCEPT ![p] = TRUE]
  /\ UNCHANGED <<version, writing, changed, sending, seen>>

\* The stream is closed and its event dropped.
Close(p) ==
  /\ p \in listening
  /\ listening' = listening \ {p}
  /\ changed' = [changed EXCEPT ![p] = FALSE]
  /\ sending' = [sending EXCEPT ![p] = FALSE]
  /\ told' = [told EXCEPT ![p] = FALSE]
  /\ UNCHANGED <<version, writing, seen, visits>>

\* The wait is over: the event is cleared, then the line is yielded.  From
\* here on the page may have it, while the generator is held up by the send.
Wake(p) ==
  /\ changed[p] /\ ~sending[p]
  /\ changed' = [changed EXCEPT ![p] = FALSE]
  /\ sending' = [sending EXCEPT ![p] = TRUE]
  /\ told' = [told EXCEPT ![p] = TRUE]
  /\ UNCHANGED <<version, writing, listening, seen, visits>>

\* Faulty: a generator that clears the event after the yield.
ResumeCleared(p) ==
  /\ sending[p]
  /\ sending' = [sending EXCEPT ![p] = FALSE]
  /\ changed' = [changed EXCEPT ![p] = FALSE]
  /\ UNCHANGED <<version, writing, listening, told, seen, visits>>

\* The send is over and the generator waits again.
Resume(p) ==
  /\ sending[p]
  /\ sending' = [sending EXCEPT ![p] = FALSE]
  /\ UNCHANGED <<version, writing, listening, changed, told, seen, visits>>

\* GET /api/quotes, by the page.
ReadList(p) ==
  /\ told[p]
  /\ told' = [told EXCEPT ![p] = FALSE]
  /\ seen' = [seen EXCEPT ![p] = version]
  /\ UNCHANGED <<version, writing, listening, changed, sending, visits>>

Next ==
  \/ \E w \in Writers : Commit(w) \/ Announce(w)
  \/ \E p \in Pages : Open(p) \/ Close(p) \/ Wake(p) \/ Resume(p) \/ ReadList(p)

Spec == Init /\ [][Next]_vars

\* The event loop runs what is ready; a page answers what it is told.
FairSpec ==
  /\ Spec
  /\ \A w \in Writers : WF_vars(Announce(w))
  /\ \A p \in Pages : WF_vars(Wake(p)) /\ WF_vars(Resume(p)) /\ WF_vars(ReadList(p))

-----------------------------------------------------------------------------
\* Properties

\* Every variable has its type, and a closed stream leaves no event, no line
\* and no read behind.
TypeOK ==
  /\ version \in 0..MaxWrites
  /\ writing \in [Writers -> BOOLEAN]
  /\ listening \subseteq Pages
  /\ changed \in [Pages -> BOOLEAN]
  /\ sending \in [Pages -> BOOLEAN]
  /\ told \in [Pages -> BOOLEAN]
  /\ seen \in [Pages -> 0..MaxWrites]
  /\ visits \in 0..MaxVisits
  /\ \A p \in Pages \ listening : ~changed[p] /\ ~sending[p] /\ ~told[p]

\* No wake-up is lost: a page whose stream is quiet, when every write has been
\* announced, shows the list as it is, although one event stands for any
\* number of writes and may be set while a line is going out.
QuietMeansCurrent ==
  \A p \in listening :
    \/ seen[p] = version
    \/ changed[p] \/ told[p]
    \/ \E w \in Writers : writing[w]

\* A page that stays connected comes to show every write.
WritesAreSeen ==
  \A p \in Pages, v \in 1..MaxWrites :
    (p \in listening /\ version >= v) ~> (seen[p] >= v \/ p \notin listening)
=============================================================================
