--------------------------- MODULE CatalogRefresh ---------------------------
(***************************************************************************)
(* The desk's product sheet on its way into the agent: fetched, indexed,   *)
(* written over the snapshot on disk, and put in front of the copy in      *)
(* memory.  The running service does this for ever; `sync_catalog` does it *)
(* once by hand, in a process of its own, over the same two files.         *)
(***************************************************************************)
EXTENDS Naturals

CONSTANTS
  Revisions,  \* of the sheet, numbered as people make them
  Usable,     \* those with a row that has a code and a description
  Absent,     \* no such file, nothing in memory
  Empty,      \* a file of no bytes
  Torn,       \* part of a text, or parts of two
  MaxSyncs,   \* bound: runs of sync_catalog
  MaxFaults   \* bound: failures and deaths

ASSUME RevisionsAreNumbers == Revisions \subseteq Nat /\ 0 \in Revisions
ASSUME SomeAreUsable == Usable \subseteq Revisions
ASSUME MarksAreNoTexts ==
  /\ {Absent, Empty, Torn} \cap Revisions = {}
  /\ Absent # Empty /\ Empty # Torn /\ Absent # Torn
ASSUME BoundsAreNumbers == {MaxSyncs, MaxFaults} \subseteq Nat

VARIABLES
  live,    \* the sheet as Google would serve it now
  disk,    \* per file, the text in it
  at,      \* per process, where it stands in refresh
  fetched, \* per process, the revision it holds
  handle,  \* per process writing the temporary file, what became of that file
  memory,  \* the catalogue the service answers from
  syncs,   \* runs of sync_catalog so far
  met,     \* whether two processes had the temporary file in hand at one time
  faults

vars == <<live, disk, at, fetched, handle, memory, syncs, met, faults>>

Processes == {"service", "sync"}
Files == {"temporary", "csv", "note"}
Texts == Usable \cup {Absent, Empty, Torn}
Phases == {"down", "asleep", "indexing", "indexed", "opened", "written",
           "replaced", "noting"}

TypeOK ==
  /\ live \in Revisions
  /\ disk \in [Files -> Texts]
  /\ at \in [Processes -> Phases]
  /\ fetched \in [Processes -> Revisions]
  /\ handle \in [Processes -> {"temporary", "csv", "gone"}]
  /\ memory \in Usable \cup {Absent, Torn}
  /\ syncs \in 0 .. MaxSyncs
  /\ met \in BOOLEAN
  /\ faults \in 0 .. MaxFaults

Init ==
  /\ live = 0
  /\ disk = [f \in Files |-> Absent]
  /\ at = [p \in Processes |-> "down"]
  /\ fetched = [p \in Processes |-> 0]
  /\ handle = [p \in Processes |-> "temporary"]
  /\ memory = Absent
  /\ syncs = 0
  /\ met = FALSE
  /\ faults = 0

\* What load makes of a text: an empty catalogue is what an absent one is.
Loaded(text) == IF text = Empty THEN Absent ELSE text

\* A revision written from the start of a file somebody else may have written
\* to: the longer text shows behind the shorter.
Over(text, revision) ==
  {revision} \cup IF text \in {Empty, revision} THEN {} ELSE {Torn}

\* A refresh is over: the service sleeps until the next, sync_catalog is gone.
Resting(p) == IF p = "service" THEN "asleep" ELSE "down"

HasTemporary(p) == at[p] \in {"opened", "written"}

\* People edit the sheet.
Edit ==
  /\ live + 1 \in Revisions
  /\ live' = live + 1
  /\ UNCHANGED <<disk, at, fetched, handle, memory, syncs, met, faults>>

\* The service comes up: what is on disk is indexed before anything is served.
Load ==
  /\ at["service"] = "down"
  /\ memory' = Loaded(disk["csv"])
  /\ at' = [at EXCEPT !["service"] = "asleep"]
  /\ UNCHANGED <<live, disk, fetched, handle, syncs, met, faults>>

\* sync_catalog starts; it never reads the snapshot.
Sync ==
  /\ at["sync"] = "down"
  /\ syncs < MaxSyncs
  /\ syncs' = syncs + 1
  /\ at' = [at EXCEPT !["sync"] = "asleep"]
  /\ UNCHANGED <<live, disk, fetched, handle, memory, met, faults>>

\* Google answers with the sheet.
Fetch(p) ==
  /\ at[p] = "asleep"
  /\ fetched' = [fetched EXCEPT ![p] = live]
  /\ at' = [at EXCEPT ![p] = "indexing"]
  /\ UNCHANGED <<live, disk, handle, memory, syncs, met, faults>>

\* Faulty: the answer that would not do is tried again.
TryItAgain(p) == at' = [at EXCEPT ![p] = "indexing"]

\* The refresh ends without a new catalogue.
GiveUp(p) == at' = [at EXCEPT ![p] = Resting(p)]

\* Google does not answer, or not with CSV.
Unavailable(p) ==
  /\ at[p] = "asleep"
  /\ faults < MaxFaults
  /\ faults' = faults + 1
  /\ GiveUp(p)
  /\ UNCHANGED <<live, disk, fetched, handle, memory, syncs, met>>

\* Faulty: whatever came back is a catalogue.
AnyRows(p) == TRUE

HasRows(p) == fetched[p] \in Usable

\* Faulty: the new catalogue is in front before it is on disk.
IndexInFront(p) ==
  /\ at[p] = "indexing"
  /\ IF HasRows(p) THEN at' = [at EXCEPT ![p] = "indexed"] ELSE GiveUp(p)
  /\ memory' = IF p = "service" /\ HasRows(p) THEN fetched[p] ELSE memory
  /\ UNCHANGED <<live, disk, fetched, handle, syncs, met, faults>>

\* The index is built; a sheet with no usable row is one somebody is editing.
Index(p) ==
  /\ at[p] = "indexing"
  /\ IF HasRows(p) THEN at' = [at EXCEPT ![p] = "indexed"] ELSE GiveUp(p)
  /\ UNCHANGED <<live, disk, fetched, handle, memory, syncs, met, faults>>

\* write_text opens the temporary file, which empties the one that is there.
OpenTemporary(p) ==
  /\ at[p] = "indexed"
  /\ disk' = [disk EXCEPT !["temporary"] = Empty]
  /\ at' = [at EXCEPT ![p] = "opened"]
  /\ handle' = [handle EXCEPT ![p] = "temporary"]
  /\ met' = (met \/ \E q \in Processes \ {p} : HasTemporary(q))
  /\ UNCHANGED <<live, fetched, memory, syncs, faults>>

\* Closed for p, and off the path: what a process still has open moves along.
Released(p) == [handle EXCEPT ![p] = "temporary"]

\* Faulty: what was opened is taken for written.
LeaveUnwritten(p) ==
  /\ at[p] = "opened"
  /\ disk' \in {disk, [disk EXCEPT ![handle[p]] = Torn]}
  /\ at' = [at EXCEPT ![p] = "written"]
  /\ handle' = Released(p)
  /\ UNCHANGED <<live, fetched, memory, syncs, met, faults>>

\* The text is written to the file that was opened, wherever it is by now.
WriteTemporary(p) ==
  /\ at[p] = "opened"
  /\ IF handle[p] = "gone" THEN disk' = disk
     ELSE \E text \in Over(disk[handle[p]], fetched[p]) :
            disk' = [disk EXCEPT ![handle[p]] = text]
  /\ at' = [at EXCEPT ![p] = "written"]
  /\ handle' = Released(p)
  /\ UNCHANGED <<live, fetched, memory, syncs, met, faults>>

\* The temporary file becomes the snapshot; a process that has it open goes on
\* writing to the snapshot.  No such file any more: the refresh has failed.
Replace(p) ==
  /\ at[p] = "written"
  /\ IF disk["temporary"] = Absent THEN GiveUp(p) /\ UNCHANGED <<disk, handle>>
     ELSE /\ disk' = [disk EXCEPT !["csv"] = disk["temporary"], !["temporary"] = Absent]
          /\ handle' = [q \in Processes |->
                          CASE at[q] # "opened" -> "temporary"
                            [] handle[q] = "temporary" -> "csv"
                            [] OTHER -> "gone"]
          /\ at' = [at EXCEPT ![p] = "replaced"]
  /\ UNCHANGED <<live, fetched, memory, syncs, met, faults>>

\* The note is rewritten in place.
OpenNote(p) ==
  /\ at[p] = "replaced"
  /\ disk' = [disk EXCEPT !["note"] = Empty]
  /\ at' = [at EXCEPT ![p] = "noting"]
  /\ UNCHANGED <<live, fetched, handle, memory, syncs, met, faults>>

\* The note is complete, and the service's new catalogue is in front: nothing
\* is awaited in between.
WriteNote(p) ==
  /\ at[p] = "noting"
  /\ \E text \in Over(disk["note"], fetched[p]) : disk' = [disk EXCEPT !["note"] = text]
  /\ memory' = IF p = "service" THEN fetched[p] ELSE memory
  /\ at' = [at EXCEPT ![p] = Resting(p)]
  /\ UNCHANGED <<live, fetched, handle, syncs, met, faults>>

\* What a write that stops in the middle leaves: nothing more, or a part.
CutShort(p) ==
  \/ disk' = disk
  \/ /\ at[p] = "opened" /\ handle[p] # "gone"
     /\ disk' = [disk EXCEPT ![handle[p]] = Torn]
  \/ at[p] = "noting" /\ disk' = [disk EXCEPT !["note"] = Torn]

\* The disk refuses to open, write or rename a file: refresh raises.
Refused(p) ==
  /\ at[p] \notin {"down", "asleep", "indexing"}
  /\ faults < MaxFaults
  /\ faults' = faults + 1
  /\ CutShort(p)
  /\ GiveUp(p)
  /\ handle' = Released(p)
  /\ UNCHANGED <<live, fetched, memory, syncs, met>>

\* The process stops or dies; what is in memory goes with it.
Die(p) ==
  /\ at[p] # "down"
  /\ faults < MaxFaults
  /\ faults' = faults + 1
  /\ CutShort(p)
  /\ at' = [at EXCEPT ![p] = "down"]
  /\ handle' = Released(p)
  /\ memory' = IF p = "service" THEN Absent ELSE memory
  /\ UNCHANGED <<live, fetched, syncs, met>>

Next ==
  \/ Edit
  \/ Load
  \/ Sync
  \/ \E p \in Processes :
       \/ Fetch(p) \/ Index(p)
       \/ OpenTemporary(p) \/ WriteTemporary(p) \/ Replace(p)
       \/ OpenNote(p) \/ WriteNote(p)
       \/ Unavailable(p) \/ Refused(p) \/ Die(p)

\* The steps the loop takes of itself: it never ends, and the request it makes
\* has a timeout.
Refreshing ==
  LET p == "service" IN
    \/ Fetch(p) \/ Index(p)
    \/ OpenTemporary(p) \/ WriteTemporary(p) \/ Replace(p)
    \/ OpenNote(p) \/ WriteNote(p)

Spec == Init /\ [][Next]_vars /\ WF_vars(Refreshing)

-----------------------------------------------------------------------------
\* "Replace the snapshot, whole or not at all": the snapshot is one revision
\* of the sheet, complete and with products in it, through every refused write
\* and every death - as long as one process at a time has the temporary file.
SnapshotWhole == ~met => disk["csv"] \in Usable \cup {Absent}

\* A restart never takes the agent back: where the service alone refreshes,
\* the snapshot it would load is at least as new as what it answers from.
RestartNeverOlder ==
  syncs = 0 /\ memory \in Usable => disk["csv"] \in Usable /\ disk["csv"] >= memory

\* "It never replaces a catalogue that works with one that does not", nor with
\* an older one: not by a sheet being edited, a refused write or sync_catalog.
KeepsWorking ==
  [][ at'["service"] # "down" /\ memory \in Usable
        => memory' \in Usable /\ memory' >= memory ]_vars

\* "An item typed in by hand is in the system on the next refresh": a service
\* that stays up comes to answer from the sheet as it is, and to have it on
\* disk with its note, whatever sync_catalog and the failures left behind.
CatchesUp ==
  <>[](live \in Usable /\ at["service"] # "down") =>
    /\ <>[](memory = live /\ disk["csv"] = live)
    /\ []<>(disk["note"] = live)

\* snapshot.py says "whole or not at all" of every write: two processes that
\* share the temporary file break it.
WholeOrNotAtAll == disk["csv"] \in Usable \cup {Absent}

\* sync_catalog is for whoever "does not want to wait": when it has finished,
\* the service answers from what it fetched.  It does not.
SyncIsSeen ==
  [][ at["sync"] = "noting" /\ at'["sync"] = "down" /\ faults' = faults
      /\ at["service"] # "down"
        => memory' \in Usable /\ memory' >= fetched["sync"] ]_vars

\* The note says "when this copy was taken, and what it holds": at rest it is
\* about the snapshot beside it.  A death between the two writes parts them.
NoteDescribes ==
  (\A p \in Processes : at[p] \notin {"replaced", "noting"}) /\ disk["note"] \in Revisions
    => disk["note"] = disk["csv"]
=============================================================================
