------------------------------- MODULE Keeping -------------------------------
(***************************************************************************)
(* The files of one record: the customer's attachments and the filled form *)
(* kept beside what is recorded of them (infrastructure/storage/records.py,*)
(* database.py; infrastructure/blobs/folder.py).                           *)
(*                                                                         *)
(* In the folder store the record is a file among the others; in the       *)
(* database it is rows, and the files are blobs of a folder.  Writing a    *)
(* file empties it first; any write may fail and the service may die       *)
(* between two of them.  A name is the text as it arrived and the marks    *)
(* put behind it: numbers from 2, and Tmp for a file being written.  A     *)
(* place on disk is a directory and a name.                                *)
(***************************************************************************)
EXTENDS Integers, Sequences, FiniteSets, FiniteSetsExt, Functions

CONSTANTS
  Deliveries,   \* attachments an email may have: sequences of [name, comes]
  FormName,     \* the workbook's name
  InLower,      \* str.lower of a name
  KeepFiles     \* keep_attachments

VARIABLES
  store,        \* "folder" or "blobs"
  delivered,    \* the SourceFiles
  stored,       \* what is on disk, by place
  fetched,      \* update was called with the files
  noted,        \* the record as a page reads it: <<>> or one
  upkeep        \* the update under way

keeping == <<store, delivered, stored, fetched, noted, upkeep>>

Tmp == 0
Names == [text : DOMAIN InLower, marks : Seq(Nat)]

RecordName == [text |-> "email.json", marks |-> <<>>]
BodyName == [text |-> "body.txt", marks |-> <<>>]

ASSUME NamesAreNames ==
  /\ {RecordName, BodyName, FormName} \subseteq Names
  /\ \A d \in Deliveries :
       /\ d \in Seq(Range(d))
       /\ \A f \in Range(d) : f.name \in Names /\ f.comes \in {"bytes", "link", "failed"}

\* What is in a file.
Attachment(i) == <<"attachment", i>>
Ours(what) == <<what, 0>>

\* RESERVED: the names of our own.
Reserved == {RecordName, BodyName}

Lower(name) == [name EXCEPT !.text = InLower[@]]

Numbered(name, k) == IF k = 1 THEN name ELSE [name EXCEPT !.marks = Append(@, k)]

\* _unique: the name, or the first number behind it that makes it new.
Unique(name, taken) ==
  Numbered(name, Min({k \in 1..Cardinality(taken) + 1 : Lower(Numbered(name, k)) \notin taken}))

\* An entry of the record: <<>> or the name the file is kept under, and a note that
\* says why it is not.
AsNoted(file) ==
  [saved_as |-> <<>>,
   note |-> CASE file.comes = "link" -> "a link"
              [] file.comes = "failed" -> "download failed"
              [] OTHER -> IF KeepFiles THEN "" ELSE "not kept"]

AtRest == [step |-> "rest", entries |-> <<>>, form |-> <<>>]

KeepingInit ==
  /\ store \in {"folder", "blobs"}
  /\ delivered \in Deliveries
  /\ stored = <<>>
  /\ fetched = FALSE
  /\ noted = <<>>
  /\ upkeep = [AtRest EXCEPT !.step = "body"]

\* Where the record, an attachment and the form are kept.
RecordPlace == <<"", RecordName>>
Place(name) == <<IF store = "blobs" THEN "attachments" ELSE "", name>>
FormPlace(name) == <<IF store = "blobs" THEN "form" ELSE "", name>>

\* Beside it, while it is written.
Aside(place) == <<place[1], [place[2] EXCEPT !.marks = Append(@, Tmp)]>>

Holding(place, what) ==
  [p \in DOMAIN stored \cup {place} |-> IF p = place THEN what ELSE stored[p]]

\* What was written aside comes to stand for the file.
Replacing(place, what) ==
  [p \in (DOMAIN stored \ {Aside(place)}) \cup {place} |-> IF p = place THEN what ELSE stored[p]]

Onto(step) == upkeep' = [upkeep EXCEPT !.step = step]

-----------------------------------------------------------------------------
\* EmailRecords.open: names and sizes, before anything is downloaded.

WriteBody ==
  /\ upkeep.step = "body"
  /\ stored' = IF store = "folder" THEN Holding(<<"", BodyName>>, Ours("body")) ELSE stored
  /\ upkeep' = [step |-> "write", entries |-> [i \in DOMAIN delivered |->
                  [saved_as |-> <<>>, note |-> "not downloaded"]], form |-> <<>>]
  /\ UNCHANGED <<store, fetched, delivered, noted>>

-----------------------------------------------------------------------------
\* EmailRecords.update with the files and the form, and later without.

BeginUpkeep ==
  /\ upkeep.step = "rest" /\ noted # <<>>
  /\ ~fetched
  /\ fetched' = TRUE
  /\ upkeep' = [step |-> "file", entries |-> <<>>, form |-> <<>>]
  /\ UNCHANGED <<store, delivered, stored, noted>>

NextKept == Len(upkeep.entries) + 1

\* Names taken by the files kept so far.
TakenSoFar ==
  {Lower(name) : name \in Reserved \cup UNION {Range(e.saved_as) : e \in Range(upkeep.entries)}}

\* A file that did not come, or is not to be kept: the note says so.
NoteFile ==
  /\ upkeep.step = "file" /\ NextKept <= Len(delivered)
  /\ AsNoted(delivered[NextKept]).note # ""
  /\ upkeep' = [upkeep EXCEPT !.entries = Append(@, AsNoted(delivered[NextKept]))]
  /\ UNCHANGED <<store, fetched, delivered, stored, noted>>

KeptAs == Unique(delivered[NextKept].name, TakenSoFar)

\* FolderBlobs.put writes beside the file and then over it; the folder store
\* writes the file in place.
EmptyFile ==
  /\ upkeep.step = "file" /\ NextKept <= Len(delivered)
  /\ AsNoted(delivered[NextKept]).note = ""
  /\ stored' = Holding(IF store = "blobs" THEN Aside(Place(KeptAs)) ELSE Place(KeptAs),
                       Ours("torn"))
  /\ Onto("fill")
  /\ UNCHANGED <<store, fetched, delivered, noted>>

FillFile ==
  /\ upkeep.step = "fill"
  /\ stored' = IF store = "blobs" THEN Replacing(Place(KeptAs), Attachment(NextKept))
               ELSE Holding(Place(KeptAs), Attachment(NextKept))
  /\ upkeep' = [upkeep EXCEPT !.step = "file",
                              !.entries = Append(@, [AsNoted(delivered[NextKept])
                                                       EXCEPT !.saved_as = <<KeptAs>>])]
  /\ UNCHANGED <<store, fetched, delivered, noted>>

\* Faulty: a form that only keeps clear of our own names.
TakenByUs == {Lower(name) : name \in Reserved}

\* _taken: "our own file must not overwrite one of the customer's".
Taken == TakenSoFar

\* _save_form, _replace_form; without a workbook there is none.
KeepForm ==
  /\ upkeep.step = "file" /\ NextKept > Len(delivered)
  /\ \/ upkeep' = [upkeep EXCEPT !.step = "write"] /\ UNCHANGED stored
     \/ LET place == FormPlace(Unique(FormName, Taken))
        IN /\ stored' = Holding(place, Ours("form"))
           /\ upkeep' = [upkeep EXCEPT !.step = "write", !.form = <<place>>]
  /\ UNCHANGED <<store, fetched, delivered, noted>>

\* Any later change of the record: its lines, letters, prices.
Rewrite ==
  /\ upkeep.step = "rest" /\ noted # <<>>
  /\ upkeep' = [noted[1] EXCEPT !.step = "write"]
  /\ UNCHANGED <<store, fetched, delivered, stored, noted>>

-----------------------------------------------------------------------------
\* _write: the record beside the one being read, then over it.

WriteAside ==
  /\ upkeep.step = "write" /\ store = "folder"
  /\ stored' = Holding(Aside(RecordPlace), Ours("torn"))
  /\ Onto("replace")
  /\ UNCHANGED <<store, fetched, delivered, noted>>

ReplaceRecord ==
  /\ upkeep.step = "replace"
  /\ stored' = Replacing(RecordPlace, Ours("record"))
  /\ noted' = <<[upkeep EXCEPT !.step = "rest"]>>
  /\ upkeep' = AtRest
  /\ UNCHANGED <<store, fetched, delivered>>

\* The database's transaction.
CommitRecord ==
  /\ upkeep.step = "write" /\ store = "blobs"
  /\ noted' = <<[upkeep EXCEPT !.step = "rest"]>>
  /\ upkeep' = AtRest
  /\ UNCHANGED <<store, fetched, delivered, stored>>

\* A write is refused, or the service dies: what is on disk stays as it is.
GiveUpUpkeep ==
  /\ upkeep.step \notin {"rest", "body"}
  /\ upkeep' = AtRest
  /\ UNCHANGED <<store, fetched, delivered, stored, noted>>

KeepingNext ==
  \/ WriteBody \/ BeginUpkeep \/ NoteFile \/ EmptyFile \/ FillFile \/ KeepForm \/ Rewrite
  \/ WriteAside \/ ReplaceRecord \/ CommitRecord \/ GiveUpUpkeep

KeepingSpec == KeepingInit /\ [][KeepingNext]_keeping

\* No record to keep: the values of a program that is doing something else.
NothingToKeep ==
  /\ store = "folder" /\ delivered = <<>> /\ stored = <<>> /\ fetched = TRUE
  /\ noted = <<>> /\ upkeep = AtRest

-----------------------------------------------------------------------------
\* Properties

\* EmailRecords.file: the bytes kept in a place, unless there are none.
BytesOf(place) == IF place \in DOMAIN stored THEN <<stored[place]>> ELSE <<>>

\* "An attachment as it arrived", at every moment a page may ask: the record on
\* disk is whole, each attachment is on it with a reason or with a name under
\* which its own bytes are found, and the form is the form.
FilesAsTheyCame ==
  \A record \in Range(noted) :
    /\ store = "folder" => BytesOf(RecordPlace) = <<Ours("record")>>
    /\ Len(record.entries) = Len(delivered)
    /\ \A i \in DOMAIN delivered :
         /\ record.entries[i].saved_as = <<>> => record.entries[i].note # ""
         /\ \A name \in Range(record.entries[i].saved_as) :
              BytesOf(Place(name)) = <<Attachment(i)>>
    /\ \A place \in Range(record.form) : BytesOf(place) = <<Ours("form")>>
=============================================================================
