-------------------------------- MODULE Form --------------------------------
(***************************************************************************)
(* The filled form (services/workbook.py): which cell of the template gets *)
(* what was read, and what a person is told about everything that is not   *)
(* in a cell, in the block under the form and in the note above the        *)
(* forwarded email (_note of services/handlers.py).                        *)
(*                                                                         *)
(* A file is what is left of it after reading: its role, whether product   *)
(* facts were copied out of it, how many lines it gave, and the warnings   *)
(* it carries.                                                             *)
(***************************************************************************)
EXTENDS Headers

CONSTANTS
  Filings,      \* what an RFQ's files can have come to: sequences of files
  Room,         \* LAST_ITEM_ROW - FIRST_ITEM_ROW + 1
  Remarks,      \* what RFQ_REMARKS may be set to
  MaxRemarks,   \* MAX_REMARKS
  MaxBlanks     \* MAX_BLANKS_LISTED

ASSUME RoomIsANumber == Room \in Nat \ {0}
ASSUME ListsAreCapped ==
  Remarks \subseteq BOOLEAN /\ MaxRemarks \in Nat \ {0} /\ MaxBlanks \in Nat

VARIABLES
  filed,        \* ReadDocument, one per attachment
  book          \* FilledWorkbook, or none

fvars == <<today, answer, header, form, step, filed, book>>

\* FILE_REASONS: the warnings a person can act on.
FileReasons == {"link", "no bytes", "no reader", "unreadable", "password", "too large",
                "total size", "too many", "read failed"}

HoldsItems(file) == file.role \in {"ITEM_GRID", "ITEM_TEXT"}

\* Faulty: a file the reader could not be asked about is not a file that failed.
UnreadByLoader(all) ==
  {i \in DOMAIN all : /\ ~HoldsItems(all[i]) /\ ~all[i].facts
                      /\ all[i].codes \cap (FileReasons \ {"read failed"}) # {}}

\* unread_files: what arrived and gave nothing, with the reason.
UnreadFiles(all) ==
  {i \in DOMAIN all : /\ ~HoldsItems(all[i]) /\ ~all[i].facts
                      /\ all[i].codes \cap (FileReasons \cup {"nothing to read"}) # {}}

\* RfqExtraction.missing_required: starred cells the reading leaves empty.
MissingRequired(normalized) == Required \ (DOMAIN normalized.text \cup DOMAIN normalized.dates)

\* _reason: REASONS has a sentence for a date that did not survive.
Reason(code) == IF code \in {"ambiguous", "not understood", "not a real day"} THEN code ELSE ""

\* why_blank: every starred cell left empty, and what the customer wrote and no
\* cell could take, with code's reason or else the model's.
WhyBlank(found, normalized) ==
  [f \in MissingRequired(normalized) \cup DOMAIN normalized.dropped |->
     LET said == IF f \in DOMAIN normalized.dropped THEN Reason(normalized.dropped[f]) ELSE ""
     IN IF said # "" THEN said
        ELSE IF f \in found.not_found THEN "the model's account" ELSE ""]

\* _reference: the customer's own, or one made up and marked as made up.
MadeUp(normalized) == "rfq_reference" \notin DOMAIN normalized.text

\* The lines of every file, in the order the files came.
ItemsOf(all) == FoldLeft(LAMBDA n, f : n + f.items, 0, all)

\* _listed: so many of the entries of a section and a count of the rest.  Which of
\* them come first is not told apart.
AtMost(entries, most) ==
  IF Cardinality(entries) <= most THEN entries
  ELSE CHOOSE some \in SUBSET entries : Cardinality(some) = most

NothingSaid == [blank |-> {}, check |-> {}, unread |-> {}, notes |-> {}]

\* A note if its condition holds.
Saying(condition, note) == IF condition THEN {note} ELSE {}

\* _remarks, written unless RFQ_REMARKS is off.
UnderTheForm(normalized, blank, unread, count) ==
  [blank  |-> AtMost(blank, MaxRemarks),
   check  |-> AtMost(normalized.checked, MaxRemarks),
   unread |-> AtMost(unread, MaxRemarks),
   notes  |-> Saying(MadeUp(normalized), "made up reference")
                \cup Saying(count = 0, "nothing read")]

\* handlers._note: every file that gave nothing, not what is worth checking.
InTheEmail(blank, unread, count) ==
  [NothingSaid EXCEPT !.blank = AtMost(blank, MaxBlanks),
                      !.unread = unread,
                      !.notes = Saying(count = 0, "nothing read")]

\* WorkbookBuilder.build and _contents: the header cells that hold a value - the
\* reference always does - the rows that fit, and what is said of the rest.
Built(found, normalized, all, remarks) ==
  LET count == ItemsOf(all)
      blank == WhyBlank(found, normalized)
      unread == UnreadFiles(all)
  IN [cells    |-> DOMAIN normalized.text \cup DOMAIN normalized.dates \cup {"rfq_reference"},
      rows     |-> Min({count, Room}),
      missing  |-> MissingRequired(normalized),
      blank    |-> blank,
      check    |-> normalized.checked,
      unread   |-> unread,
      remarks  |-> remarks,
      form     |-> IF remarks THEN UnderTheForm(normalized, DOMAIN blank, unread, count)
                   ELSE NothingSaid,
      email    |-> InTheEmail(DOMAIN blank, unread, count),
      warnings |-> Saying(MadeUp(normalized), "reference generated")
                     \cup Saying(count > Room, "items truncated")]

NoBook == [cells |-> {}, rows |-> 0, missing |-> {}, blank |-> <<>>, check |-> {},
           unread |-> {}, remarks |-> FALSE, form |-> NothingSaid, email |-> NothingSaid,
           warnings |-> {}]

\* Some files read, the header still to be asked for.
FormInit == HeaderInit /\ filed \in Filings /\ book = NoBook

\* handlers._fill: the reading written into a copy of the template.
FillForm ==
  /\ step = "done"
  /\ \E remarks \in Remarks : book' = Built(header, form, filed, remarks)
  /\ step' = "filled"
  /\ UNCHANGED <<today, answer, header, form, filed>>

FormNext == (HeaderNext /\ UNCHANGED <<filed, book>>) \/ FillForm

FormSpec == FormInit /\ [][FormNext]_fvars

\* No form to fill: the values of a program that is doing something else.
NoFormToFill == NoHeaderToRead /\ filed = <<>> /\ book = NoBook

-----------------------------------------------------------------------------
\* Properties

\* The lists of blanks are short enough for one of the two places to hold them all.
BlanksFit ==
  LET many == Cardinality(DOMAIN book.blank)
  IN many <= MaxBlanks \/ (book.remarks /\ many <= MaxRemarks)

\* "A silently dropped requisition is the worst thing this agent can do".  What the
\* customer wrote is in a cell, or named as blank with a sentence when code would not
\* take it, and a starred cell the reading left empty is named, on the form or in the
\* email, unless there are more than either lists.  A file a warning says was not
\* opened, not read or not asked about is named in the email unless facts were copied
\* out of it, and on a form that has remarks, up to its limit.  So is, on such a form,
\* a value worth checking.
NothingLeftUnsaid ==
  step = "filled" =>
    LET told == book.form.blank \cup book.email.blank
    IN /\ BlanksFit =>
            /\ \A f \in DOMAIN header.fields :
                 f \in book.cells \/ (f \in told /\ book.blank[f] # "")
            /\ Required \ told \subseteq book.cells
       /\ \A f \in DOMAIN header.fields :
            (f = "imo" /\ ~ChecksOut(header.fields[f].value.digits) /\ book.remarks) =>
              f \in book.form.check
       /\ \A i \in DOMAIN filed :
            filed[i].codes \cap FileReasons # {} /\ ~HoldsItems(filed[i]) /\ ~filed[i].facts =>
              /\ i \in book.email.unread
              /\ book.remarks /\ Cardinality(book.unread) <= MaxRemarks => i \in book.form.unread
       /\ ItemsOf(filed) = 0 =>
            /\ "nothing read" \in book.email.notes
            /\ book.remarks => "nothing read" \in book.form.notes

\* The same promise of what was read: every file that gave nothing, and every
\* line that did not fit, is named on the form.
EveryLossIsTold ==
  step = "filled" =>
    /\ \A i \in DOMAIN filed :
         filed[i].items = 0 /\ ~filed[i].facts /\ filed[i].codes # {} => i \in book.unread
    /\ ItemsOf(filed) <= book.rows

\* config.py of RFQ_REMARKS: "Off leaves the form itself silent; the forwarded email
\* and the journal say it either way".
SaidEitherWay ==
  step = "filled" =>
    DOMAIN book.blank \subseteq book.email.blank /\ book.check \subseteq book.email.check

\* "Starred cells that went out empty": what the form calls blank is blank.
BlankMeansBlank == step = "filled" => book.missing \cap book.cells = {}
=============================================================================
