----------------------------- MODULE Documents -----------------------------
(***************************************************************************)
(* DocumentLoader.load: the attachments of one email turned into           *)
(* documents, within the email's budget (infrastructure/documents/).       *)
(*                                                                         *)
(* `todo` is the recursion of _read unrolled: the files still to be read,  *)
(* the contents of an archive or an attached email in front of what came   *)
(* after it.  What a file turns out to hold is chosen when it is opened.   *)
(* Lengths are in units of the ceilings.  `lost` and `expected` are not in *)
(* the code: what a file held and its document does not, and how many of   *)
(* the attachments are to be listed.                                       *)
(***************************************************************************)
EXTENDS Integers, Sequences, SequencesExt, FiniteSets, FiniteSetsExt, Functions

CONSTANTS
  MaxAttachments, MaxTotal, MaxSingle,   \* the ceilings of Budget
  MaxDepth, MaxEntries, MaxUnpacked,
  MaxRows, MaxPages, MaxRasterized, MaxImages,
  Noise,      \* inline_noise_bytes
  Sizes,      \* the sizes a file may have
  MaxFiles    \* bound: attachments of the email

ASSUME CeilingsAreNumbers ==
  {MaxAttachments, MaxTotal, MaxSingle, MaxDepth, MaxEntries, MaxUnpacked,
   MaxRows, MaxPages, MaxRasterized, MaxImages, Noise, MaxFiles} \subseteq Nat
ASSUME SizesAreNumbers == Sizes \subseteq Nat \ {0}

VARIABLES
  todo,       \* files still to be read, next first
  seen,       \* BudgetTracker.attachments_seen
  bytes,      \* BudgetTracker.bytes_seen
  documents,  \* the documents so far
  loading,    \* "loading", "loaded", or "raised" when a reader let one through
  expected

loader == <<todo, seen, bytes, documents, loading, expected>>

\* What is known of a file before it is opened.
Source ==
  [size: Sizes, is: {"file", "inline", "inline image", "link", "empty"}, depth: 0..MaxDepth]

NothingRead == [depth |-> 0, container |-> FALSE, tables |-> FALSE, text |-> FALSE,
                images |-> 0, codes |-> {}, lost |-> {}]

\* A code, or a loss, if its condition holds.
If(condition, code) == IF condition THEN {code} ELSE {}

Inline == {"inline", "inline image"}

\* _is_signature_image: small and inline, whatever it is.
IsSignatureImage(f) == f.is \in Inline /\ f.size <= Noise

LoaderInit ==
  /\ todo \in UNION {[1..n -> {f \in Source : f.depth = 0}] : n \in 0..MaxFiles}
  /\ seen = 0
  /\ bytes = 0
  /\ documents = <<>>
  /\ loading = "loading"
  /\ expected = Cardinality({i \in DOMAIN todo : ~IsSignatureImage(todo[i])})

-----------------------------------------------------------------------------
\* BudgetTracker.

\* Faulty: a total that counts what was read before and not what comes now.
MayOpenUnsummed(size) ==
  IF seen >= MaxAttachments THEN "too many attachments"
  ELSE IF size > MaxSingle THEN "file too large"
  ELSE IF bytes > MaxTotal THEN "total size exceeded"
  ELSE "open"

\* may_open: the code that blocks the next file, or "open".
MayOpen(size) ==
  IF seen >= MaxAttachments THEN "too many attachments"
  ELSE IF size > MaxSingle THEN "file too large"
  ELSE IF bytes + size > MaxTotal THEN "total size exceeded"
  ELSE "open"

\* A file over the number is not counted; any other one is, opened or not.
Count(verdict, size) ==
  /\ seen' = IF verdict = "too many attachments" THEN seen ELSE seen + 1
  /\ bytes' = IF verdict = "open" THEN bytes + size ELSE bytes

-----------------------------------------------------------------------------
\* DocumentLoader.load and _read

HasNext == loading = "loading" /\ todo # <<>>

NextFile == Head(todo)

\* One document for the file in turn, and its contents to be read after it.
List(d, children) ==
  /\ documents' = Append(documents, [d EXCEPT !.depth = NextFile.depth])
  /\ todo' = children \o Tail(todo)
  /\ UNCHANGED <<loading, expected>>

SkipSignature ==
  /\ HasNext
  /\ NextFile.depth = 0 /\ IsSignatureImage(NextFile)
  /\ todo' = Tail(todo)
  /\ UNCHANGED <<seen, bytes, documents, loading, expected>>

Arrives == HasNext /\ ~(NextFile.depth = 0 /\ IsSignatureImage(NextFile))

\* A OneDrive link, and an attachment whose bytes did not come.
ListUnfetched ==
  /\ Arrives
  /\ NextFile.is \in {"link", "empty"}
  /\ List([NothingRead EXCEPT !.codes = {IF NextFile.is = "link" THEN "attachment is a link"
                                   ELSE "attachment has no bytes"},
                        !.lost = {"file"}], <<>>)
  /\ UNCHANGED <<seen, bytes>>

Fetched == Arrives /\ NextFile.is \notin {"link", "empty"}

Refuse ==
  LET verdict == MayOpen(NextFile.size)
  IN /\ Fetched
     /\ verdict # "open"
     /\ Count(verdict, NextFile.size)
     /\ List([NothingRead EXCEPT !.codes = {verdict}, !.lost = {"file"}], <<>>)

\* The file is opened; what it turns out to be follows.
Open == /\ Fetched
        /\ MayOpen(NextFile.size) = "open"
        /\ Count("open", NextFile.size)

\* Every reader catches what its library raises on opening; a kind that was
\* recognised may also have no reader.
CannotRead ==
  /\ Open
  /\ \E code \in {"unreadable", "password protected", "no reader for kind"} :
       List([NothingRead EXCEPT !.codes = {code}, !.lost = {"file"}], <<>>)

\* No reader catches what is raised later, by a sheet, a slide or a page that
\* cannot be read or drawn; load is over and what was read is gone.
RaiseWhileReading ==
  /\ Open
  /\ loading' = "raised"
  /\ documents' = <<>>
  /\ todo' = <<>>
  /\ UNCHANGED expected

\* What each kind of reader leaves out and has no code for: what is past the column
\* ceiling, a formula Excel kept no value of, a picture in a file that is read for its
\* words, text in a box or a header, the text of a page or the tables of a PDF its
\* library cannot read, the frames after the first, what _ignored passes over, a part
\* of an email without a name or without bytes and any body after the first.
Silent ==
  [sheet |-> {"columns", "formula values", "drawings"},
   office |-> {"columns", "drawings", "boxes"},
   html |-> {"columns", "drawings"},
   pdf |-> {"unread pages", "unread tables", "tables behind", "drawings"},
   image |-> {"frames"},
   archive |-> {"passed over"},
   email |-> {"passed over", "other bodies"}]

Leaving(d, left) == [d EXCEPT !.lost = @ \cup left]

\* Faulty: a row ceiling that cuts and says nothing.
TableDocumentQuietly(rows, blank) ==
  [NothingRead EXCEPT !.tables = (rows > 0 /\ ~blank), !.lost = If(rows > MaxRows, "rows")]

\* read_xlsx, read_xls and read_csv: _grid_from_rows stops at the row ceiling and
\* says so; rows of cells that all read as empty are no table.
TableDocument(rows, blank) ==
  [NothingRead EXCEPT !.tables = (rows > 0 /\ ~blank),
                !.codes = If(rows > MaxRows, "rows truncated"),
                !.lost = If(rows > MaxRows, "rows")]

ReadSheet ==
  /\ Open
  /\ \E rows \in 0..MaxRows + 1, blank \in BOOLEAN, left \in SUBSET Silent.sheet :
       /\ blank \/ left # {} => rows > 0
       /\ List(Leaving(TableDocument(rows, blank), left), <<>>)

\* What truncate leaves of a long text, and what _apply_caps says of it.
Capped(d, long) ==
  [d EXCEPT !.codes = @ \cup If(long, "text truncated"),
            !.lost = @ \cup If(long, "text")]

\* office._rows and markup._rows stop at either ceiling, without a word.
CutRows(rows, text) ==
  [NothingRead EXCEPT !.tables = (rows > 0), !.text = text,
                      !.lost = If(rows > MaxRows, "office rows")]

\* read_docx and read_pptx: text and tables apart.
ReadOffice ==
  /\ Open
  /\ \E rows \in 0..MaxRows + 1, text, long \in BOOLEAN, left \in SUBSET Silent.office :
       /\ long => text
       /\ List(Leaving(Capped(CutRows(rows, text), long), left), <<>>)

\* read_html: what a table says is in the text as well.
ReadHtml ==
  /\ Open
  /\ \E rows \in 0..MaxRows + 1, text, long \in BOOLEAN, left \in SUBSET Silent.html :
       /\ rows > 0 \/ long => text
       /\ List(Leaving(Capped(CutRows(rows, text), long), left), <<>>)

\* read_text, capped like any other.
ReadText ==
  /\ Open
  /\ \E text, long \in BOOLEAN :
       /\ long => text
       /\ List(Capped([NothingRead EXCEPT !.text = text], long), <<>>)

\* read_pdf with a text layer: pages up to a ceiling, tables on the front only.
PageDocument(pages, tables) ==
  [NothingRead EXCEPT !.tables = tables, !.text = (pages > 0),
                      !.codes = If(pages > MaxPages, "pages truncated"),
                      !.lost = If(pages > MaxPages, "pages")]

ReadPdf ==
  /\ Open
  /\ \E pages \in 0..MaxPages + 1, tables, long \in BOOLEAN, left \in SUBSET Silent.pdf :
       /\ left # {} => pages > 0
       /\ List(Leaving(Capped(PageDocument(pages, tables), long), left), <<>>)

\* read_pdf of pictures: _rasterize draws pages up to a lower ceiling.
ScanDocument(pages) ==
  LET cut == pages > MaxRasterized \/ pages > MaxPages
  IN [NothingRead EXCEPT !.images = Min({pages, MaxRasterized}),
                         !.codes = {"scanned pdf"} \cup If(cut, "pages truncated"),
                         !.lost = If(pages > MaxRasterized, "pages")]

\* pypdf counts the pages and pypdfium2 draws them: the second may refuse the file.
Undrawn(d) == [d EXCEPT !.images = 0, !.codes = @ \cup {"unreadable"}, !.lost = @ \cup {"file"}]

ReadScan ==
  /\ Open
  /\ \E pages \in 1..MaxRasterized + 1 :
       \/ List(ScanDocument(pages), <<>>)
       \/ List(Undrawn(ScanDocument(pages)), <<>>)

ReadImage ==
  /\ Open
  /\ \E left \in SUBSET Silent.image :
       List(Leaving([NothingRead EXCEPT !.images = 1], left), <<>>)

-----------------------------------------------------------------------------
\* Archives and attached emails

Contents == UNION {[1..n -> Sizes] : n \in 0..MaxEntries + 1}

Total(sizes) == FoldLeft(+, 0, sizes)

\* The contents as files of their own, one level down.
Children(entries) ==
  [i \in DOMAIN entries |-> [size |-> entries[i], is |-> "file", depth |-> NextFile.depth + 1]]

TooDeep == NextFile.depth >= MaxDepth

\* archive.unpack: whole entries up to the number and to the size unpacked, or
\* up to the one that could not be read.
Fits(entries, n) == n <= MaxEntries /\ Total(SubSeq(entries, 1, n)) <= MaxUnpacked

CutAt(entries, kept) ==
  /\ \A n \in 0..kept : Fits(entries, n)
  /\ kept < Len(entries) => ~Fits(entries, kept + 1)

Unpacked(entries, kept, broken) ==
  LET cut == kept < Len(entries)
  IN [NothingRead EXCEPT
        !.container = TRUE,
        !.codes = IF cut THEN {IF kept = MaxEntries THEN "archive entries truncated"
                               ELSE "archive too big"}
                  ELSE If(broken, "unreadable"),
        !.lost = If(cut \/ broken, "entries")]

\* At the last level an archive is listed and left shut.
OpenArchive ==
  /\ Open
  /\ \/ /\ TooDeep
        /\ List([NothingRead EXCEPT !.container = TRUE, !.codes = {"nested too deep"},
                                    !.lost = {"entries"}], <<>>)
     \/ /\ ~TooDeep
        /\ \E entries \in Contents, broken \in BOOLEAN, left \in SUBSET Silent.archive :
             \E kept \in 0..Len(entries) :
               /\ CutAt(entries, kept)
               /\ List(Leaving(Unpacked(entries, kept, broken), left),
                       Children(SubSeq(entries, 1, kept)))

\* unpack_eml and unpack_msg: the body is this document's text, and the files
\* hanging off the message are read like an archive's.
OpenEmail ==
  /\ Open
  /\ \E body, long \in BOOLEAN, entries \in Contents, left \in SUBSET Silent.email :
       LET shut == TooDeep /\ entries # <<>>
           mail == [NothingRead EXCEPT !.container = TRUE, !.text = body,
                                 !.codes = If(shut, "nested too deep"),
                                 !.lost = If(shut, "entries")]
       IN /\ long => body
          /\ Len(entries) <= MaxEntries   \* bound: the code has none
          /\ List(Leaving(Capped(mail, long), left), IF shut THEN <<>> ELSE Children(entries))

-----------------------------------------------------------------------------
\* _fit_images and _allocate

\* Faulty: slots given out in file order, as long as there are any.
AllocateInOrder(wanted, total) ==
  LET before(i) == Total(SubSeq(wanted, 1, i - 1))
  IN [i \in DOMAIN wanted |-> Min({wanted[i], Max({0, total - before(i)})})]

Claimants(wanted) == {i \in DOMAIN wanted : wanted[i] > 0}

\* An equal share each, then what is spare to whoever wants more, in order; with
\* less than one each, one to the first.
Allocate(wanted, total) ==
  LET share == total \div Cardinality(Claimants(wanted))
      before(i) == {j \in Claimants(wanted) : j < i}
      given == [i \in DOMAIN wanted |-> Min({wanted[i], share})]
      spare == total - Total(given)
      \* What the claimants before this one left of the spare slots.
      left(i) == Max({0, spare - Total([j \in 1..i - 1 |-> wanted[j] - given[j]])})
  IN IF share = 0
     THEN [i \in DOMAIN wanted |-> IF Cardinality(before(i)) < total THEN 1 ELSE 0]
     ELSE [i \in DOMAIN wanted |-> given[i] + Min({left(i), wanted[i] - given[i]})]

Wanted(ds) == [i \in DOMAIN ds |-> ds[i].images]

Pictures(ds) == Total(Wanted(ds))

\* What a document keeps of its pictures.
Fitted(i) ==
  LET allowed == Allocate(Wanted(documents), MaxImages)[i]
  IN IF documents[i].images = 0 \/ documents[i].images <= allowed THEN documents[i]
     ELSE [documents[i] EXCEPT !.images = allowed,
                               !.codes = @ \cup {"images truncated"},
                               !.lost = @ \cup {"images"}]

FitImages ==
  /\ loading = "loading" /\ todo = <<>>
  /\ loading' = "loaded"
  /\ documents' = IF Pictures(documents) <= MaxImages THEN documents
                  ELSE [i \in DOMAIN documents |-> Fitted(i)]
  /\ UNCHANGED <<todo, seen, bytes, expected>>

\* No attachments to load: the values of a program that is doing something else.
NothingToLoad ==
  /\ todo = <<>> /\ documents = <<>> /\ seen = 0 /\ bytes = 0
  /\ expected = 0 /\ loading = "loaded"

Load ==
  \/ SkipSignature \/ ListUnfetched \/ Refuse \/ CannotRead \/ RaiseWhileReading
  \/ ReadSheet \/ ReadOffice \/ ReadHtml \/ ReadText \/ ReadPdf \/ ReadScan \/ ReadImage
  \/ OpenArchive \/ OpenEmail \/ FitImages

LoaderSpec == LoaderInit /\ [][Load]_loader

-----------------------------------------------------------------------------
\* Properties

\* Budget: "Per-email rather than per-file".  However files are nested, refused
\* and unpacked, no more is opened than the ceilings, and nothing deeper than the
\* last level.
WithinBudget ==
  /\ seen <= MaxAttachments
  /\ bytes <= MaxTotal
  /\ \A i \in DOMAIN todo : todo[i].depth <= MaxDepth

\* The codes that own up to a loss.
Says(loss) ==
  CASE loss = "file" -> {"attachment is a link", "attachment has no bytes",
                         "too many attachments", "file too large", "total size exceeded",
                         "unreadable", "password protected", "no reader for kind"}
    [] loss = "rows" -> {"rows truncated"}
    [] loss = "pages" -> {"pages truncated"}
    [] loss = "text" -> {"text truncated"}
    [] loss = "images" -> {"images truncated"}
    [] loss = "entries" -> {"nested too deep", "archive too big", "unreadable",
                            "archive entries truncated"}
    [] loss = "formula values" -> {"formula values missing"}
    [] OTHER -> {}

\* What the code leaves out without a word: see the README.
Unsaid == {"office rows"} \cup UNION {Silent[kind] : kind \in DOMAIN Silent}

\* "A dropped file still appears, carrying the code that dropped it", and so does
\* what was cut off a file at a ceiling that has a code, and an archive that broke.
NothingDropsInSilence ==
  loading = "loaded" =>
    /\ Cardinality({i \in DOMAIN documents : documents[i].depth = 0}) = expected
    /\ \A d \in Range(documents) : \A loss \in d.lost \ Unsaid : d.codes \cap Says(loss) # {}

\* _allocate: no more pictures than the ceiling go to a model, no slot is left empty
\* while a picture is cut, and no file goes without while another has two.
PicturesAreShared ==
  LET short == {d \in Range(documents) : "images" \in d.lost}
  IN loading = "loaded" =>
       /\ Pictures(documents) <= MaxImages
       /\ short # {} => Pictures(documents) = MaxImages
       /\ (\E d \in short : d.images = 0) => \A d \in Range(documents) : d.images <= 1

-----------------------------------------------------------------------------
\* What comments of the code say and the code does not keep.

\* budget.py: "a breach is never silent. It raises a warning code".
NeverSilent ==
  loading = "loaded" =>
    \A d \in Range(documents) : \A loss \in d.lost : d.codes \cap Says(loss) # {}

\* spreadsheet.py: "those cells read as empty - which is why the loader flags a sheet
\* that is all formulas and no values instead of reporting an empty RFQ".
FormulasAreFlagged ==
  loading = "loaded" =>
    \A d \in Range(documents) :
      "formula values" \in d.lost /\ ~d.tables => d.codes \cap Says("formula values") # {}

\* loader.py: "A small inline image is a logo under someone's name, not an RFQ."
OnlyImagesAreSkipped ==
  [][SkipSignature => NextFile.is = "inline image"]_loader

\* models.py: "A reader that fails does not raise ... One unreadable drawing must
\* not cost us the RFQ attached beside it."
OneBadFileCostsItself == loading # "raised"
=============================================================================
