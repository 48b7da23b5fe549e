------------------------------ MODULE Reading ------------------------------
(***************************************************************************)
(* The files of one RFQ read into one numbered list of items: FileReader   *)
(* and ExtractionPipeline (services/extraction/).                          *)
(*                                                                         *)
(* Files share nothing while they are read, so they are read here one      *)
(* after the other.  What a model answers is chosen freely: which columns, *)
(* which heading row, which of a page's items, or nothing at all.          *)
(* `honest` is not in the code: whether every answer so far said what was  *)
(* in front of the model.                                                  *)
(***************************************************************************)
EXTENDS Tables

CONSTANTS
  MailBody,       \* EMAIL_BODY as a document
  MaxChunk,       \* MAX_CHUNK_CHARS
  ImagesPerCall,  \* MAX_IMAGES_PER_CALL
  BeforeHash,     \* the names with a "#" in them: what is before the first one
  Mailings,       \* the attachments an email may come with
  Namings         \* the ways a model may name columns: sets of <<column, field>>

VARIABLES
  files,       \* the documents, in the order they are read
  read,        \* the ReadDocuments so far
  asked,       \* how often the file in turn was shown to the model
  draft,       \* what was transcribed from its parts, while it is
  extraction,  \* <<>>, or the RfqExtraction
  honest

reading == <<files, read, asked, draft, extraction, honest>>

\* A document is [name, container, codes, grids, pieces, pictures], `codes` what
\* reading it off the email left to say.  A grid is [rows, sheet, names, heads,
\* lines]: whether its origin goes on after the file's name ("list.xlsx#Deck", where
\* a CSV's does not), what its columns really are, under which rows, and which rows
\* are lines to be quoted.  A piece of text is [size, items], a picture the items
\* on it, an item [code, description, quantity, uom].
HasContent(document) ==
  document.grids # <<>> \/ document.pieces # <<>> \/ document.pictures # <<>>

IsDocument(document) ==
  /\ IsList(document.grids) /\ \A g \in Range(document.grids) : IsGrid(g.rows)
  /\ IsList(document.pieces)
  /\ \A p \in Range(document.pieces) : p.size \in Nat /\ IsList(p.items)
  /\ IsList(document.pictures) /\ \A p \in Range(document.pictures) : IsList(p)

ASSUME MailingsAreDocuments ==
  /\ IsDocument(MailBody)
  /\ \A mailing \in Mailings : IsList(mailing) /\ \A d \in Range(mailing) : IsDocument(d)

ASSUME CallsTakePictures == ImagesPerCall \in Nat \ {0}

NoDraft == [parts |-> 0, items |-> <<>>, seen |-> {}, warnings |-> {}]

ReadingInit ==
  /\ files \in Mailings
  /\ read = <<>>
  /\ asked = 0
  /\ draft = NoDraft
  /\ extraction = <<>>
  /\ honest = TRUE

Plain(item) == <<item.code, item.description, item.quantity>>   \* _identity

-----------------------------------------------------------------------------
\* What the model is shown

Tabular(rows) == Cardinality(Columns(rows)) >= 2 /\ Len(rows) >= 2

\* _blocks: the tables code recognised, or else every rectangle from its top row.
Blocks(document) ==
  LET found == FlattenSeq([g \in DOMAIN document.grids |-> FindBlocks(document.grids[g].rows)])
      guessed(rows) == IF Tabular(rows) THEN BlockAt(rows, 1) ELSE <<>>
  IN IF found # <<>> THEN found
     ELSE FlattenSeq([g \in DOMAIN document.grids |-> guessed(document.grids[g].rows)])

GridOf(document, block) ==
  CHOOSE grid \in Range(document.grids) : grid.rows = block.grid

\* _text_parts: pages put together until the next one would not fit.
TextParts(pieces) ==
  LET add(parts, piece) ==
        IF parts # <<>> /\ Last(parts).size + piece.size <= MaxChunk
        THEN Append(Front(parts), [size |-> Last(parts).size + piece.size,
                                   items |-> Last(parts).items \o piece.items])
        ELSE Append(parts, piece)
  IN FoldLeft(add, <<>>, pieces)

\* _image_parts: so many pictures to a call.
ImageParts(pictures) ==
  [k \in 1..(Len(pictures) + ImagesPerCall - 1) \div ImagesPerCall |->
     [size |-> 0,
      items |-> FlattenSeq(SubSeq(pictures, (k - 1) * ImagesPerCall + 1,
                                  Min({k * ImagesPerCall, Len(pictures)})))]]

\* split: the parts of a file without a table, the items on each.
Parts(document) == TextParts(document.pieces) \o ImageParts(document.pictures)

-----------------------------------------------------------------------------
\* Columns named by a model, and the rows code copies under them

\* Where a mapping says a table starts, if there is one there.
Started(block, mapping) ==
  LET named == BlockAt(block.grid, mapping.header)
  IN IF named = <<>> THEN block ELSE named[1]

\* _mapping_for: the one for this table, or the only one there is.
MappingFor(mappings, number) ==
  LET same == SelectSeq(mappings, LAMBDA m : m.table = number)
  IN IF Len(mappings) = 1 /\ number = 1 THEN mappings
     ELSE IF same = <<>> THEN <<>> ELSE <<same[1]>>

\* verify: no column or field twice, no column outside the table or empty in it;
\* quantities nine tenths numeric, descriptions in half of the rows.
Holds(block, columns) ==
  /\ \A p, q \in columns : p # q => p[1] # q[1] /\ p[2] # q[2]
  /\ \A pair \in columns : pair[1] \in block.columns /\ Values(block, pair[1]) # {}
  /\ \A pair \in columns :
       /\ pair[2] = "quantity" =>
            10 * Cardinality(Numeric(block, pair[1])) >= 9 * Cardinality(Values(block, pair[1]))
       /\ pair[2] = "description" =>
            2 * Cardinality(Values(block, pair[1])) >= Cardinality(DataRows(block))

\* _first_problem: some table was named, and what was named holds.
NoProblem(blocks, mappings) ==
  /\ mappings # <<>>
  /\ \A k \in DOMAIN blocks : \A m \in Range(MappingFor(mappings, k)) :
       Holds(Started(blocks[k], m), m.columns)

\* A row's item under these columns.
ItemAt(rows, row, columns) ==
  LET at(field) == {pair \in columns : pair[2] = field}
      value(field) == IF at(field) = {} THEN ""
                      ELSE rows[row][(CHOOSE pair \in at(field) : TRUE)[1]].says
  IN [code |-> value("code"), description |-> value("description"),
      quantity |-> value("quantity"), uom |-> value("uom")]

\* Faulty: a line nobody counted is taken for a heading.
IsItemIfCounted(item, quantified) ==
  /\ item.description # "" \/ item.code # ""
  /\ quantified => item.quantity # ""

\* Neither a spacer nor a heading: "a description and nothing else".
IsItem(item, quantified) ==
  /\ item.description # "" \/ item.code # ""
  /\ quantified => item.quantity # "" \/ item.code # "" \/ item.uom # ""

\* _copy_rows: the items under a heading, in order, each with the cell it is from.
CopyRows(block, columns, name, sheet) ==
  LET quantified == \E pair \in columns : pair[2] = "quantity"
      rows == InOrder({r \in DataRows(block) :
                         IsItem(ItemAt(block.grid, r, columns), quantified)})
  IN [i \in DOMAIN rows |->
        [item |-> ItemAt(block.grid, rows[i], columns),
         file |-> name, sheet |-> sheet, row |-> rows[i]]]

\* _unmapped: columns that hold something and went nowhere.
Unmapped(block, columns) ==
  {c \in block.columns : Values(block, c) # {} /\ ~ \E pair \in columns : pair[1] = c}

-----------------------------------------------------------------------------
\* One file

Turn == Len(read) + 1
Reads == extraction = <<>> /\ Turn <= Len(files)
File == files[Turn]

ReadAs(role, rows, warnings) ==
  /\ read' = Append(read, [role |-> role, rows |-> rows, warnings |-> warnings])
  /\ asked' = 0
  /\ draft' = NoDraft
  /\ UNCHANGED <<files, extraction>>

\* A link, a file that could not be opened, or the wrapper of others.
PassOverEmpty ==
  /\ Reads /\ ~HasContent(File)
  /\ ReadAs("EMPTY", <<>>, IF File.container THEN {} ELSE {"nothing to read"})
  /\ UNCHANGED honest

Shown == Reads /\ HasContent(File) /\ draft.parts = 0

\* The model could not be asked, the first time or the second.
FailToAsk ==
  /\ Shown
  /\ ReadAs("UNREAD", <<>>, {"file could not be read"})
  /\ UNCHANGED honest

HasLines(block, grid) == grid.lines \cap DataRows(block) # {}

\* Whether an item is in what the model is shown of the file.
ShowsItems(document) ==
  IF Blocks(document) # <<>>
  THEN \E b \in Range(Blocks(document)) : HasLines(b, GridOf(document, b))
  ELSE Parts(document) # <<>> /\ Parts(document)[1].items # <<>>

\* "No item list here."
CallSupporting ==
  /\ Shown
  /\ ReadAs("SUPPORTING", <<>>, {})
  /\ honest' = (honest /\ ~ShowsItems(File))

Mappings(blocks) ==
  LET one == [table : DOMAIN blocks, columns : Namings,
              header : UNION {DOMAIN b.grid : b \in Range(blocks)}]
  IN {<<>>} \cup [1..1 -> one] \cup (IF Len(blocks) > 1 THEN [1..2 -> one] ELSE {})

\* The heading row and the columns of every table with items in it, as they are.
NamesThem(document, mappings) ==
  LET blocks == Blocks(document)
  IN \A k \in DOMAIN blocks :
       LET grid == GridOf(document, blocks[k])
           mine == MappingFor(mappings, k)
       IN IF HasLines(blocks[k], grid)
          THEN /\ mine # <<>>
               /\ mine[1].columns = grid.names
               /\ mine[1].header = Max({h \in grid.heads : h <= blocks[k].header})
          ELSE mine = <<>>

\* _from_tables: the rows of every table that was named.
FromTables(document, mappings) ==
  LET blocks == Blocks(document)
      from(k) == LET mine == MappingFor(mappings, k)
                     block == Started(blocks[k], mine[1])
                     grid == GridOf(document, block)
                 IN IF mine = <<>> THEN [rows |-> <<>>, unmapped |-> {}]
                    ELSE [rows |-> CopyRows(block, mine[1].columns, document.name, grid.sheet),
                          unmapped |-> Unmapped(block, mine[1].columns)]
      rows == FlattenSeq([k \in DOMAIN blocks |-> from(k).rows])
  IN [rows |-> rows,
      warnings |-> (IF Len(blocks) > 1 THEN {"several tables"} ELSE {})
              \cup (IF \E k \in DOMAIN blocks : from(k).unmapped # {}
                    THEN {"unmapped columns"} ELSE {})
              \cup (IF rows = <<>> THEN {"no item rows"} ELSE {})]

\* The columns are named: rows are copied if they hold, asked about once more if
\* they do not, and left alone if they do not again.
NameColumns ==
  LET blocks == Blocks(File)
  IN /\ Shown /\ blocks # <<>>
     /\ \E mappings \in Mappings(blocks) :
          LET copied == FromTables(File, mappings)
          IN \/ /\ NoProblem(blocks, mappings)
                /\ ReadAs("ITEM_GRID", copied.rows, copied.warnings)
                /\ honest' = (honest /\ NamesThem(File, mappings))
             \/ /\ ~NoProblem(blocks, mappings)
                /\ asked = 0
                /\ asked' = 1
                /\ UNCHANGED <<files, read, draft, extraction, honest>>
             \/ /\ ~NoProblem(blocks, mappings)
                /\ asked = 1
                /\ ReadAs("ITEM_GRID", <<>>, {"mapping unverified"})
                /\ UNCHANGED honest

-----------------------------------------------------------------------------
\* A file without a table

Transcribed(items) == [i \in DOMAIN items |->
                         [item |-> items[i], file |-> File.name, sheet |-> FALSE, row |-> 0]]

\* What may be said to be on a part: its items, all but the first, none, or its
\* items after the last one of the part before it, whose end was shown with it.
Answers(part, before) ==
  LET items == part.items
  IN {items, <<>>}
     \cup (IF items = <<>> THEN {} ELSE {Tail(items)})
     \cup (IF before = <<>> THEN {} ELSE {<<Last(before)>> \o items})

Truthful(part, answer) == Range(part.items) \subseteq Range(answer)

\* The items of the first part come with the answer, or with a second question
\* when there were none; that one may fail.
TranscribeFirst ==
  LET parts == Parts(File)
  IN /\ Shown /\ Blocks(File) = <<>> /\ parts # <<>>
     /\ \E answer \in Answers(parts[1], <<>>), fails \in BOOLEAN :
          /\ fails => answer = <<>>
          /\ draft' = [parts |-> 1, items |-> answer,
                       seen |-> {Plain(i) : i \in Range(answer)},
                       warnings |-> IF fails THEN {"transcription partial"} ELSE {}]
          /\ honest' = (honest /\ (fails \/ Truthful(parts[1], answer)))
     /\ UNCHANGED <<files, read, asked, extraction>>

Transcribing == Reads /\ draft.parts # 0

\* _from_parts: what a further part adds to what was already read.
AddFresh(drafted, answer) ==
  LET add(d, item) == IF Plain(item) \in d.seen THEN d
                      ELSE [d EXCEPT !.items = Append(@, item),
                                     !.seen = @ \cup {Plain(item)}]
  IN FoldLeft(add, drafted, answer)

TranscribeNext ==
  LET parts == Parts(File)
      next == draft.parts + 1
  IN /\ Transcribing /\ next <= Len(parts)
     /\ \/ /\ draft' = [draft EXCEPT !.parts = next,
                                     !.warnings = @ \cup {"transcription partial"}]
           /\ UNCHANGED honest
        \/ \E answer \in Answers(parts[next], parts[next - 1].items) :
             /\ draft' = [AddFresh(draft, answer) EXCEPT !.parts = next]
             /\ honest' = (honest /\ Truthful(parts[next], answer))
     /\ UNCHANGED <<files, read, asked, extraction>>

FinishTranscript ==
  /\ Transcribing /\ draft.parts = Len(Parts(File))
  /\ ReadAs("ITEM_TEXT", Transcribed(draft.items),
            draft.warnings \cup (IF draft.items = <<>> THEN {"no item rows"} ELSE {}))
  /\ UNCHANGED honest

\* A list in a file with neither a table nor a part to read it from.
FindNoParts ==
  /\ Shown /\ Blocks(File) = <<>> /\ Parts(File) = <<>>
  /\ ReadAs("ITEM_TEXT", <<>>, {"no item rows"})
  /\ UNCHANGED honest

-----------------------------------------------------------------------------
\* ExtractionPipeline.run

AllRead == extraction = <<>> /\ Turn > Len(files)

NoRowsYet == \A r \in Range(read) : r.rows = <<>>

\* The message itself, "only when no attachment produced a single row".
TurnToTheBody ==
  /\ AllRead /\ NoRowsYet
  /\ ~ \E f \in Range(files) : f.name = MailBody.name
  /\ files' = Append(files, MailBody)
  /\ UNCHANGED <<read, asked, draft, extraction, honest>>

\* A file's name up to its first "#".
UpToHash(name) == IF name \in DOMAIN BeforeHash THEN BeforeHash[name] ELSE name

\* _file_of: the source up to its first "#", which is the one in the file's name, or
\* the one before the sheet; without either, the row stays in.
FileOf(row) ==
  <<UpToHash(row.file),
    IF row.file \in DOMAIN BeforeHash \/ row.sheet \/ row.row = 0 THEN 0 ELSE row.row>>

\* Faulty: an article told apart by its quantity as well.
ArticleAndQuantity(row) == Plain(row.item)

Article(row) == <<row.item.code, row.item.description>>

\* _quantity_conflict: another quantity, in another file, than the first written.
Conflict(row, quantities) ==
  \E q \in quantities : /\ q.article = Article(row)
                        /\ q.file # FileOf(row)
                        /\ q.quantity # row.item.quantity

Note(row, quantities) ==
  IF \E q \in quantities : q.article = Article(row) THEN quantities
  ELSE quantities \cup {[article |-> Article(row), file |-> FileOf(row),
                         quantity |-> row.item.quantity]}

\* _merge, one source: its rows but those an earlier one has; all of them
\* repeats, and it says so.
MergeSource(m, source) ==
  LET repeats(row) == Plain(row.item) \in m.seen
      add(one, row) ==
        IF repeats(row) THEN one
        ELSE [one EXCEPT !.rows = Append(@, row),
                         !.seen = @ \cup {Plain(row.item)},
                         !.conflicts = @ \cup (IF Conflict(row, one.quantities)
                                               THEN {row} ELSE {}),
                         !.quantities = Note(row, @)]
      said == [m EXCEPT !.warnings = @ \cup source.warnings]
  IN IF source.rows # <<>> /\ \A row \in Range(source.rows) : repeats(row)
     THEN [said EXCEPT !.warnings = @ \cup {"same items attached twice"}]
     ELSE FoldLeft(add, said, source.rows)

Merged ==
  FoldLeft(MergeSource,
           [rows |-> <<>>, seen |-> {}, quantities |-> {}, conflicts |-> {}, warnings |-> {}],
           read)

\* _merge, and the extraction it goes into; row i is Sr. No. i.
Extract ==
  /\ AllRead
  /\ ~NoRowsYet \/ \E f \in Range(files) : f.name = MailBody.name
  /\ extraction' = <<[rows |-> Merged.rows, conflicts |-> Merged.conflicts,
        warnings |-> Merged.warnings \cup (UNION {f.codes : f \in Range(files)})
          \cup (IF Merged.rows = <<>> THEN {"no items anywhere"} ELSE {})
          \cup (IF Merged.conflicts # {} THEN {"same item two quantities"} ELSE {})]>>
  /\ UNCHANGED <<files, read, asked, draft, honest>>

\* No files to read: the values of a program that is doing something else.
NothingToRead ==
  /\ files = <<>> /\ read = <<>> /\ asked = 0 /\ draft = NoDraft /\ honest = TRUE
  /\ extraction = <<[rows |-> <<>>, conflicts |-> {}, warnings |-> {}]>>

Read ==
  \/ PassOverEmpty \/ FailToAsk \/ CallSupporting \/ NameColumns
  \/ TranscribeFirst \/ TranscribeNext \/ FinishTranscript \/ FindNoParts
  \/ TurnToTheBody \/ Extract

ReadingSpec == ReadingInit /\ [][Read]_reading

-----------------------------------------------------------------------------
\* Properties

\* The codes that own up to rows that were not read.
NotRead == {"file could not be read", "mapping unverified", "transcription partial"}

\* A table the model was shown, as a whole, and a file that had to be transcribed.
\* What is neither - a grid beside one with familiar headings, prose beside a table, a
\* list that starts after the first part - is left out without a word (see the README).
Offered(document) ==
  {grid \in Range(document.grids) :
     \E b \in Range(Blocks(document)) : b.grid = grid.rows /\ HasLines(b, grid)}
Transcribable(document) == Blocks(document) = <<>> /\ ShowsItems(document)

\* A line is on the list itself, or one of an earlier file that reads the same is.
OnTheList(e, f, grid) ==
  \A r \in grid.lines : \E row \in Range(e.rows) :
    \/ row.file = files[f].name /\ row.row = r
    \/ /\ row.file \in {files[g].name : g \in 1..f - 1}
       /\ Plain(row.item) = Plain(ItemAt(grid.rows, r, grid.names))

IsHonest(e) == honest /\ e.warnings \cap NotRead = {}

\* "A position nobody can see is worse than one nobody can price."  When every
\* answer was true and no warning owns up to rows that were not read, every line
\* of a table that was offered is on the list, and so is every item of a file that
\* was transcribed.
NothingLostInSilence ==
  \A e \in Range(extraction) : IsHonest(e) =>
    \A f \in DOMAIN files :
      /\ \A grid \in Offered(files[f]) : OnTheList(e, f, grid)
      /\ Transcribable(files[f]) =>
           \A part \in Range(Parts(files[f])) : \A item \in Range(part.items) :
             \E row \in Range(e.rows) : Plain(row.item) = Plain(item)

SameArticle(one, other) ==
  one.item.code = other.item.code /\ one.item.description = other.item.description

Disagree(one, other) ==
  SameArticle(one, other) /\ one.item.quantity # other.item.quantity

DisagreementReported(e, row) ==
  /\ "same item two quantities" \in e.warnings
  /\ \E other \in e.conflicts : SameArticle(other, row)

\* "Both rows go in and the disagreement is reported": two rows of one article
\* that differ in quantity and come from two files, of names that differ before any
\* "#", are on the list together only with a conflict about that article beside them.
RevisionsAreReported ==
  \A e \in Range(extraction) : \A i, j \in DOMAIN e.rows :
    (/\ i < j
     /\ Disagree(e.rows[i], e.rows[j])
     /\ UpToHash(e.rows[i].file) # UpToHash(e.rows[j].file)) => DisagreementReported(e, e.rows[i])

-----------------------------------------------------------------------------
\* What comments of the code say and the code does not keep.

\* "A grid the word list did not recognise still gets offered", and so it is read.
EveryTableIsRead ==
  \A e \in Range(extraction) : IsHonest(e) =>
    \A f \in DOMAIN files : \A grid \in Range(files[f].grids) :
      Tabular(grid.rows) => OnTheList(e, f, grid)

\* "Both rows go in and the disagreement is reported", whatever the two files are called.
EveryRevisionIsReported ==
  \A e \in Range(extraction) : \A i, j \in DOMAIN e.rows :
    (/\ i < j
     /\ Disagree(e.rows[i], e.rows[j])
     /\ e.rows[i].file # e.rows[j].file) => DisagreementReported(e, e.rows[i])

\* "Only across files.  Inside one requisition a repeated article at another
\* quantity is the customer's own row".
ConflictsAreBetweenFiles ==
  \A e \in Range(extraction) : \A row \in e.conflicts :
    \E other \in Range(e.rows) : other.file # row.file /\ SameArticle(other, row)
=============================================================================
