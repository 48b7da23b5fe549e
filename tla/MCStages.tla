------------------------------ MODULE MCStages ------------------------------
(***************************************************************************)
(* What happens to an email and its files inside one process, stage by     *)
(* stage.  The stages keep no state between emails and share none with     *)
(* each other, so they are checked side by side: `stages` holds, in every  *)
(* behaviour, the one stage that moves, and the others have nothing to do. *)
(***************************************************************************)
EXTENDS Classification, Documents, Reading, Matching, Form, Quotation, Keeping, Forward,
        Cutting

CONSTANT Stages      \* the stages a run checks

VARIABLE moving      \* the stage that moves

-----------------------------------------------------------------------------
(* Emails and drafts for Classification                                     *)

MailLines == {"blank", "text", "reference", "unspaced", "due", "priced", "urgent", "divider",
              "caution", "From", "Date", "Subject", "tail", "sign off"}

MailBodies ==
  (UNION {[1..n -> MailLines] : n \in 0..3})
    \cup {<<a, b, "From", "Date", "Subject", c>> : a, b, c \in {"text", "reference", "urgent"}}
    \cup {<<"sign off", a, b, c>> : a, b, c \in MailLines}

Mail(body, subject, attached, from, to, named) ==
  [body |-> body, subject |-> subject, attached |-> attached, sender |-> from,
   recipients |-> to, named |-> named]

Quiet == [NamesNoDesk EXCEPT !.mailbox = {"uae"}]

EmailsUsed ==
  {Mail(b, <<>>, a, f, "ours", Quiet) :
     b \in MailBodies, a \in {{}, {"other"}}, f \in {"ours", "other"}}
    \cup {Mail(<<"text">>, <<s>>, {"form"}, f, t, Quiet) :
            s \in {"text", "reference", "unspaced", "due"}, f \in {"ours", "none"},
            t \in {"ours", "mixed", "none"}}
    \cup {Mail(<<>>, <<>>, {}, "none", "none", Quiet)}
    \cup {Mail(<<"text">>, <<>>, {}, "other", "ours",
               [hint |-> h, port |-> p, form |-> q, words |-> w, mailbox |-> {"uae"}]) :
            h \in {{}, {"sg"}}, p, q, w \in SUBSET {"uae", "sg"}}

DraftsUsed ==
  {[category |-> c, confidence |-> k, path |-> "LLM", is_rfq |-> "yes", priority |-> "LOW",
    rule |-> ""] :
     c \in {"NEW_RFQ", "SPAM_MARKETING", "CUSTOMER_ORDER_PO"}, k \in {59, 60, 85}}

-----------------------------------------------------------------------------
(* Files for Reading                                                        *)

Heads(says) == [is |-> "head", says |-> says]
Word(says) == [is |-> "word", says |-> says]
Number(says) == [is |-> "number", says |-> says]

NamesDescription == {<<1, "description">>, <<2, "quantity">>}
NamesCode == {<<1, "code">>, <<2, "quantity">>, <<3, "uom">>}
Swapped == {<<1, "quantity">>, <<2, "description">>}
Twice == {<<1, "description">>, <<1, "quantity">>}
NamingsUsed == {NamesDescription, NamesCode, Swapped, Twice, {<<1, "description">>}}

Grid(rows, sheet, names, heads, quoted) ==
  [rows |-> rows, sheet |-> sheet, names |-> names, heads |-> heads, lines |-> quoted]

Heading == <<Heads("item"), Heads("qty")>>
Row(what, number) == <<Word(what), IF number = "" THEN BlankCell ELSE Number(number)>>

\* A title, a heading among the rows, an article twice, a total.
DeckRows == <<Row("deck", ""), Heading, Row("rope", "2"), Row("paints", ""),
              Row("rope", "5"), Row("rope", "2"), Row("total", "")>>
\* Two tables on one sheet.
StackedRows == <<Heading, Row("rope", "2"), Row("engine", ""), Heading, Row("oil", "7")>>
\* A later revision, and a heading no word list has.
RevisedRows == <<Heading, Row("rope", "4"), Row("rope", "9")>>
ForeignRows == <<<<Word("artikel"), Word("menge")>>, Row("rope", "2"), Row("oil", "8")>>
\* Codes, and one line nobody counted.
CodedRows == <<<<Heads("impa"), Heads("qty"), Heads("uom")>>,
               <<Word("rope"), BlankCell, Word("coil")>>, <<Word("oil"), Number("7"), BlankCell>>>>

Blank == [name |-> "", container |-> FALSE, codes |-> {}, grids |-> <<>>,
          pieces |-> <<>>, pictures |-> <<>>]

Item(what, number) == [code |-> "", description |-> what, quantity |-> number, uom |-> ""]
Piece(size, items) == [size |-> size, items |-> items]

Stacked == Grid(StackedRows, TRUE, NamesDescription, {1, 4}, {2, 5})
Revised == Grid(RevisedRows, FALSE, NamesDescription, {1}, {2, 3})
Coded == Grid(CodedRows, TRUE, NamesCode, {1}, {2, 3})
RecodedRows == <<CodedRows[1], <<Word("oil"), Number("8"), BlankCell>>>>
Recoded == Grid(RecodedRows, TRUE, NamesCode, {1}, {2})
Deck == Grid(DeckRows, TRUE, NamesDescription, {2}, {3, 5, 6})
Foreign == Grid(ForeignRows, TRUE, NamesDescription, {1}, {2, 3})

Files == {
  [Blank EXCEPT !.name = "deck.xlsx", !.grids = <<Deck>>],
  [Blank EXCEPT !.name = "deck.pdf", !.grids = <<Deck>>],
  [Blank EXCEPT !.name = "stacked.xlsx", !.grids = <<Stacked>>],
  [Blank EXCEPT !.name = "revised.csv", !.grids = <<Revised>>],
  [Blank EXCEPT !.name = "RFQ #1.xlsx", !.grids = <<Coded>>],
  [Blank EXCEPT !.name = "RFQ #2.xlsx", !.grids = <<Recoded>>],
  [Blank EXCEPT !.name = "foreign.xlsx", !.grids = <<Foreign>>],
  [Blank EXCEPT !.name = "both.xlsx", !.grids = <<Deck, Foreign>>],
  [Blank EXCEPT !.name = "column.xlsx", !.grids = <<Grid(<<<<Word("rope")>>>>, TRUE, {}, {}, {})>>],
  [Blank EXCEPT !.name = "long.docx",
                !.pieces = <<Piece(2, <<Item("rope", "2")>>), Piece(1, <<Item("oil", "7")>>),
                             Piece(2, <<Item("rope", "4"), Item("rope", "2")>>)>>],
  [Blank EXCEPT !.name = "scan.pdf",
                !.pictures = <<<<>>, <<Item("oil", "7")>>, <<Item("rope", "2")>>>>],
  [Blank EXCEPT !.name = "link", !.codes = {"attachment is a link"}],
  [Blank EXCEPT !.name = "files.zip", !.container = TRUE]}

BeforeUsed == [name \in {"RFQ #1.xlsx", "RFQ #2.xlsx"} |-> "RFQ "]

Body == [Blank EXCEPT !.name = "email.body", !.pieces = <<Piece(1, <<Item("rope", "2")>>)>>]

\* No file, each file, and each behind one that is read another way.
First == {"revised.csv", "both.xlsx", "long.docx", "scan.pdf", "RFQ #1.xlsx"}

MailingsUsed ==
  {<<>>} \cup {<<f>> : f \in Files}
         \cup {<<p[1], p[2]>> : p \in {q \in Files \X Files : q[1].name \in First /\ q[1] # q[2]}}

-----------------------------------------------------------------------------
(* A sheet, lines and answers for Matching                                  *)

SheetUsed ==
  <<[code |-> "A1", alias |-> "C7", text |-> "rope 20"],
    [code |-> "A2", alias |-> "A1", text |-> "rope 24"],
    [code |-> "A1", alias |-> "", text |-> "rope"],
    [code |-> "A3", alias |-> "", text |-> "oil"]>>

WordsUsed ==
  [t \in {"rope 20", "rope 24", "rope", "oil", "ropee A2", "lamp"} |->
     CASE t = "rope 20" -> <<"rope", "20">>
       [] t = "rope 24" -> <<"rope", "24">>
       [] t = "ropee A2" -> <<"ropee", "A2", "ropee">>
       [] OTHER -> <<t>>]

\* The words of the index, the codes among them.
NarrowsUsed ==
  [w \in {"rope", "20", "24", "oil", "A1", "A2", "A3"} |-> IF w \in {"rope", "A1"} THEN 1 ELSE 3]
SpellingsUsed == [w \in {"ropee", "lamp"} |-> IF w = "ropee" THEN {"rope"} ELSE {}]

Line(code, text) == [code |-> code, text |-> text]

RequestsUsed ==
  {<<>>, <<Line("A1", "oil"), Line("A1", "rope"), Line("C7", "lamp")>>,
   <<Line("A3", "oil"), Line("", "ropee A2")>>,
   <<Line("A2", "rope"), Line("A1", "oil"), Line("A3", "lamp")>>}

Judged(index, same) == [index |-> index, same |-> same]

VerdictsUsed ==
  {<<>>, <<Judged(0, TRUE)>>, <<Judged(1, TRUE), Judged(0, FALSE)>>,
   <<Judged(0, TRUE), Judged(0, FALSE)>>, <<Judged(2, TRUE), Judged(0, FALSE)>>,
   <<Judged(-1, TRUE), Judged(1, TRUE)>>}

Sees(nth, name, key, line, item, agrees) ==
  [nth |-> nth, name |-> name, key |-> key, line |-> line, item |-> item, agrees |-> agrees]
Same(sees) == [same |-> TRUE, sees |-> sees]
OpenSize(item) == Same({Sees(1, "size", TRUE, "", item, TRUE)})
WrongSize == Same({Sees(1, "size", TRUE, "22", "24", FALSE)})
NoColour == Same({Sees(1, "colour", FALSE, "red", "", FALSE)})
\* One property listed twice.
RedTwice == Same({Sees(1, "colour", FALSE, "red", "", FALSE),
                  Sees(2, "colour", FALSE, "red", "", FALSE),
                  Sees(3, "size", TRUE, "20", "20", TRUE)})

Check(candidate, assessment) == [candidate |-> candidate, assessment |-> assessment]
Entry(index, checks) == [index |-> index, checks |-> checks]

CheckLists ==
  {<<Check(1, OpenSize("20")), Check(2, OpenSize("24"))>>,
   <<Check(2, WrongSize), Check(1, OpenSize("20"))>>,
   <<Check(1, RedTwice)>>,
   <<Check(1, WrongSize), Check(1, OpenSize("20")), Check(3, NoColour), Check(2, NoColour)>>}

ChecksUsed ==
  {<<>>, <<Entry(1, <<Check(1, OpenSize("20")), Check(2, OpenSize("24"))>>)>>,
   <<Entry(0, <<Check(1, NoColour)>>),
     Entry(0, <<Check(2, WrongSize), Check(1, OpenSize("20"))>>),
     Entry(0, <<Check(1, NoColour), Check(2, OpenSize("24"))>>)>>}
    \cup {<<Entry(0, c)>> : c \in CheckLists}

-----------------------------------------------------------------------------
(* Replies and files for Form                                               *)

Value(is, first, second, year, digits) ==
  [is |-> is, digits |-> digits, first |-> first, second |-> second, year |-> year]
Words(is) == Value(is, 0, 0, 0, <<>>)
Digits(digits) == Value("digits", 0, 0, 0, digits)
Found(field, value, source) == [field |-> field, value |-> value, source |-> source]

FoundUsed ==
  {Found("imo", Digits(<<9, 2, 3, 2, 3, 9, 5>>), "shown"),
   Found("imo", Digits(<<9, 4, 2, 5, 7, 1, 2>>), "strange"),
   Found("imo", Words("placeholder"), "shown"),
   Found("currency", Words("words"), "shown"), Found("sender_code", Words("code"), "shown"),
   Found("rfq_type", Words("words"), "none"), Found("rfq_type", Words("words"), "shown"),
   Found("eta", Value("numeric", 3, 4, 2026, <<>>), "shown"),
   Found("eta", Value("numeric", 28, 7, 0, <<>>), "shown")}

Edges == {1, 2, 3, 12, 13, 28, 29, 30, 31}

DatesUsed ==
  {Value("numeric", a, b, y, <<>>) : a, b \in Edges, y \in {0, 26, 2028}}
    \cup {Value("named", a, b, y, <<>>) : a \in Edges, b \in 1..12, y \in {0, 2027}}
    \cup {Value("iso", 2, 30, 2026, <<>>), Value("iso", 2, 28, 2026, <<>>), Words("words")}

RepliesUsed ==
  {[fields |-> q, not_found |-> n] : q \in SeqOf(FoundUsed, 3), n \in {{}, {"imo", "eta"}}}
    \cup {[fields |-> <<Found("eta", v, "shown")>>, not_found |-> {}] : v \in DatesUsed}

TodaysUsed == {Day(2026, 1, 3), Day(2026, 11, 20), Day(2028, 2, 29), Day(2027, 12, 31)}

Filed(role, facts, items, codes) ==
  [role |-> role, facts |-> facts, items |-> items, codes |-> codes]

FilingsUsed ==
  {<<Filed("ITEM_GRID", FALSE, 2, {}), Filed("UNREAD", FALSE, 0, {"read failed"})>>,
   <<Filed("EMPTY", FALSE, 0, {"password"})>>, <<>>,
   \* One more than the form lists.
   [i \in 1..8 |-> Filed("EMPTY", FALSE, 0, {"too many"})],
   <<Filed("ITEM_TEXT", FALSE, 0, {"transcription failed"}), Filed("ITEM_GRID", FALSE, 4, {})>>}

-----------------------------------------------------------------------------
(* Sheets and records for Quotation                                         *)

Product(code, alias, words) == [code |-> code, alias |-> alias, words |-> words]

\* The sheet as matching saw it; one with a code twice, from which the product is
\* gone whose code is a customer's for another; one with a code respelled.
EditionsUsed ==
  {<<Product("A1", "C1", "rope"), Product("A2", "A1", "oil")>>,
   <<Product("A2", "A1", "oil, 20 l"), Product("A2", "C9", "paint")>>,
   <<Product("a1", "C1", "rope")>>}

NormalUsed == [c \in {"A1", "a1", "A2", "C1", "C9", ""} |-> IF c = "a1" THEN "A1" ELSE c]

Sold(code, product, quantity) ==
  [code |-> code, row |-> product, confirmed |-> "", quantity |-> quantity, price |-> 0]

LandedUsed ==
  {<<Sold("A1", Product("A1", "C1", "rope"), 2500), Sold("A2", Product("A2", "A1", "oil"), 1500)>>,
   <<Sold("A1", Product("A1", "C1", "rope"), 0)>>, <<Sold("", NoRow, 333)>>}

PricingsUsed == {<<6, 2350>>, <<330>>}

-----------------------------------------------------------------------------
(* Tables: up to three rows of three cells, four of two.                    *)

GridsUsed ==
  LET cells == {BlankCell, Heads(""), Word("")}
  IN (UNION {[1..n -> [1..3 -> cells]] : n \in 0..3}) \cup [1..4 -> [1..2 -> cells]]

-----------------------------------------------------------------------------
(* Attachments for Keeping: names that differ in case, that _unique could have *)
(* made, that are our own                                                   *)

Called(text) == [text |-> text, marks |-> <<>>]

NamesUsed ==
  {Called("a"), Called("A"), [text |-> "a", marks |-> <<2>>], Called("email.json"), Called("form")}

DeliveriesOf(names) ==
  LET file(n, c) == [name |-> n, comes |-> c]
      any == {file(n, c) : n \in names, c \in {"bytes", "link"}}
  IN SeqOf(any, 2)
       \cup {<<file(x, "bytes"), file(y, "bytes"), file(z, "bytes")>> : x, y, z \in names}

DeliveriesUsed == DeliveriesOf(NamesUsed)

\* A file that is called like one being written.
DeliveriesWithTmp == DeliveriesOf({Called("a"), [text |-> "email.json", marks |-> <<Tmp>>]})

TheForm == Called("form")
LowerUsed == [s \in {"a", "A", "email.json", "form", "body.txt"} |-> IF s = "A" THEN "a" ELSE s]

-----------------------------------------------------------------------------
Init ==
  /\ moving \in Stages
  /\ IF moving = "email" THEN ClassificationInit ELSE NothingToClassify
  /\ IF moving = "files" THEN LoaderInit ELSE NothingToLoad
  /\ IF moving = "items" THEN ReadingInit ELSE NothingToRead
  /\ IF moving = "lines" THEN MatchingInit ELSE NothingToMatch
  /\ IF moving = "form" THEN FormInit ELSE NoFormToFill
  /\ IF moving = "quote" THEN QuotationInit ELSE NothingToQuote
  /\ IF moving = "record" THEN KeepingInit ELSE NothingToKeep
  /\ IF moving = "forward" THEN ForwardInit ELSE NothingToForward
  /\ IF moving = "table" THEN CuttingInit ELSE NothingToCut

Next ==
  \/ /\ moving = "email" /\ ClassificationNext
     /\ UNCHANGED <<loader, reading, matching, fvars, quoting, keeping, forwarding, moving, grid>>
  \/ /\ moving = "files" /\ Load
     /\ UNCHANGED <<cvars, reading, matching, fvars, quoting, keeping, forwarding, moving, grid>>
  \/ /\ moving = "items" /\ Read
     /\ UNCHANGED <<cvars, loader, matching, fvars, quoting, keeping, forwarding, moving, grid>>
  \/ /\ moving = "lines" /\ Match
     /\ UNCHANGED <<cvars, loader, reading, fvars, quoting, keeping, forwarding, moving, grid>>
  \/ /\ moving = "form" /\ FormNext
     /\ UNCHANGED <<cvars, loader, reading, matching, quoting, keeping, forwarding, moving, grid>>
  \/ /\ moving = "quote" /\ QuotationNext
     /\ UNCHANGED <<cvars, loader, reading, matching, fvars, keeping, forwarding, moving, grid>>
  \/ /\ moving = "record" /\ KeepingNext
     /\ UNCHANGED <<cvars, loader, reading, matching, fvars, quoting, forwarding, moving, grid>>
  \/ /\ moving = "forward" /\ ForwardNext
     /\ UNCHANGED <<cvars, loader, reading, matching, fvars, quoting, keeping, moving, grid>>

Spec ==
  Init /\ [][Next]_<<cvars, loader, reading, matching, fvars, quoting, keeping, forwarding,
                     moving, grid>>

=============================================================================
