----------------------------- MODULE Quotation -----------------------------
(***************************************************************************)
(* What the documents of an approved RFQ say: the PDF and its preview, the *)
(* customer's file and the desk's workbook (api/quotes.py,                 *)
(* services/quotation.py, customer_file.py, quote_workbook.py).            *)
(*                                                                         *)
(* A document is drawn when it is asked for, from the record and from the  *)
(* sheet as it is then.  Over Postgres the lines are read before the       *)
(* approval, by a SELECT of their own, and the record may change between.  *)
(* A row of the sheet is [code, alias, words]: our code, the customer's,   *)
(* and what the rest of it says.  Prices and quantities are in             *)
(* thousandths, everything printed is in cents, what Excel computes from   *)
(* the formulas of a workbook is in millionths.                            *)
(***************************************************************************)
EXTENDS Integers, Sequences, SequencesExt, FiniteSets, FiniteSetsExt, Functions

CONSTANTS
  Editions,    \* sheets there may be, each a sequence of rows
  Normal,      \* normalize_code
  Landed,      \* records as matching leaves them
  PriceLists,  \* price of every line, as an approval names it
  MaxDrawn     \* bound: documents drawn

ASSUME SheetsAreLists == \A e \in Editions : e \in Seq(Range(e))
\* handlers._recorded_match: a line's code and its row are those of one product,
\* and it has no price.
ASSUME LinesAreOfOneProduct ==
  \A r \in Landed : \A i \in DOMAIN r :
    /\ DOMAIN r[i] = {"code", "row", "confirmed", "quantity", "price"}
    /\ Normal[r[i].row.code] = Normal[r[i].code]
    /\ r[i].price = 0

VARIABLES
  edition,     \* the sheet as it is
  record,      \* the lines: [code, row, confirmed, quantity, price]
  signed,      \* record.approval is not None
  selected,    \* the lines as the request that is being answered read them
  drawn        \* documents drawn so far

quoting == <<edition, record, signed, selected, drawn>>

NoRow == [code |-> "", alias |-> "", words |-> ""]

-----------------------------------------------------------------------------
\* Which product a line shows

\* Catalog.by_code: our own codes first, the customers' fill the gaps, and the
\* first row wins.
InSheet(code) ==
  LET own == {k \in DOMAIN edition : Normal[edition[k].code] = Normal[code]}
      other == {k \in DOMAIN edition : /\ edition[k].alias # ""
                                       /\ Normal[edition[k].alias] = Normal[code]}
  IN IF code = "" \/ own \cup other = {} THEN <<>>
     ELSE <<edition[Min(IF own # {} THEN own ELSE other)]>>

\* Faulty: a customer's code may bring in another product's row.
FieldsByAnyCode(code, recorded) == Head(InSheet(code) \o <<recorded>>)

\* _fields: today's row if it is really this product's, the recorded one else.
Fields(code, recorded) ==
  LET found == InSheet(code)
  IN IF found # <<>> /\ Normal[found[1].code] = Normal[code] THEN found[1] ELSE recorded

\* _settled: the product confirmed, if today's sheet spells its code the same.
Confirmed(line) ==
  LET found == InSheet(line.confirmed)
  IN IF found # <<>> /\ found[1].code = line.confirmed THEN found ELSE <<>>

\* _line, _showing, _unsettled.
MatchRow(line) ==
  IF Confirmed(line) # <<>>
  THEN LET product == Confirmed(line)[1]
       IN [code |-> product.code, words |-> product.words, item |-> product]
  ELSE [code |-> line.code, words |-> line.row.words, item |-> Fields(line.code, line.row)]

-----------------------------------------------------------------------------
\* What it comes to

\* quantize(CENT, ROUND_HALF_UP) of a number in units of 1 / (100 * unit).
Cents(n, unit) == (2 * n + unit) \div (2 * unit)

\* QuotedLine.total, in cents: a quantity that is not a number (0 here: the
\* customer's words) leaves a line without one.
TotalOf(line) ==
  IF line.price = 0 \/ line.quantity = 0 THEN <<>>
  ELSE <<Cents(line.price * line.quantity, 10000)>>

\* Faulty: multiplied as it is added up, and rounded once at the end.
SumRoundedOnce(lines) ==
  Cents(FoldSeq(LAMBDA line, sum : sum + line.price * line.quantity, 0, lines), 10000)

\* Quotation.subtotal and QuoteBook.gross: lines without a total left out.
SumOfTotals(lines) ==
  FoldSeq(LAMBDA line, sum : IF TotalOf(line) = <<>> THEN sum ELSE sum + TotalOf(line)[1],
          0, lines)

\* One line of a document: _cells of the page, _write of the customer's file,
\* _line_row of the workbook.  The page prints cents, the two workbooks hold
\* the numbers themselves.
Printed(kind, line) ==
  LET shown == MatchRow(line)
      row == [code |-> shown.code, words |-> shown.words, product |-> shown.code,
              price |-> line.price, quantity |-> line.quantity, total |-> TotalOf(line)]
  IN CASE kind = "page" -> [row EXCEPT !.price = Cents(@, 10) * 10, !.quantity = Cents(@, 10) * 10]
       [] kind = "customer" -> [row EXCEPT !.code = shown.item.alias, !.words = shown.item.words]
       [] kind = "workbook" -> row

\* SUM(N..) over K*I, as Excel recalculates them on opening (fullCalcOnLoad):
\* words in column I are an error, and an error in the column one in its sum.
Recalculated(lines) ==
  IF \E i \in DOMAIN lines : lines[i].quantity = 0 THEN <<>>
  ELSE <<FoldSeq(LAMBDA line, sum : sum + line.price * line.quantity, 0, lines)>>

\* layout, customer_file.fill, quote_workbook.fill: the values written, and of
\* the workbook the sum that is there once it has been opened.
Document(kind, lines) ==
  [kind |-> kind, rows |-> [i \in DOMAIN lines |-> Printed(kind, lines[i])],
   sum |-> IF kind = "customer" THEN 0 ELSE SumOfTotals(lines),
   opened |-> IF kind = "workbook" THEN Recalculated(lines) ELSE <<>>]

-----------------------------------------------------------------------------
QuotationInit ==
  /\ edition \in Editions
  /\ record \in Landed
  /\ signed = FALSE
  /\ selected = record
  /\ drawn = {}

\* confirm_line: any product of the sheet, under the sheet's spelling; the
\* record is not asked whether it is approved.
Confirm ==
  /\ \E i \in DOMAIN record, r \in Range(edition) :
       /\ InSheet(r.code)[1] = r
       /\ record' = [record EXCEPT ![i].confirmed = r.code]
  /\ UNCHANGED <<edition, signed, selected, drawn>>

Unconfirm ==
  /\ \E i \in DOMAIN record : record' = [record EXCEPT ![i].confirmed = ""]
  /\ UNCHANGED <<edition, signed, selected, drawn>>

\* approve_pricing: every line is priced, once.
Sign ==
  /\ ~signed
  /\ \E price \in PriceLists :
       /\ DOMAIN record \subseteq DOMAIN price
       /\ record' = [i \in DOMAIN record |-> [record[i] EXCEPT !.price = price[i]]]
  /\ signed' = TRUE
  /\ UNCHANGED <<edition, selected, drawn>>

\* The catalogue service replaces the sheet.
EditSheet ==
  /\ edition' \in Editions
  /\ UNCHANGED <<record, signed, selected, drawn>>

\* A request for a document reads the lines (selectinload(Email.lines)).
ReadLines ==
  /\ selected' = record
  /\ UNCHANGED <<edition, record, signed, drawn>>

\* It reads the approval (selectinload(Email.approval)), and if there is one
\* draws the document (_approved).
Draw ==
  /\ signed
  /\ Cardinality(drawn) < MaxDrawn
  /\ \E kind \in {"page", "customer", "workbook"} :
       drawn' = drawn \cup {Document(kind, selected)}
  /\ UNCHANGED <<edition, record, signed, selected>>

QuotationNext == Confirm \/ Unconfirm \/ Sign \/ EditSheet \/ ReadLines \/ Draw

QuotationSpec == QuotationInit /\ [][QuotationNext]_quoting

\* Nothing to quote: the values of a program that is doing something else.
NothingToQuote ==
  edition = <<>> /\ record = <<>> /\ signed = FALSE /\ selected = <<>> /\ drawn = {}

-----------------------------------------------------------------------------
\* Properties

\* A document that names an amount at all.  One whose lines were read before the
\* approval and the approval after it names none (SignedOffNumbersRead).
NamesAmounts(d) == \E i \in DOMAIN d.rows : d.rows[i].total # <<>>

\* "One quotation, one rule for its totals": the documents ever drawn of an RFQ that
\* name amounts, whichever their kind and whatever landed while they were read, ask
\* the same of every line; a sum, as it is written, is the sum of the totals above it,
\* and a line with no total is in no sum.
OneRuleForTotals ==
  \A d, e \in drawn :
    /\ NamesAmounts(d) /\ NamesAmounts(e) =>
         \A i \in DOMAIN d.rows : d.rows[i].total = e.rows[i].total
    /\ d.kind # "customer" =>
         d.sum = FoldSeq(LAMBDA row, sum : IF row.total = <<>> THEN sum ELSE sum + row.total[1],
                         0, d.rows)

\* "A customer code that happens to be somebody else's product would quietly swap
\* the row": the customer's words in a document are those of the product the
\* page and the workbook name.
OneProductPerLine ==
  \A d \in drawn : \A i \in DOMAIN d.rows :
    d.kind = "customer" =>
      \E e \in Editions \cup {[k \in DOMAIN record |-> record[k].row]} : \E r \in Range(e) :
        /\ Normal[r.code] = Normal[d.rows[i].product]
        /\ r.alias = d.rows[i].code /\ r.words = d.rows[i].words

-----------------------------------------------------------------------------
\* What comments of the code say and the code does not keep.

\* "A quotation that can be un-approved is a quotation nobody downstream can rely
\* on": two documents of one approval sell the same products.
QuotationsAgree ==
  \A d, e \in drawn : \A i \in DOMAIN d.rows : d.rows[i].product = e.rows[i].product

\* "The shown unit price is what is multiplied, so the document's total agrees
\* with its own column".
TotalsAgreeWithTheirColumn ==
  \A d \in drawn : \A i \in DOMAIN d.rows :
    LET row == d.rows[i]
    IN d.kind = "page" /\ row.total # <<>> =>
         row.total[1] = Cents(row.price * row.quantity, 10000)

\* "cached as Excel would compute them": opening the workbook leaves the total, to the
\* cent, what the file and every other document say it is.
CachedAsExcelComputes ==
  \A d \in drawn : d.opened # <<>> => Cents(d.opened[1], 10000) = d.sum

\* "After approval there are none" - lines without a total.
NoLineWithoutTotal == \A d \in drawn : \A i \in DOMAIN d.rows : d.rows[i].total # <<>>
=============================================================================
