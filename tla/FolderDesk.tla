----------------------------- MODULE FolderDesk -----------------------------
(***************************************************************************)
(* The quoting screens' endpoints (api/quotes.py) over the folder store    *)
(* (infrastructure/storage/records.py), for one RFQ record.                *)
(*                                                                         *)
(* The folder store does all of its reading and writing between two        *)
(* awaits, and its lock is never held across one.  An endpoint that reads  *)
(* the record and then writes it therefore runs without giving up the      *)
(* event loop: each endpoint is one action here.  Calls that are refused   *)
(* (404, 409, 422) leave the record alone and are stuttering steps.        *)
(*                                                                         *)
(* The product sheet is part of the module because a line is settled on a  *)
(* code and shown as whatever today's sheet says of that code.             *)
(***************************************************************************)
EXTENDS FiniteSets

CONSTANTS
  Lines, Suppliers, Prices, Margins, None,
  Codes                     \* item codes any edition of the sheet may carry

ASSUME NothingIsNothing == None \notin Prices \cup Margins \cup Codes

VARIABLES
  matched,    \* indices in record.matching
  item,       \* item_code: what matching proposed for a line
  confirmed,  \* confirmed_item_code: what a person settled it on
  offer,      \* offer_unit_price
  dated,      \* whether offer_received_at is set
  approved,   \* approved_unit_price
  letters,    \* record.inquiries
  approval,   \* record.approval
  catalog     \* the codes of today's sheet

lineVars == <<item, confirmed, offer, dated, approved>>
vars == <<matched, lineVars, letters, approval, catalog>>

Letter == [supplier: Suppliers, lines: SUBSET Lines]

NoLine == [l \in Lines |-> None]

Asked(l) == \E q \in letters : l \in q.lines

Init ==
  /\ matched = {}
  /\ item = NoLine
  /\ confirmed = NoLine
  /\ offer = NoLine
  /\ dated = [l \in Lines |-> FALSE]
  /\ approved = NoLine
  /\ letters = {}
  /\ approval = None
  /\ catalog \in (SUBSET Codes) \ {{}}

-----------------------------------------------------------------------------
(* The pipeline's one write of the lines, `update(matching=...)`.  The sheet *)
(* it matched on may have been replaced since, so a proposal is any code.   *)
LandMatching(S, found) ==
  /\ matched = {}
  /\ S # {}
  /\ matched' = S
  /\ item' = [l \in Lines |-> IF l \in S THEN found[l] ELSE None]
  /\ confirmed' = NoLine
  /\ offer' = NoLine
  /\ dated' = [l \in Lines |-> FALSE]
  /\ approved' = NoLine
  /\ UNCHANGED <<letters, approval, catalog>>

\* Faulty: the inquiries may be sent again, over the ones that went.
SendInquiriesAgain(Q) ==
  /\ Q # {}
  /\ letters' = Q
  /\ UNCHANGED <<matched, lineVars, approval, catalog>>

\* Faulty: a second send adds to the first, to whichever firms.
SendMoreInquiries(Q) ==
  /\ Q # {}
  /\ letters' = letters \cup Q
  /\ UNCHANGED <<matched, lineVars, approval, catalog>>

\* Faulty: the price goes and its date stays.
UnpriceKeepingDate(l) ==
  /\ l \in matched
  /\ offer' = [offer EXCEPT ![l] = None]
  /\ UNCHANGED <<matched, item, confirmed, dated, approved, letters, approval, catalog>>

\* Faulty: the lines the body leaves out are not looked for.
ApproveWhatIsThere(price, m) ==
  /\ DOMAIN price # {}
  /\ approval = None
  /\ approved' = [l \in Lines |-> IF l \in matched \cap DOMAIN price THEN price[l] ELSE approved[l]]
  /\ approval' = m
  /\ UNCHANGED <<matched, item, confirmed, offer, dated, letters, catalog>>

ConfirmLine(l, c) ==
  /\ c \in catalog
  /\ l \in matched
  /\ confirmed' = [confirmed EXCEPT ![l] = c]
  /\ UNCHANGED <<matched, item, offer, dated, approved, letters, approval, catalog>>

UnconfirmLine(l) ==
  /\ l \in matched
  /\ confirmed' = [confirmed EXCEPT ![l] = None]
  /\ UNCHANGED <<matched, item, offer, dated, approved, letters, approval, catalog>>

\* One letter per supplier is the screen's doing: nothing here checks it.
SendInquiries(Q) ==
  /\ letters = {}
  /\ Q # {}
  /\ letters' = Q
  /\ UNCHANGED <<matched, lineVars, approval, catalog>>

PriceLine(l, p) ==
  /\ l \in matched
  /\ Asked(l)
  /\ offer' = [offer EXCEPT ![l] = p]
  /\ dated' = [dated EXCEPT ![l] = TRUE]
  /\ UNCHANGED <<matched, item, confirmed, approved, letters, approval, catalog>>

UnpriceLine(l) ==
  /\ l \in matched
  /\ offer' = [offer EXCEPT ![l] = None]
  /\ dated' = [dated EXCEPT ![l] = FALSE]
  /\ UNCHANGED <<matched, item, confirmed, approved, letters, approval, catalog>>

\* The body prices a set of indices: at least one, and none the record has
\* may be missing.  Indices the record does not have are ignored.
ApprovePricing(price, m) ==
  /\ DOMAIN price # {}
  /\ matched \subseteq DOMAIN price
  /\ approval = None
  /\ approved' = [l \in Lines |-> IF l \in matched THEN price[l] ELSE approved[l]]
  /\ approval' = m
  /\ UNCHANGED <<matched, item, confirmed, offer, dated, letters, catalog>>

\* The catalogue service swaps the whole sheet; an empty one is refused.
SwapSheet(edition) ==
  /\ edition # {}
  /\ catalog' = edition
  /\ UNCHANGED <<matched, lineVars, letters, approval>>

Pricings == UNION {[S -> Prices] : S \in SUBSET Lines}

Next ==
  \/ \E S \in SUBSET Lines, found \in [Lines -> Codes \cup {None}] : LandMatching(S, found)
  \/ \E l \in Lines, c \in Codes : ConfirmLine(l, c)
  \/ \E l \in Lines : UnconfirmLine(l)
  \/ \E Q \in SUBSET Letter : SendInquiries(Q)
  \/ \E l \in Lines, p \in Prices : PriceLine(l, p)
  \/ \E l \in Lines : UnpriceLine(l)
  \/ \E price \in Pricings, m \in Margins : ApprovePricing(price, m)
  \/ \E edition \in SUBSET Codes : SwapSheet(edition)

Spec == Init /\ [][Next]_vars

-----------------------------------------------------------------------------
(* What a document says                                                     *)

\* The code a line is shown under: `_settled` falls back to the proposal when
\* today's sheet does not carry the confirmed code.
ShownCode(l) ==
  IF confirmed[l] # None /\ confirmed[l] \in catalog THEN confirmed[l] ELSE item[l]

\* `_approved`: there is a quotation only once the pricing is signed off.
Quotable == approval # None

-----------------------------------------------------------------------------
(* Properties                                                               *)

\* Every variable holds what EmailRecord and the sheet can hold, and nothing
\* is held for a line the record does not have.
TypeOK ==
  /\ matched \subseteq Lines
  /\ item \in [Lines -> Codes \cup {None}]
  /\ confirmed \in [Lines -> Codes \cup {None}]
  /\ offer \in [Lines -> Prices \cup {None}]
  /\ dated \in [Lines -> BOOLEAN]
  /\ approved \in [Lines -> Prices \cup {None}]
  /\ letters \subseteq Letter
  /\ approval \in Margins \cup {None}
  /\ catalog \subseteq Codes
  /\ \A l \in Lines \ matched :
       item[l] = None /\ confirmed[l] = None /\ offer[l] = None /\ approved[l] = None

\* A price on a line is the answer to a letter the record still holds: the
\* check of price_line, made once, stays true because inquire never rewrites.
AskedBeforePriced == \A l \in matched : offer[l] # None => Asked(l)

\* The price and the moment it arrived come and go together, through pricing,
\* re-pricing and withdrawing (_set writes both in one file).
PricedAndDated == \A l \in Lines : dated[l] <=> offer[l] # None

\* approve_pricing's "every line, or none": no document has one line with a
\* number and another without.
EveryLineOrNone ==
  Quotable => \/ \A l \in matched : approved[l] # None
              \/ \A l \in matched : approved[l] = None

\* The letters are recorded once and stay as sent (inquire).
LettersStayAsSent == [][letters # {} => letters' = letters]_vars

\* Once approved, the sign-off and the number on every line it covered are the
\* same for ever, whatever is confirmed, priced, matched or re-read afterwards.
ApprovalIsFinal ==
  [][Quotable => /\ approval' = approval
                 /\ \A l \in matched : l \in matched' /\ approved'[l] = approved[l]]_vars

\* Every step is one the abstract record allows.
Contract ==
  INSTANCE QuoteContract
    WITH matched <- matched, offer <- offer, approved <- approved, letters <- letters,
         approval <- approval
ImplementsContract == Contract!Spec

\* "Every line, or none. An approval that covered some of them would be a
\* quotation with holes in it" (approve_pricing): a document without holes.
NoHoles == Quotable => \A l \in matched : approved[l] # None

\* "A settled line is shown as what it was settled on" (_line).
ShownAsSettled == \A l \in matched : confirmed[l] # None => ShownCode(l) = confirmed[l]
=============================================================================
