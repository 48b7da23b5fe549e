---------------------------- MODULE QuoteContract ----------------------------
(***************************************************************************)
(* What the life of one RFQ record promises, whichever store keeps it.     *)
(*                                                                         *)
(* The record is created when an email is classified, receives its lines   *)
(* when matching lands, and is then worked on by people: letters go to     *)
(* suppliers, suppliers' prices come back, and the pricing is approved.    *)
(* This module says which of those steps may ever be seen, with no notion  *)
(* of locks, files, transactions or handlers.  FolderDesk and DatabaseDesk *)
(* are shown to implement it.                                              *)
(*                                                                         *)
(* A column of the lines is a function on every possible line index; a     *)
(* line that the record does not have holds None in all of them.           *)
(***************************************************************************)
CONSTANTS
  Lines,      \* indices a line of the RFQ may have
  Suppliers,  \* firms a letter may go to
  Prices,     \* unit prices
  Margins,    \* the pair of margins an approval is made with
  None

VARIABLES
  matched,    \* the lines the record has
  offer,      \* what a supplier quoted for one unit of a line
  approved,   \* what a line sells for since the approval
  letters,    \* the inquiries that went out
  approval    \* the sign-off, None until there is one

vars == <<matched, offer, approved, letters, approval>>

Letter == [supplier: Suppliers, lines: SUBSET Lines]

Asked(l) == \E q \in letters : l \in q.lines

NoLine == [l \in Lines |-> None]

Init ==
  /\ matched = {}
  /\ offer = NoLine
  /\ approved = NoLine
  /\ letters = {}
  /\ approval = None

\* Matching lands once, and its lines arrive bare.
LandLines(S) ==
  /\ matched = {}
  /\ S # {}
  /\ matched' = S
  /\ offer' = NoLine
  /\ approved' = NoLine
  /\ UNCHANGED <<letters, approval>>

\* Letters are added and never changed; a later send may only reach firms
\* that have no letter yet.
SendLetters(Q) ==
  /\ Q # {}
  /\ \A q \in Q, sent \in letters : q.supplier # sent.supplier
  /\ letters' = letters \cup Q
  /\ UNCHANGED <<matched, offer, approved, approval>>

\* A price is an answer: it can only stand on a line some letter asked about.
TakeOffer(l, p) ==
  /\ l \in matched
  /\ Asked(l)
  /\ offer' = [offer EXCEPT ![l] = p]
  /\ UNCHANGED <<matched, approved, letters, approval>>

WithdrawOffer(l) ==
  /\ l \in matched
  /\ offer' = [offer EXCEPT ![l] = None]
  /\ UNCHANGED <<matched, approved, letters, approval>>

\* The sign-off and the prices it froze arrive in one step, once.
SignOff(price, m) ==
  /\ approval = None
  /\ approval' = m
  /\ approved' = [l \in Lines |-> IF l \in matched THEN price[l] ELSE None]
  /\ UNCHANGED <<matched, offer, letters>>

Next ==
  \/ \E S \in SUBSET Lines : LandLines(S)
  \/ \E Q \in SUBSET Letter : SendLetters(Q)
  \/ \E l \in Lines : WithdrawOffer(l) \/ \E p \in Prices : TakeOffer(l, p)
  \/ \E price \in [Lines -> Prices \cup {None}], m \in Margins : SignOff(price, m)

Spec == Init /\ [][Next]_vars
=============================================================================
