---------------------------- MODULE DatabaseDesk ----------------------------
(***************************************************************************)
(* The quoting screens' endpoints (api/quotes.py) over the Postgres store  *)
(* (infrastructure/storage/database.py), for one RFQ record.               *)
(*                                                                         *)
(* There is no lock here.  Every method opens a session, reads the record  *)
(* table by table - one SELECT per collection, in the order of _WHOLE - and *)
(* writes what changed when the transaction commits.  Transactions run at  *)
(* READ COMMITTED, Postgres's default: each SELECT sees whatever is        *)
(* committed when it starts.  Two endpoints read the record in a session   *)
(* of its own before the one that writes.                                  *)
(*                                                                         *)
(* A commit is one step: the rows it updates are locked until it is over   *)
(* and nobody sees half of it.  What reaches a row is the columns whose    *)
(* value differs from the one this session loaded: SQLAlchemy leaves an    *)
(* attribute set to an equal value out of the UPDATE.                      *)
(***************************************************************************)
EXTENDS Naturals, FiniteSets

CONSTANTS
  Lines, Suppliers, Prices, Margins, Codes, None,
  Clients,    \* requests in flight at one time
  Calls       \* the calls made in this instance, a bound on the model

VARIABLES
  matched, confirmed, offer, dated, approved,   \* rfq_lines
  letters,                                      \* rfq_inquiries
  approval,                                     \* rfq_approvals
  session                                       \* what each request is doing

lineRows == <<matched, confirmed, offer, dated, approved>>
rows == <<lineRows, letters, approval>>
vars == <<rows, session>>

Letter == [supplier: Suppliers, lines: SUBSET Lines]

Confirm == [op: {"confirm"}, line: Lines, code: Codes \cup {None}]
Price   == [op: {"price"}, line: Lines, price: Prices]
Unprice == [op: {"unprice"}, line: Lines]
Inquire == [op: {"inquire"}, letters: (SUBSET Letter) \ {{}}]
Approve == [op: {"approve"}, prices: UNION {[S -> Prices] : S \in (SUBSET Lines) \ {{}}},
            margin: Margins]
Quote   == [op: {"quote"}]
AllCalls == Confirm \cup Price \cup Unprice \cup Inquire \cup Approve \cup Quote

ASSUME CallsAreCalls == Calls \subseteq AllCalls
ASSUME NothingIsNothing == None \notin Prices \cup Margins \cup Codes

NoLine == [l \in Lines |-> None]
NeverDated == [l \in Lines |-> FALSE]

Nothing == [matched |-> {}, confirmed |-> NoLine, offer |-> NoLine, dated |-> NeverDated,
            approved |-> NoLine, letters |-> {}, approval |-> None]
Idle == [stage |-> "idle", call |-> None, loaded |-> 0, seen |-> Nothing]

Init ==
  /\ matched = {}
  /\ confirmed = NoLine
  /\ offer = NoLine
  /\ dated = NeverDated
  /\ approved = NoLine
  /\ letters = {}
  /\ approval = None
  /\ session = [c \in Clients |-> Idle]

-----------------------------------------------------------------------------
(* A request: reading                                                       *)

\* The endpoints that read the record before they write it, or only read it.
ReadsFirst == {"price", "approve", "quote"}

Begin(c, call) ==
  /\ session[c].stage = "idle"
  /\ session' = [session EXCEPT ![c] =
       [Idle EXCEPT !.stage = IF call.op \in ReadsFirst THEN "check" ELSE "write",
                    !.call = call]]
  /\ UNCHANGED rows

Loading(c, n) == session[c].stage # "idle" /\ session[c].loaded = n

SelectLines(c) ==
  /\ Loading(c, 0)
  /\ session' = [session EXCEPT ![c].loaded = 1,
       ![c].seen = [@ EXCEPT !.matched = matched, !.confirmed = confirmed, !.offer = offer,
                             !.dated = dated, !.approved = approved]]
  /\ UNCHANGED rows

SelectLetters(c) ==
  /\ Loading(c, 1)
  /\ session' = [session EXCEPT ![c].loaded = 2, ![c].seen.letters = letters]
  /\ UNCHANGED rows

SelectApproval(c) ==
  /\ Loading(c, 2)
  /\ session' = [session EXCEPT ![c].loaded = 3, ![c].seen.approval = approval]
  /\ UNCHANGED rows

\* What approve_pricing and price_line require of the record they read.
Accepts(call, seen) ==
  \/ call.op = "approve" /\ seen.matched \subseteq DOMAIN call.prices
  \/ /\ call.op = "price"
     /\ call.line \in seen.matched
     /\ \E q \in seen.letters : call.line \in q.lines

PassCheck(c) ==
  /\ session[c].stage = "check"
  /\ session[c].loaded = 3
  /\ Accepts(session[c].call, session[c].seen)
  /\ session' = [session EXCEPT ![c].stage = "write", ![c].loaded = 0, ![c].seen = Nothing]
  /\ UNCHANGED rows

\* The request is over and wrote nothing: it was refused, answered, rolled
\* back on an integrity error, or the database failed under it.
End(c) ==
  /\ session[c].stage # "idle"
  /\ session' = [session EXCEPT ![c] = Idle]
  /\ UNCHANGED rows

-----------------------------------------------------------------------------
(* A request: writing                                                       *)

Committing(c, op) ==
  /\ session[c].stage = "write"
  /\ session[c].loaded = 3
  /\ session[c].call.op = op
  /\ session' = [session EXCEPT ![c] = Idle]

\* The UPDATE of one column of one line.
Updated(column, l, new, loaded) ==
  IF new = loaded[l] THEN column ELSE [column EXCEPT ![l] = new]

CommitConfirm(c) ==
  LET call == session[c].call
      seen == session[c].seen
  IN /\ Committing(c, "confirm")
     /\ call.line \in seen.matched
     /\ confirmed' = Updated(confirmed, call.line, call.code, seen.confirmed)
     /\ UNCHANGED <<matched, offer, dated, approved, letters, approval>>

\* The moment is always a new one, so its column is always written.
CommitPrice(c) ==
  LET call == session[c].call
      seen == session[c].seen
  IN /\ Committing(c, "price")
     /\ call.line \in seen.matched
     /\ offer' = Updated(offer, call.line, call.price, seen.offer)
     /\ dated' = [dated EXCEPT ![call.line] = TRUE]
     /\ UNCHANGED <<matched, confirmed, approved, letters, approval>>

CommitUnprice(c) ==
  LET call == session[c].call
      seen == session[c].seen
  IN /\ Committing(c, "unprice")
     /\ call.line \in seen.matched
     /\ offer' = Updated(offer, call.line, None, seen.offer)
     /\ dated' = Updated(dated, call.line, FALSE, seen.dated)
     /\ UNCHANGED <<matched, confirmed, approved, letters, approval>>

\* rfq_inquiries_email_id_supplier_key: one letter per supplier, in this send
\* and in all that are committed.
OneEach(Q) ==
  /\ \A q, r \in Q : q.supplier = r.supplier => q = r
  /\ \A q \in Q, sent \in letters : q.supplier # sent.supplier

CommitInquire(c) ==
  LET Q == session[c].call.letters
  IN /\ Committing(c, "inquire")
     /\ session[c].seen.letters = {}
     /\ OneEach(Q)
     /\ letters' = letters \cup Q
     /\ UNCHANGED <<lineRows, approval>>

\* Faulty: the approvals have a key of their own.
AnotherRow == TRUE

\* The email's id is the primary key of rfq_approvals: a second row is refused
\* even to a session that had seen none.
NoRowYet == approval = None

CommitApprove(c) ==
  LET call == session[c].call
      seen == session[c].seen
  IN /\ Committing(c, "approve")
     /\ seen.approval = None
     /\ NoRowYet
     /\ approved' = [l \in Lines |-> IF l \in seen.matched \cap DOMAIN call.prices
                                     THEN call.prices[l] ELSE approved[l]]
     /\ approval' = call.margin
     /\ UNCHANGED <<matched, confirmed, offer, dated, letters>>

\* The pipeline's update(matching=...): the old lines are cleared, flushed and
\* replaced in one transaction.  Matching runs once per email.
LandMatching(S) ==
  /\ matched = {}
  /\ S # {}
  /\ matched' = S
  /\ confirmed' = NoLine
  /\ offer' = NoLine
  /\ dated' = NeverDated
  /\ approved' = NoLine
  /\ UNCHANGED <<letters, approval, session>>

Commit(c) ==
  \/ CommitConfirm(c)
  \/ CommitPrice(c)
  \/ CommitUnprice(c)
  \/ CommitInquire(c)
  \/ CommitApprove(c)

Next ==
  \/ \E S \in SUBSET Lines : LandMatching(S)
  \/ \E c \in Clients :
       \/ \E call \in Calls : Begin(c, call)
       \/ SelectLines(c) \/ SelectLetters(c) \/ SelectApproval(c)
       \/ PassCheck(c) \/ End(c)
       \/ Commit(c)

Spec == Init /\ [][Next]_vars

-----------------------------------------------------------------------------
(* Properties                                                               *)

Seen == [matched: SUBSET Lines, confirmed: [Lines -> Codes \cup {None}],
         offer: [Lines -> Prices \cup {None}], dated: [Lines -> BOOLEAN],
         approved: [Lines -> Prices \cup {None}], letters: SUBSET Letter,
         approval: Margins \cup {None}]

Session == [stage: {"idle", "check", "write"}, call: Calls \cup {None}, loaded: 0..3,
            seen: Seen]

\* Rows and sessions hold what the tables and the identity map can hold, and
\* no row of prices exists for a line the record does not have.
TypeOK ==
  /\ matched \subseteq Lines
  /\ confirmed \in [Lines -> Codes \cup {None}]
  /\ offer \in [Lines -> Prices \cup {None}]
  /\ dated \in [Lines -> BOOLEAN]
  /\ approved \in [Lines -> Prices \cup {None}]
  /\ letters \subseteq Letter
  /\ approval \in Margins \cup {None}
  /\ session \in [Clients -> Session]
  /\ \A l \in Lines \ matched :
       confirmed[l] = None /\ offer[l] = None /\ ~dated[l] /\ approved[l] = None

\* A price on a line is the answer to a committed letter, although price_line
\* looks for the letter in one session and writes the price in another.
AskedBeforePriced == \A l \in matched : offer[l] # None => \E q \in letters : l \in q.lines

\* No letter that is on the record is ever changed or taken off it.
NoLetterRewritten == [][letters \subseteq letters']_vars

\* The sign-off happens once: whatever requests overlap, neither the approval
\* nor a number it froze ever moves.
ApprovalIsFinal ==
  [][approval # None => /\ approval' = approval
                        /\ \A l \in matched : l \in matched' /\ approved'[l] = approved[l]]_vars

\* Every commit is a step the abstract record allows.
Contract ==
  INSTANCE QuoteContract
    WITH matched <- matched, offer <- offer, approved <- approved, letters <- letters,
         approval <- approval
ImplementsContract == Contract!Spec

\* "Once. A record that already carries inquiries is a 409" (send_inquiries).
SentOnce == [][letters # {} => letters' = letters]_vars

\* "Every line, or none" (approve_pricing), in its weakest form: no record is
\* approved with a number on one line and none on another.
EveryLineOrNone ==
  approval # None => \/ \A l \in matched : approved[l] # None
                     \/ \A l \in matched : approved[l] = None

\* "a price and the moment it arrived are one fact, and a reader must never
\* catch one without the other" (_set).
PricedAndDated == \A l \in Lines : dated[l] <=> offer[l] # None

\* "A record that carried an approval but not the prices it approved would
\* describe a sign-off on nothing" (approve): a document is drawn from the
\* numbers the approval it read stands for.
SignedOffNumbersRead ==
  \A c \in Clients :
    LET seen == session[c].seen
    IN session[c].loaded = 3 /\ session[c].call.op = "quote" /\ seen.approval # None
         => \A l \in seen.matched : seen.approved[l] = approved[l]
=============================================================================
