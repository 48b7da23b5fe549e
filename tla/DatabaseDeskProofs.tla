------------------------- MODULE DatabaseDeskProofs -------------------------
(***************************************************************************)
(* Theorems about DatabaseDesk, for every set of lines, suppliers, prices, *)
(* clients and calls: its types, its invariants, what no commit may do,    *)
(* and that it implements QuoteContract although no lock is ever held.     *)
(*                                                                         *)
(* What carries them is IInv: a session acts on what it read earlier, and  *)
(* each thing it acts on is of a kind that stays true once it was.  Lines  *)
(* land once, letters are only added; so a session that saw a line or a    *)
(* letter still has it when it commits, whatever committed in between.     *)
(***************************************************************************)
EXTENDS DatabaseDesk, TLAPS

\* A request under way is one of the calls.
CallKnown(c) == session[c].stage # "idle" => session[c].call \in Calls

\* The lines a session saw are the lines of the record, unless it saw none.
LinesStillThere(c) == session[c].seen.matched \in {{}, matched}

\* The letters a session saw are still on the record.
LettersStillThere(c) == session[c].seen.letters \subseteq letters

\* A price that passed the check of price_line is for a line of the record
\* that a committed letter asked about, although another session looked.
PriceCleared(c) ==
  session[c].stage = "write" /\ session[c].call.op = "price" =>
    /\ session[c].call.line \in matched
    /\ \E q \in letters : session[c].call.line \in q.lines

IInv ==
  /\ TypeOK
  /\ \A c \in Clients : /\ CallKnown(c)
                        /\ LinesStillThere(c)
                        /\ LettersStillThere(c)
                        /\ PriceCleared(c)

-----------------------------------------------------------------------------
\* What each call carries: the lines, prices, letters and margins of its kind.
LEMMA CallShapes ==
  ASSUME NEW call \in Calls
  PROVE  /\ call.op = "confirm" => call.line \in Lines /\ call.code \in Codes \cup {None}
         /\ call.op = "price" => call.line \in Lines /\ call.price \in Prices
         /\ call.op = "unprice" => call.line \in Lines
         /\ call.op = "inquire" => call.letters \in (SUBSET Letter) \ {{}}
         /\ call.op = "approve" =>
              /\ call.margin \in Margins
              /\ \E S \in SUBSET Lines : call.prices \in [S -> Prices]
<1>1. call \in AllCalls
  BY CallsAreCalls
<1>2. CASE call \in Confirm
  BY <1>2 DEF Confirm
<1>3. CASE call \in Price
  BY <1>3 DEF Price
<1>4. CASE call \in Unprice
  BY <1>4 DEF Unprice
<1>5. CASE call \in Inquire
  BY <1>5 DEF Inquire
<1>6. CASE call \in Approve
  BY <1>6 DEF Approve
<1>7. CASE call \in Quote
  BY <1>7 DEF Quote
<1>8. QED
  BY <1>1, <1>2, <1>3, <1>4, <1>5, <1>6, <1>7 DEF AllCalls

\* An idle session, and one that has seen nothing, are sessions.
LEMMA IdleIsASession == Nothing \in Seen /\ Idle \in Session
<1>1. Nothing \in Seen
  BY DEF Nothing, Seen, NoLine, NeverDated, Letter
<1>2. QED
  BY <1>1 DEF Idle, Session

\* A session stays one when any field of it is given a value of its kind.
LEMMA SessionField ==
  ASSUME NEW s \in Session
  PROVE  /\ \A stage \in {"idle", "check", "write"} : [s EXCEPT !.stage = stage] \in Session
         /\ \A call \in Calls : [s EXCEPT !.call = call] \in Session
         /\ [s EXCEPT !.loaded = 0] \in Session
         /\ [s EXCEPT !.loaded = 1] \in Session
         /\ [s EXCEPT !.loaded = 2] \in Session
         /\ [s EXCEPT !.loaded = 3] \in Session
         /\ \A seen \in Seen : [s EXCEPT !.seen = seen] \in Session
BY DEF Session

\* What a request that begins, reads, passes its check or ends does to its
\* session, and that it is the only session it touches.
LEMMA SessionsOneAtATime ==
  ASSUME TypeOK, NEW c \in Clients, NEW s \in Session, session' = [session EXCEPT ![c] = s]
  PROVE  /\ session' \in [Clients -> Session]
         /\ session'[c] = s
         /\ \A d \in Clients \ {c} : session'[d] = session[d]
BY DEF TypeOK

LEMMA BeginSession ==
  ASSUME TypeOK, NEW c \in Clients, NEW call \in Calls, Begin(c, call)
  PROVE  /\ session' \in [Clients -> Session]
         /\ \A d \in Clients \ {c} : session'[d] = session[d]
         /\ session'[c].call = call
         /\ session'[c].seen = Nothing
         /\ session'[c].stage = "write" => call.op # "price"
<1> DEFINE stage == IF call.op \in ReadsFirst THEN "check" ELSE "write"
           s == [Idle EXCEPT !.stage = stage, !.call = call]
<1>1. s \in Session
  BY IdleIsASession, SessionField
<1>2. s.call = call /\ s.seen = Nothing /\ s.stage = stage
  BY DEF Idle
<1>3. session' = [session EXCEPT ![c] = s]
  BY DEF Begin
<1>4. s.stage = "write" => call.op # "price"
  BY <1>2 DEF ReadsFirst
<1> HIDE DEF s
<1>5. QED
  BY <1>1, <1>2, <1>3, <1>4, SessionsOneAtATime

\* Each SELECT moves the session on by one table and leaves its request alone.
LEMMA SelectSession ==
  ASSUME TypeOK, NEW c \in Clients, SelectLines(c) \/ SelectLetters(c) \/ SelectApproval(c)
  PROVE  /\ session' \in [Clients -> Session]
         /\ \A d \in Clients \ {c} : session'[d] = session[d]
         /\ session'[c].stage = session[c].stage
         /\ session'[c].call = session[c].call
         /\ session'[c].seen.matched \in {session[c].seen.matched, matched}
         /\ session'[c].seen.letters \in {session[c].seen.letters, letters}
<1> USE DEF TypeOK
<1> DEFINE s == session[c]
<1>0. s \in Session
  OBVIOUS
<1>1. CASE SelectLines(c)
  <2> DEFINE seen == [s.seen EXCEPT !.matched = matched, !.confirmed = confirmed,
                        !.offer = offer, !.dated = dated, !.approved = approved]
             new == [s EXCEPT !.loaded = 1, !.seen = seen]
  <2>1. seen \in Seen /\ seen.matched = matched /\ seen.letters = s.seen.letters
    BY <1>0 DEF Session, Seen
  <2>2. session' = [session EXCEPT ![c] = new]
    BY <1>1 DEF SelectLines
  <2> HIDE DEF seen
  <2>3. new.stage = s.stage /\ new.call = s.call /\ new.seen = seen
    BY <1>0 DEF Session
  <2>4. new \in Session
    BY <1>0, <2>1, SessionField
  <2> HIDE DEF new
  <2>5. QED
    BY <2>1, <2>2, <2>3, <2>4, SessionsOneAtATime
<1>2. CASE SelectLetters(c)
  <2> DEFINE seen == [s.seen EXCEPT !.letters = letters]
             new == [s EXCEPT !.loaded = 2, !.seen = seen]
  <2>1. seen \in Seen /\ seen.matched = s.seen.matched /\ seen.letters = letters
    BY <1>0 DEF Session, Seen
  <2>2. session' = [session EXCEPT ![c] = new]
    BY <1>2 DEF SelectLetters
  <2> HIDE DEF seen
  <2>3. new.stage = s.stage /\ new.call = s.call /\ new.seen = seen
    BY <1>0 DEF Session
  <2>4. new \in Session
    BY <1>0, <2>1, SessionField
  <2> HIDE DEF new
  <2>5. QED
    BY <2>1, <2>2, <2>3, <2>4, SessionsOneAtATime
<1>3. CASE SelectApproval(c)
  <2> DEFINE seen == [s.seen EXCEPT !.approval = approval]
             new == [s EXCEPT !.loaded = 3, !.seen = seen]
  <2>1. /\ seen \in Seen /\ seen.matched = s.seen.matched
        /\ seen.letters = s.seen.letters
    BY <1>0 DEF Session, Seen
  <2>2. session' = [session EXCEPT ![c] = new]
    BY <1>3 DEF SelectApproval
  <2> HIDE DEF seen
  <2>3. new.stage = s.stage /\ new.call = s.call /\ new.seen = seen
    BY <1>0 DEF Session
  <2>4. new \in Session
    BY <1>0, <2>1, SessionField
  <2> HIDE DEF new
  <2>5. QED
    BY <2>1, <2>2, <2>3, <2>4, SessionsOneAtATime
<1>4. QED
  BY <1>1, <1>2, <1>3

LEMMA PassCheckSession ==
  ASSUME TypeOK, NEW c \in Clients, PassCheck(c)
  PROVE  /\ session' \in [Clients -> Session]
         /\ \A d \in Clients \ {c} : session'[d] = session[d]
         /\ session'[c].call = session[c].call
         /\ session'[c].seen = Nothing
<1> DEFINE s == session[c]
           new == [s EXCEPT !.stage = "write", !.loaded = 0, !.seen = Nothing]
<1>1. s \in Session
  BY DEF TypeOK
<1>2. new \in Session
  BY <1>1, IdleIsASession, SessionField
<1>5. new.call = s.call /\ new.seen = Nothing
  BY <1>1 DEF Session
<1>3. session' = [session EXCEPT ![c] = new]
  BY DEF PassCheck, TypeOK
<1> HIDE DEF new
<1>4. QED
  BY <1>2, <1>3, <1>5, SessionsOneAtATime

\* A request that ends, with a commit or without, leaves an idle session.
LEMMA EndSession ==
  ASSUME TypeOK, NEW c \in Clients, session' = [session EXCEPT ![c] = Idle]
  PROVE  /\ session' \in [Clients -> Session]
         /\ \A d \in Clients \ {c} : session'[d] = session[d]
         /\ session'[c].stage = "idle"
         /\ session'[c].seen = Nothing
<1>1. Idle.stage = "idle" /\ Idle.seen = Nothing
  BY DEF Idle
<1>2. QED
  BY <1>1, IdleIsASession, SessionsOneAtATime

-----------------------------------------------------------------------------
\* The rows of one RFQ keep their types and hold nothing for a line the record
\* does not have.
RowsOK ==
  /\ matched \subseteq Lines
  /\ confirmed \in [Lines -> Codes \cup {None}]
  /\ offer \in [Lines -> Prices \cup {None}]
  /\ dated \in [Lines -> BOOLEAN]
  /\ approved \in [Lines -> Prices \cup {None}]
  /\ letters \subseteq Letter
  /\ approval \in Margins \cup {None}
  /\ \A l \in Lines \ matched :
       confirmed[l] = None /\ offer[l] = None /\ ~dated[l] /\ approved[l] = None

\* Every commit keeps the rows well formed: it writes only to lines its session
\* saw, and those are still lines of the record.
LEMMA CommitKeepsRows ==
  ASSUME IInv, NEW c \in Clients, Commit(c)
  PROVE  RowsOK'
<1> USE DEF RowsOK
<1> DEFINE call == session[c].call
           seen == session[c].seen
<1>1. RowsOK /\ seen.matched \subseteq matched
  BY DEF IInv, TypeOK, LinesStillThere
<1>2. session[c].stage = "write" => call \in Calls
  BY DEF IInv, CallKnown
<1>3. CASE CommitConfirm(c)
  <2>1. call.line \in matched /\ call.line \in Lines /\ call.code \in Codes \cup {None}
    BY <1>1, <1>2, <1>3, CallShapes DEF CommitConfirm, Committing
  <2>2. confirmed' = Updated(confirmed, call.line, call.code, seen.confirmed)
    BY <1>3 DEF CommitConfirm
  <2> HIDE DEF call, seen
  <2>3. /\ confirmed' \in [Lines -> Codes \cup {None}]
        /\ \A k \in Lines \ {call.line} : confirmed'[k] = confirmed[k]
    BY <1>1, <2>1, <2>2 DEF Updated
  <2>4. QED
    BY <1>1, <1>3, <2>1, <2>3 DEF CommitConfirm
<1>4. CASE CommitPrice(c)
  <2>1. call.line \in matched /\ call.line \in Lines /\ call.price \in Prices \cup {None}
    BY <1>1, <1>2, <1>4, CallShapes DEF CommitPrice, Committing
  <2>2. /\ offer' = Updated(offer, call.line, call.price, seen.offer)
        /\ dated' = [dated EXCEPT ![call.line] = TRUE]
    BY <1>4 DEF CommitPrice
  <2> HIDE DEF call, seen
  <2>3. /\ offer' \in [Lines -> Prices \cup {None}]
        /\ \A k \in Lines \ {call.line} : offer'[k] = offer[k]
    BY <1>1, <2>1, <2>2 DEF Updated
  <2>4. /\ dated' \in [Lines -> BOOLEAN]
        /\ \A k \in Lines \ {call.line} : dated'[k] = dated[k]
    BY <1>1, <2>1, <2>2
  <2>5. QED
    BY <1>1, <1>4, <2>1, <2>3, <2>4 DEF CommitPrice
<1>5. CASE CommitUnprice(c)
  <2>1. call.line \in matched /\ call.line \in Lines
    BY <1>1, <1>2, <1>5, CallShapes DEF CommitUnprice, Committing
  <2>2. /\ offer' = Updated(offer, call.line, None, seen.offer)
        /\ dated' = Updated(dated, call.line, FALSE, seen.dated)
    BY <1>5 DEF CommitUnprice
  <2> HIDE DEF call, seen
  <2>3. /\ offer' \in [Lines -> Prices \cup {None}]
        /\ \A k \in Lines \ {call.line} : offer'[k] = offer[k]
    BY <1>1, <2>1, <2>2 DEF Updated
  <2>4. /\ dated' \in [Lines -> BOOLEAN]
        /\ \A k \in Lines \ {call.line} : dated'[k] = dated[k]
    BY <1>1, <2>1, <2>2 DEF Updated
  <2>5. QED
    BY <1>1, <1>5, <2>1, <2>3, <2>4 DEF CommitUnprice
<1>6. CASE CommitInquire(c)
  <2>1. call.letters \subseteq Letter
    BY <1>2, <1>6, CallShapes DEF CommitInquire, Committing
  <2>2. QED
    BY <1>1, <1>6, <2>1 DEF CommitInquire, lineRows
<1>7. CASE CommitApprove(c)
  <2>1. PICK S \in SUBSET Lines : call.prices \in [S -> Prices]
    BY <1>2, <1>7, CallShapes DEF CommitApprove, Committing
  <2>2. call.margin \in Margins
    BY <1>2, <1>7, CallShapes DEF CommitApprove, Committing
  <2>3. approved' = [l \in Lines |-> IF l \in seen.matched \cap DOMAIN call.prices
                                    THEN call.prices[l] ELSE approved[l]]
    BY <1>7 DEF CommitApprove
  <2> HIDE DEF call, seen
  <2>4. /\ approved' \in [Lines -> Prices \cup {None}]
        /\ \A l \in Lines \ matched : approved'[l] = approved[l]
    BY <1>1, <2>1, <2>3
  <2>5. QED
    BY <1>1, <1>7, <2>2, <2>4 DEF CommitApprove, call
<1>8. QED
  BY <1>3, <1>4, <1>5, <1>6, <1>7 DEF Commit

\* What the commits share: one session ends, no line is lost, no letter is
\* taken off the record.
LEMMA CommitEnds ==
  ASSUME NEW c \in Clients, Commit(c)
  PROVE  /\ session' = [session EXCEPT ![c] = Idle]
         /\ matched' = matched
         /\ letters \subseteq letters'
BY DEF Commit, CommitConfirm, CommitPrice, CommitUnprice, CommitInquire, CommitApprove,
   Committing, lineRows

\* A session that has its old state, while lines and letters only arrive,
\* still knows what it knew.
LEMMA OthersKnowWhatTheyKnew ==
  ASSUME NEW d, CallKnown(d), LinesStillThere(d), LettersStillThere(d), PriceCleared(d),
         session'[d] = session[d], matched \in {{}, matched'}, letters \subseteq letters'
  PROVE  CallKnown(d)' /\ LinesStillThere(d)' /\ LettersStillThere(d)' /\ PriceCleared(d)'
<1>1. CallKnown(d)'
  BY DEF CallKnown
<1>2. LinesStillThere(d)'
  BY DEF LinesStillThere
<1>3. LettersStillThere(d)'
  BY DEF LettersStillThere
<1>4. PriceCleared(d)'
  BY DEF PriceCleared
<1>5. QED
  BY <1>1, <1>2, <1>3, <1>4

-----------------------------------------------------------------------------
\* The strengthened invariant of the whole desk: types, and for every request
\* that what it acts on is still so, whatever was committed since it looked.
THEOREM Inductive == Spec => []IInv
<1> DEFINE Knows(c) == CallKnown(c) /\ LinesStillThere(c) /\ LettersStillThere(c)
                       /\ PriceCleared(c)
<1>1. Init => IInv
  <2> SUFFICES ASSUME Init PROVE IInv
    OBVIOUS
  <2>1. RowsOK
    BY DEF Init, RowsOK, NoLine, NeverDated
  <2>2. session \in [Clients -> Session]
    BY IdleIsASession DEF Init
  <2>3. ASSUME NEW c \in Clients PROVE Knows(c)
    <3>1. /\ session[c].stage = "idle"
          /\ session[c].seen.matched = {}
          /\ session[c].seen.letters = {}
      BY DEF Init, Idle, Nothing
    <3>2. QED
      BY <3>1 DEF CallKnown, LinesStillThere, LettersStillThere, PriceCleared
  <2>4. QED
    BY <2>1, <2>2, <2>3 DEF IInv, TypeOK, RowsOK
<1>2. IInv /\ [Next]_vars => IInv'
  <2> SUFFICES ASSUME IInv, [Next]_vars PROVE IInv'
    OBVIOUS
  <2>1. TypeOK /\ RowsOK /\ \A c \in Clients : Knows(c)
    BY DEF IInv, TypeOK, RowsOK
  <2> DEFINE Lasting == /\ RowsOK'
                        /\ matched \in {{}, matched'}
                        /\ letters \subseteq letters'
  <2>2. ASSUME Lasting, session' = session PROVE IInv'
    <3>1. \A c \in Clients : Knows(c)'
      BY <2>1, <2>2, OthersKnowWhatTheyKnew
    <3>2. QED
      BY <2>1, <2>2, <3>1 DEF IInv, TypeOK, RowsOK
  <2>3. ASSUME NEW c \in Clients, Lasting,
               session' \in [Clients -> Session],
               \A d \in Clients \ {c} : session'[d] = session[d],
               Knows(c)'
        PROVE IInv'
    <3>1. \A d \in Clients \ {c} : Knows(d)'
      BY <2>1, <2>3, OthersKnowWhatTheyKnew
    <3>2. \A d \in Clients : Knows(d)'
      BY <2>3, <3>1
    <3>3. QED
      BY <2>3, <3>2 DEF IInv, TypeOK, RowsOK
  <2>4. UNCHANGED rows => Lasting
    BY <2>1 DEF rows, lineRows, RowsOK
  <2>5. ASSUME NEW S \in SUBSET Lines, LandMatching(S) PROVE IInv'
    <3>1. RowsOK'
      BY <2>1, <2>5 DEF LandMatching, RowsOK, NoLine, NeverDated
    <3>2. QED
      BY <2>2, <2>5, <3>1 DEF LandMatching
  <2>6. ASSUME NEW c \in Clients, NEW call \in Calls, Begin(c, call) PROVE IInv'
    <3>1. Knows(c)'
      <4>1. /\ session'[c].call = call
            /\ session'[c].seen.matched = {}
            /\ session'[c].seen.letters = {}
            /\ session'[c].stage = "write" => call.op # "price"
        BY <2>1, <2>6, BeginSession DEF Nothing
      <4>2. QED
        BY <4>1 DEF CallKnown, LinesStillThere, LettersStillThere, PriceCleared
    <3>2. QED
      BY <2>1, <2>3, <2>4, <2>6, <3>1, BeginSession DEF Begin
  <2>7. ASSUME NEW c \in Clients, SelectLines(c) \/ SelectLetters(c) \/ SelectApproval(c)
        PROVE IInv'
    <3>1. UNCHANGED rows
      BY <2>7 DEF SelectLines, SelectLetters, SelectApproval
    <3>2. Knows(c)'
      <4>1. /\ session'[c].stage = session[c].stage
            /\ session'[c].call = session[c].call
            /\ session'[c].seen.matched \in {session[c].seen.matched, matched}
            /\ session'[c].seen.letters \in {session[c].seen.letters, letters}
        BY <2>1, <2>7, SelectSession
      <4>2. matched' = matched /\ letters' = letters
        BY <3>1 DEF rows, lineRows
      <4>3. Knows(c)
        BY <2>1
      <4>4. QED
        BY <4>1, <4>2, <4>3 DEF CallKnown, LinesStillThere, LettersStillThere, PriceCleared
    <3>3. QED
      BY <2>1, <2>3, <2>4, <2>7, <3>1, <3>2, SelectSession
  <2>8. ASSUME NEW c \in Clients, PassCheck(c) PROVE IInv'
    <3> DEFINE call == session[c].call
               seen == session[c].seen
    <3>1. UNCHANGED rows /\ session[c].stage = "check" /\ Accepts(call, seen)
      BY <2>8 DEF PassCheck
    <3>2. matched' = matched /\ letters' = letters
      BY <3>1 DEF rows, lineRows
    <3>3. /\ session'[c].call = call
          /\ session'[c].seen.matched = {}
          /\ session'[c].seen.letters = {}
      BY <2>1, <2>8, PassCheckSession DEF Nothing
    <3>4. call \in Calls
      BY <2>1, <3>1 DEF CallKnown
    <3>5. call.op = "price" =>
            call.line \in matched /\ \E q \in letters : call.line \in q.lines
      BY <2>1, <3>1 DEF Accepts, LinesStillThere, LettersStillThere
    <3>6. Knows(c)'
      BY <3>2, <3>3, <3>4, <3>5 DEF CallKnown, LinesStillThere, LettersStillThere,
         PriceCleared
    <3>7. QED
      BY <2>1, <2>3, <2>4, <2>8, <3>1, <3>6, PassCheckSession
  <2>9. ASSUME NEW c \in Clients, End(c) \/ Commit(c) PROVE IInv'
    <3>1. session' = [session EXCEPT ![c] = Idle]
      BY <2>9, CommitEnds DEF End
    <3>2. Lasting
      BY <2>4, <2>9, CommitEnds, CommitKeepsRows DEF End
    <3>3. Knows(c)'
      <4>1. session'[c].stage = "idle" /\ session'[c].seen = Nothing
        BY <2>1, <3>1, EndSession
      <4>2. QED
        BY <4>1 DEF Nothing, CallKnown, LinesStillThere, LettersStillThere, PriceCleared
    <3>4. QED
      BY <2>1, <2>3, <3>1, <3>2, <3>3, EndSession
  <2>10. CASE UNCHANGED vars
    BY <2>2, <2>4, <2>10 DEF vars
  <2>11. QED
    BY <2>5, <2>6, <2>7, <2>8, <2>9, <2>10 DEF Next
<1>3. QED
  BY <1>1, <1>2, PTL DEF Spec

-----------------------------------------------------------------------------
\* A price on a line is the answer to a committed letter, although price_line
\* looks for the letter in one transaction and writes in another.
THEOREM PricedOnlyIfAsked == Spec => []AskedBeforePriced
<1>1. Init => AskedBeforePriced
  BY DEF Init, AskedBeforePriced
<1>2. IInv /\ AskedBeforePriced /\ [Next]_vars => AskedBeforePriced'
  <2> SUFFICES ASSUME IInv, AskedBeforePriced, [Next]_vars PROVE AskedBeforePriced'
    OBVIOUS
  <2> USE DEF AskedBeforePriced
  <2>1. ASSUME NEW S \in SUBSET Lines, LandMatching(S) PROVE AskedBeforePriced'
    BY <2>1 DEF LandMatching, NoLine
  <2>2. ASSUME NEW c \in Clients, Commit(c) PROVE AskedBeforePriced'
    <3> DEFINE call == session[c].call
    <3>1. matched' = matched /\ letters \subseteq letters' /\ matched \subseteq Lines
          /\ offer \in [Lines -> Prices \cup {None}]
      BY <2>2, CommitEnds DEF IInv, TypeOK
    <3>2. CASE CommitPrice(c)
      <4>1. \E q \in letters : call.line \in q.lines
        BY <3>2 DEF CommitPrice, Committing, IInv, PriceCleared
      <4>2. offer' = Updated(offer, call.line, call.price, session[c].seen.offer)
        BY <3>2 DEF CommitPrice
      <4> HIDE DEF call
      <4>3. \A l \in Lines \ {call.line} : offer'[l] = offer[l]
        BY <3>1, <4>2 DEF Updated
      <4>4. QED
        BY <3>1, <4>1, <4>3
    <3>3. CASE CommitUnprice(c)
      <4>1. \A l \in Lines : offer'[l] # None => offer[l] # None
        BY <3>1, <3>3 DEF CommitUnprice, Updated
      <4>2. QED
        BY <3>1, <4>1
    <3>4. CASE offer' = offer
      BY <3>1, <3>4
    <3>5. QED
      BY <2>2, <3>2, <3>3, <3>4 DEF Commit, CommitConfirm, CommitInquire, CommitApprove,
         lineRows
  <2>3. CASE UNCHANGED <<matched, offer, letters>>
    BY <2>3
  <2>4. QED
    BY <2>1, <2>2, <2>3 DEF Next, vars, rows, lineRows, Begin, SelectLines, SelectLetters,
       SelectApproval, PassCheck, End
<1>3. QED
  BY <1>1, <1>2, Inductive, PTL DEF Spec

-----------------------------------------------------------------------------
\* No letter that is on the record is ever changed or taken off it: a send that
\* overlaps another one adds to it or is refused.
THEOREM LettersStay == Spec => NoLetterRewritten
<1>1. [Next]_vars => [letters \subseteq letters']_vars
  BY CommitEnds DEF Next, vars, rows, LandMatching, Begin, SelectLines, SelectLetters,
     SelectApproval, PassCheck, End
<1>2. QED
  BY <1>1, PTL DEF Spec, NoLetterRewritten

\* The sign-off happens once: a second approval whose session saw none is
\* refused by the primary key, so neither the approval nor a number it froze
\* ever moves.
THEOREM ApprovalStands == Spec => ApprovalIsFinal
<1> DEFINE Stands == approval' = approval
                     /\ \A l \in matched : l \in matched' /\ approved'[l] = approved[l]
<1>1. [Next]_vars => [approval # None => Stands]_vars
  <2> SUFFICES ASSUME Next, approval # None PROVE Stands
    OBVIOUS
  <2>1. ASSUME NEW S \in SUBSET Lines, LandMatching(S) PROVE Stands
    BY <2>1 DEF LandMatching
  <2>2. ASSUME NEW c \in Clients, CommitApprove(c) PROVE Stands
    BY <2>2 DEF CommitApprove, NoRowYet
  <2>3. CASE UNCHANGED <<matched, approved, approval>>
    BY <2>3
  <2>4. QED
    BY <2>1, <2>2, <2>3 DEF Next, rows, lineRows, Begin, SelectLines, SelectLetters,
       SelectApproval, PassCheck, End, Commit, CommitConfirm, CommitPrice, CommitUnprice,
       CommitInquire
<1>2. QED
  BY <1>1, PTL DEF Spec, ApprovalIsFinal

-----------------------------------------------------------------------------
\* Every commit is a step of the abstract record or changes nothing it knows
\* of: with no lock, and every decision taken on a state that may be old, the
\* database desk keeps the promises the folder desk keeps.
THEOREM DatabaseImplementsContract == Spec => ImplementsContract
<1>1. Init => Contract!Init
  BY DEF Init, Contract!Init, NoLine, Contract!NoLine
<1>2. IInv /\ [Next]_vars => [Contract!Next]_(Contract!vars)
  <2> SUFFICES ASSUME IInv, [Next]_vars PROVE [Contract!Next]_(Contract!vars)
    OBVIOUS
  <2>1. ASSUME NEW S \in SUBSET Lines, LandMatching(S) PROVE Contract!Next
    <3>1. Contract!LandLines(S)
      BY <2>1 DEF LandMatching, Contract!LandLines, NoLine, Contract!NoLine
    <3>2. QED
      BY <3>1 DEF Contract!Next
  <2>2. ASSUME NEW c \in Clients, Commit(c) PROVE [Contract!Next]_(Contract!vars)
    <3> DEFINE call == session[c].call
               seen == session[c].seen
    <3>1. RowsOK /\ seen.matched \subseteq matched
      BY DEF IInv, TypeOK, RowsOK, LinesStillThere
    <3>2. session[c].stage = "write" => call \in Calls
      BY DEF IInv, CallKnown
    <3>3. CASE CommitPrice(c)
      <4>1. /\ call.line \in Lines /\ call.line \in matched /\ call.price \in Prices
            /\ \E q \in letters : call.line \in q.lines
        BY <3>1, <3>2, <3>3, CallShapes DEF CommitPrice, Committing, IInv, PriceCleared
      <4>2. offer' = offer \/ offer' = [offer EXCEPT ![call.line] = call.price]
        BY <3>3 DEF CommitPrice, Updated
      <4>3. UNCHANGED <<matched, approved, letters, approval>>
        BY <3>3 DEF CommitPrice
      <4> HIDE DEF call
      <4>4. CASE offer' = offer
        BY <4>3, <4>4 DEF Contract!vars
      <4>5. CASE offer' = [offer EXCEPT ![call.line] = call.price]
        <5>1. Contract!TakeOffer(call.line, call.price)
          BY <4>1, <4>3, <4>5 DEF Contract!TakeOffer, Contract!Asked
        <5>2. QED
          BY <4>1, <5>1 DEF Contract!Next
      <4>6. QED
        BY <4>2, <4>4, <4>5
    <3>4. CASE CommitUnprice(c)
      <4>1. call.line \in Lines /\ call.line \in matched
        BY <3>1, <3>2, <3>4, CallShapes DEF CommitUnprice, Committing
      <4>2. offer' = offer \/ offer' = [offer EXCEPT ![call.line] = None]
        BY <3>4 DEF CommitUnprice, Updated
      <4>3. UNCHANGED <<matched, approved, letters, approval>>
        BY <3>4 DEF CommitUnprice
      <4> HIDE DEF call
      <4>4. CASE offer' = offer
        BY <4>3, <4>4 DEF Contract!vars
      <4>5. CASE offer' = [offer EXCEPT ![call.line] = None]
        <5>1. Contract!WithdrawOffer(call.line)
          BY <4>1, <4>3, <4>5 DEF Contract!WithdrawOffer
        <5>2. QED
          BY <4>1, <5>1 DEF Contract!Next
      <4>6. QED
        BY <4>2, <4>4, <4>5
    <3>5. CASE CommitInquire(c)
      <4>1. PICK Q : Q = call.letters
        OBVIOUS
      <4>2. Q \in SUBSET Letter /\ Q # {}
        BY <3>2, <3>5, <4>1, CallShapes DEF CommitInquire, Committing
      <4>3. OneEach(Q) /\ letters' = letters \cup Q
        BY <3>5, <4>1 DEF CommitInquire
      <4>4. UNCHANGED <<matched, offer, approved, approval>>
        BY <3>5 DEF CommitInquire, lineRows
      <4>5. Contract!SendLetters(Q)
        BY <4>2, <4>3, <4>4 DEF OneEach, Contract!SendLetters
      <4>6. QED
        BY <4>2, <4>5 DEF Contract!Next, Letter, Contract!Letter
    <3>6. CASE CommitApprove(c)
      <4> DEFINE frozen == [l \in Lines |-> IF l \in seen.matched \cap DOMAIN call.prices
                                            THEN call.prices[l] ELSE approved[l]]
      <4>1. PICK S \in SUBSET Lines : call.prices \in [S -> Prices]
        BY <3>2, <3>6, CallShapes DEF CommitApprove, Committing
      <4>2. call.margin \in Margins
        BY <3>2, <3>6, CallShapes DEF CommitApprove, Committing
      <4>3. /\ approval = None /\ approval' = call.margin /\ approved' = frozen
            /\ UNCHANGED <<matched, offer, letters>>
        BY <3>6 DEF CommitApprove, NoRowYet
      <4> HIDE DEF call, seen
      <4>4. frozen \in [Lines -> Prices \cup {None}]
        BY <3>1, <4>1 DEF RowsOK
      <4>5. frozen = [l \in Lines |-> IF l \in matched THEN frozen[l] ELSE None]
        BY <3>1 DEF RowsOK
      <4> HIDE DEF frozen
      <4>6. Contract!SignOff(frozen, call.margin)
        BY <4>3, <4>5 DEF Contract!SignOff
      <4>7. QED
        BY <4>2, <4>4, <4>6 DEF Contract!Next
    <3>7. CASE CommitConfirm(c)
      BY <3>7 DEF CommitConfirm, Contract!vars
    <3>8. QED
      BY <2>2, <3>3, <3>4, <3>5, <3>6, <3>7 DEF Commit
  <2>3. CASE UNCHANGED <<matched, offer, approved, letters, approval>>
    BY <2>3 DEF Contract!vars
  <2>4. QED
    BY <2>1, <2>2, <2>3 DEF Next, vars, rows, lineRows, Begin, SelectLines, SelectLetters,
       SelectApproval, PassCheck, End
<1>3. QED
  BY <1>1, <1>2, Inductive, PTL DEF Spec, Contract!Spec, ImplementsContract

=============================================================================
