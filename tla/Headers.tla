------------------------------- MODULE Headers -------------------------------
(***************************************************************************)
(* The top of the form (services/extraction/header.py, normalize.py): what *)
(* the model answered is accepted or refused field by field, and what is   *)
(* left is put into the shape a cell can hold.                             *)
(*                                                                         *)
(* A value is what the code's patterns tell apart: [is, digits, first,     *)
(* second, year], `is` being the pattern it matches.  A date form carries  *)
(* its numbers in the order they are written, year 0 when it has none.     *)
(***************************************************************************)
EXTENDS Integers, Sequences, FiniteSets, FiniteSetsExt, SequencesExt, Functions, TLC

CONSTANTS
  Replies,      \* what a model can answer: [fields, not_found]
  Todays,       \* days the RFQ can be read on: [year, month, day]
  Tolerance     \* BACKDATING_TOLERANCE_DAYS

\* MAXYEAR of the calendar.
MaxYear == 9999

\* A FoundValue is one of a list, and the numbers of a pattern are its digits' values.
ASSUME RepliesAreLists ==
  \A given \in Replies :
    /\ given.fields \in Seq(Range(given.fields))
    /\ \A i \in DOMAIN given.fields :
         LET value == given.fields[i].value
         IN value.first \in Nat /\ value.second \in Nat /\ value.year \in Nat
ASSUME TodaysAreDays ==
  \A day \in Todays : day.year \in 1..MaxYear /\ day.month \in 1..12 /\ day.day \in 1..31
ASSUME ToleranceIsANumber == Tolerance \in Nat

VARIABLES
  today,        \* the day the RFQ is read on
  answer,       \* HeaderExtraction, as the model gave it
  header,       \* RfqHeader: what was accepted
  form,         \* NormalizedHeader: what goes into the cells
  step          \* "ask", "normalise", "done"

hvars == <<today, answer, header, form, step>>

Dates == {"eta", "etd", "quote_before", "requested_delivery"}

FreeText == {"vessel_name", "rfq_reference", "customer_contact", "customer_phone",
             "customer_email", "person_designation", "delivery_address"}

Derived == {"sender_code"}

Required == {"vessel_name", "imo", "rfq_reference", "delivery_port", "currency", "rfq_type"}

HeaderField == Dates \cup FreeText \cup Derived \cup Required

-----------------------------------------------------------------------------
\* A calendar

Leap(year) == (year % 4 = 0 /\ year % 100 # 0) \/ year % 400 = 0

DaysIn(year, month) ==
  IF month = 2 THEN (IF Leap(year) THEN 29 ELSE 28)
  ELSE IF month \in {4, 6, 9, 11} THEN 30 ELSE 31

\* date(): a day of the calendar, MINYEAR to MAXYEAR, or none.
IsDay(day) ==
  /\ day.year \in 1..MaxYear
  /\ day.month \in 1..12
  /\ day.day \in 1..DaysIn(day.year, day.month)

Before(month) == <<0, 31, 59, 90, 120, 151, 181, 212, 243, 273, 304, 334>>[month]

\* How many of the years up to one are leap years.
LeapYears(past) == past \div 4 - past \div 100 + past \div 400

\* A day counted from a fixed one, so that days can be subtracted.
Ordinal(day) ==
  365 * (day.year - 1) + LeapYears(day.year - 1)
    + Before(day.month) + (IF day.month > 2 /\ Leap(day.year) THEN 1 ELSE 0) + day.day

Day(year, month, day) == [year |-> year, month |-> month, day |-> day]

\* _year: two digits mean this century.
Century(year) == IF year < 100 THEN year + 2000 ELSE year

-----------------------------------------------------------------------------
\* normalize.py: dates

Parsed(day) == [day |-> <<day>>, problem |-> ""]
Unread(problem) == [day |-> <<>>, problem |-> problem]

\* _real: a date, or why a value that read like one is not one.
Real(day) == IF IsDay(day) THEN Parsed(day) ELSE Unread("not a real day")

\* _with_year, the year left off: the one that puts the date in front of us.
WithYear(month, day, now) ==
  LET guess == Day(now.year, month, day)
  IN IF IsDay(guess) /\ Ordinal(now) - Ordinal(guess) > Tolerance
     THEN Real(Day(now.year + 1, month, day))
     ELSE Real(guess)

\* A day and a month, with the year as written or without one.
Dated(written, month, day, now) ==
  IF written.year = 0 THEN WithYear(month, day, now)
  ELSE Real(Day(Century(written.year), month, day))

\* Faulty: a date that reads both ways is the way most of the world writes it.
DayFirst(written, now) ==
  LET a == written.first
      b == written.second
  IN CASE written.is = "iso" -> Real(Day(written.year, a, b))
       [] written.is = "named" -> Dated(written, b, a, now)
       [] written.is = "numeric" -> IF b > 12 THEN Dated(written, a, b, now)
                                    ELSE Dated(written, b, a, now)
       [] OTHER -> Unread("not understood")

\* parse_date: an ISO date is written year, month, day; a named month comes out
\* of the pattern as day, month; two numbers are settled only when one of them
\* cannot be a month, or, with a year, when they are the same.
ParseDate(written, now) ==
  LET a == written.first
      b == written.second
  IN CASE written.is = "iso" -> Real(Day(written.year, a, b))
       [] written.is = "named" -> Dated(written, b, a, now)
       [] written.is = "numeric" ->
            IF a > 12 /\ b <= 12 THEN Dated(written, b, a, now)
            ELSE IF (b > 12 /\ a <= 12) \/ (a = b /\ written.year # 0)
                 THEN Dated(written, a, b, now)
            ELSE Unread("ambiguous")
       [] OTHER -> Unread("not understood")

-----------------------------------------------------------------------------
\* normalize.py: the other cells

Weights == <<7, 6, 5, 4, 3, 2>>

\* normalize_imo: seven digits whose last one is the weighted sum of the others.
ChecksOut(digits) ==
  /\ Len(digits) = 7
  /\ (  Weights[1] * digits[1] + Weights[2] * digits[2] + Weights[3] * digits[3]
      + Weights[4] * digits[4] + Weights[5] * digits[5] + Weights[6] * digits[6]) % 10
       = digits[7]

\* A cell holds the value as written, its digits, a code of the list, or the
\* bucket the template provides.
Cell(field, value) ==
  CASE field = "imo" -> IF ChecksOut(value.digits) THEN "digits" ELSE "as written"
    [] field = "currency" -> IF value.is \in {"code", "symbol"} THEN "code" ELSE "as written"
    [] field = "rfq_type" -> IF value.is = "code" THEN "code" ELSE "OTHERS"
    [] OTHER -> "as written"

\* normalize_header.
Normalised(found, now) ==
  LET given == DOMAIN found
      parsed == [f \in given \cap Dates |-> ParseDate(found[f].value, now)]
      read == {f \in given \cap Dates : parsed[f].day # <<>>}
      unread == (given \cap Dates) \ read
      doubtful == {f \in given \cap {"imo"} : ~ChecksOut(found[f].value.digits)}
      other == {f \in given \cap {"rfq_type"} : found[f].value.is # "code"}
  IN [text     |-> [f \in given \ Dates |-> Cell(f, found[f].value)],
      dates    |-> [f \in read |-> parsed[f].day[1]],
      dropped  |-> [f \in unread |-> parsed[f].problem],
      checked  |-> doubtful,
      warnings |-> {parsed[f].problem : f \in unread}
                     \cup {"imo check digit" : f \in doubtful}
                     \cup {"fell back to OTHERS" : f \in other}]

-----------------------------------------------------------------------------
\* header.py

\* Faulty: a second answer for a field replaces the first.
ProblemButTheLastStands(found, taken) ==
  IF found.field \in Derived THEN "not for a model to fill"
  ELSE IF found.value.is = "placeholder" THEN "placeholder"
  ELSE IF found.source = "none" THEN "no source" ELSE ""

\* _problem: the reasons a field does not get in, in the order they are asked.
Problem(found, taken) ==
  IF found.field \in Derived THEN "not for a model to fill"
  ELSE IF found.field \in DOMAIN taken THEN "claimed twice"
  ELSE IF found.value.is = "placeholder" THEN "placeholder"
  ELSE IF found.source = "none" THEN "no source" ELSE ""

\* _explanations: kept for a required field the same answer did not fill in.
Explanations(not_found, fields) == (not_found \cap Required) \ DOMAIN fields

\* _accept, one field: the value is taken, or refused with its reason.
Took(kept, found) ==
  LET problem == Problem(found, kept.fields)
  IN IF problem # ""
     THEN [kept EXCEPT !.refused = Append(@, [found |-> found, why |-> problem]),
                       !.warnings = @ \cup {problem}]
     ELSE [kept EXCEPT
            !.fields = [f \in DOMAIN @ \cup {found.field} |->
                          IF f = found.field THEN [value |-> found.value, source |-> found.source]
                          ELSE @[f]],
            !.warnings = @ \cup {"unknown source" : s \in {found.source} \cap {"strange"}}]

\* _accept.
Accepted(given) ==
  LET kept == FoldLeft(Took, [fields |-> <<>>, refused |-> <<>>, warnings |-> {}], given.fields)
      contradicted == given.not_found \cap DOMAIN kept.fields
  IN [fields    |-> kept.fields,
      refused   |-> kept.refused,
      not_found |-> Explanations(given.not_found, kept.fields),
      warnings  |-> kept.warnings \cup {"explained a field it found" : f \in contradicted}]

NoHeader == [fields |-> <<>>, refused |-> <<>>, not_found |-> {}, warnings |-> {"header failed"}]
NoForm == [text |-> <<>>, dates |-> <<>>, dropped |-> <<>>, checked |-> {}, warnings |-> {}]
NoAnswer == [fields |-> <<>>, not_found |-> {}]

\* A request to read the header of an RFQ: nothing asked yet.
HeaderInit ==
  /\ today \in Todays
  /\ answer = NoAnswer
  /\ header = [NoHeader EXCEPT !.warnings = {}]
  /\ form = NoForm
  /\ step = "ask"

\* HeaderReader.read, the model answering.
ReadHeader ==
  /\ step = "ask"
  /\ \E given \in Replies :
       /\ answer' = given
       /\ header' = Accepted(given)
  /\ step' = "normalise"
  /\ UNCHANGED <<today, form>>

\* HeaderReader.read, the model failing: an empty header, and a warning.
FailToReadHeader ==
  /\ step = "ask"
  /\ header' = NoHeader
  /\ step' = "normalise"
  /\ UNCHANGED <<today, answer, form>>

\* normalize_header, as the pipeline calls it.
NormaliseHeader ==
  /\ step = "normalise"
  /\ form' = Normalised(header.fields, today)
  /\ step' = "done"
  /\ UNCHANGED <<today, answer, header>>

HeaderNext == ReadHeader \/ FailToReadHeader \/ NormaliseHeader

HeaderSpec == HeaderInit /\ [][HeaderNext]_hvars

\* No header to read: the values of a program that is doing something else.
NoHeaderToRead ==
  /\ today = (CHOOSE day \in Todays : TRUE)
  /\ answer = NoAnswer /\ header = NoHeader /\ form = NoForm /\ step = "idle"

-----------------------------------------------------------------------------
\* Properties

\* "Every blank cell owes an explanation" and "the first answer stands": of what
\* the model found for a cell, the first that is a value and says where it came
\* from is in the form, or the cell has its reason; a cell nothing stands for is
\* empty, and no reason is given for a cell that is filled.
EveryCellIsExplained ==
  step \in {"done", "filled"} =>
    LET filled == DOMAIN form.text \cup DOMAIN form.dates
        stands(i) == /\ answer.fields[i].field \notin Derived
                     /\ answer.fields[i].value.is # "placeholder"
                     /\ answer.fields[i].source # "none"
    IN /\ filled \cap DOMAIN form.dropped = {}
       /\ filled \cap header.not_found = {}
       /\ \A f \in HeaderField :
            LET firsts == {i \in DOMAIN answer.fields : answer.fields[i].field = f /\ stands(i)}
            IN IF firsts = {} THEN f \notin filled \cup DOMAIN form.dropped
               ELSE /\ header.fields[f].value = answer.fields[Min(firsts)].value
                    /\ f \in filled \cup {g \in DOMAIN form.dropped : form.dropped[g] # ""}
       /\ \A i \in DOMAIN answer.fields :
            ~stands(i) => \E r \in Range(header.refused) : r.found = answer.fields[i] /\ r.why # ""

\* The years, the orders of month and day, and so the days a text can mean.
Years(written, now) ==
  CASE written.is = "iso" -> {written.year}
    [] written.is # "iso" /\ written.year = 0 -> {now.year, now.year + 1}
    [] written.is # "iso" /\ written.year # 0 -> {Century(written.year)}

Orders(written) ==
  CASE written.is = "iso" -> {<<written.first, written.second>>}
    [] written.is = "named" -> {<<written.second, written.first>>}
    [] written.is = "numeric" -> {<<written.first, written.second>>,
                                  <<written.second, written.first>>}
    [] OTHER -> {}

Meanings(written, now) ==
  {d \in {Day(y, o[1], o[2]) : y \in Years(written, now), o \in Orders(written)} : IsDay(d)}

\* "A wrong one costs a delivery": a date in a date cell is the only day the text
\* can mean, and with the year left off the first such day that is not further
\* back than an RFQ looks.
DatesAreNotGuessed ==
  step \in {"done", "filled"} =>
    \A f \in DOMAIN form.dates :
      LET meant == Meanings(header.fields[f].value, today)
          ahead == {d \in meant : Ordinal(today) - Ordinal(d) <= Tolerance}
          day == form.dates[f]
      IN /\ day \in ahead \/ (day \in meant /\ header.fields[f].value.year # 0)
         /\ \A other \in meant : <<other.month, other.day>> = <<day.month, day.day>>
         /\ header.fields[f].value.year = 0 =>
              \A other \in ahead : Ordinal(day) <= Ordinal(other)

\* "It catches a transposed pair, which is the mistake a person retyping an IMO
\* actually makes": swapping two neighbours of a number that checks out, the last
\* digit included, gives one that does not.
TransposedIsCaught(digits) ==
  ChecksOut(digits) =>
    \A i \in 1..6 : digits[i] # digits[i + 1] =>
      ~ChecksOut([digits EXCEPT ![i] = digits[i + 1], ![i + 1] = digits[i]])
=============================================================================
