------------------------------ MODULE Matching ------------------------------
(***************************************************************************)
(* The lines of one RFQ matched to products: MatchingPipeline with its     *)
(* judge, its assessor and its scores (services/matching/), over the       *)
(* product sheet (domain/rules/catalog.py).                                *)
(*                                                                         *)
(* Two rounds of model calls: is the product a quoted code names what the  *)
(* line asks for, and how well does each product of a shortlist fit.  The  *)
(* calls of a round are in flight together and answered in any order, or   *)
(* not at all; an answer is a list of numbered entries, which may leave    *)
(* numbers out, repeat them or invent them.  `said` and `observed` are not *)
(* in the code: what the models said of what they were shown.              *)
(***************************************************************************)
EXTENDS Confidence, Orders

CONSTANTS
  Sheet,       \* the rows: [code, alias, text], keys normalised, "" for none
  WordsOf,     \* the words of a text in order (tokenize), stems lowered and cut
  Narrows,     \* how much a word of the index narrows things down (_idf)
  Spellings,   \* the index words one letter away from a word that is none
  Requests,    \* the lists of lines to be matched: [code, text]
  Batch,       \* pairs per call of the judge
  Assessed,    \* lines per call of the assessor
  Shortlisted, \* candidates per line
  Verdicts,    \* what the judge may answer: sequences of [index, same]
  Checks,      \* what the assessor may answer: sequences of [index, checks]
  NoScore

ASSUME BatchesArePositive == {Batch, Assessed, Shortlisted} \subseteq Nat \ {0}
ASSUME RequestsAreLists == \A request \in Requests : request \in Seq(Range(request))
\* What the answer schema of the judge admits.
ASSUME VerdictsAreEntries == Verdicts \subseteq Seq([index: Int, same: BOOLEAN])
\* ... and of the assessor; an assessment has finitely many properties.
ASSUME ChecksAreEntries ==
  \A answer \in Checks :
    /\ answer \in Seq(Range(answer))
    /\ \A e \in Range(answer) :
         /\ e.checks \in Seq(Range(e.checks))
         /\ \A c \in Range(e.checks) : IsFiniteSet(c.assessment.sees)
\* A number is a score.
ASSUME NoScoreIsNoNumber == NoScore \notin Int
ASSUME SheetIsAList == Sheet \in Seq(Range(Sheet))

VARIABLES
  lines,      \* the LineItems
  stage,      \* "judging", "assessing", "matched"
  answers,    \* the answers of the round so far, by call
  matched,    \* the MatchedLines: without scores, then with
  said, observed

matching == <<lines, stage, answers, matched, said, observed>>

-----------------------------------------------------------------------------
\* Catalog

\* by_code: the first row whose own code it is, or else the first whose
\* customer's code it is.
ByCode(code) ==
  LET own == {r \in DOMAIN Sheet : Sheet[r].code = code}
      theirs == {r \in DOMAIN Sheet : Sheet[r].alias = code}
  IN IF code = "" \/ own \cup theirs = {} THEN <<>>
     ELSE <<Sheet[Min(IF own # {} THEN own ELSE theirs)]>>

\* _repair: the one word of the index it can be a misspelling of.
Repaired(word) ==
  IF word \notin DOMAIN Narrows /\ Cardinality(Spellings[word]) = 1
  THEN Spellings[word] ELSE {}

\* _words: a row is found by the words of its text and by its code.
RowWords(row) == Range(WordsOf[row.text]) \cup {row.code}

\* A row's score for a query, in halves, every word as often as it is said: a
\* repaired word is worth half.  How often a row says a word and how long it is
\* (_saturation) are left out.
Worth(text, row) ==
  LET worth(w) == IF w \in RowWords(row) THEN 2 * Narrows[w]
                  ELSE MapThenSumSet(LAMBDA r : Narrows[r], Repaired(w) \cap RowWords(row))
  IN FoldSeq(LAMBDA w, sum : sum + worth(w), 0, WordsOf[text])

\* search: the best rows first, one per product, so many of them.
Search(text) ==
  LET hit == {r \in DOMAIN Sheet : Worth(text, Sheet[r]) > 0}
      before(r, s) == \/ Worth(text, Sheet[r]) > Worth(text, Sheet[s])
                      \/ Worth(text, Sheet[r]) = Worth(text, Sheet[s]) /\ r < s
      ranked == Ranked(hit, before)
      best == {i \in DOMAIN ranked :
                 \A j \in 1..i - 1 : Sheet[ranked[j]].code # Sheet[ranked[i]].code}
      first == InOrder(best)
  IN [k \in 1..Min({Shortlisted, Len(first)}) |-> Sheet[ranked[first[k]]]]

-----------------------------------------------------------------------------
\* Calls and their answers

Calls(n, size) == 1..(n + size - 1) \div size

\* What one call is about: so many of the questions, from where the last stopped.
Batched(questions, call, size) ==
  SubSeq(questions, (call - 1) * size + 1, Min({call * size, Len(questions)}))

\* _pair: the question about a line whose code names a product.
Pair(line) == <<line.text, ByCode(line.code)[1].text>>

\* _judged: every distinct question, once, in order.
Pairs ==
  LET once(asked, line) ==
        IF ByCode(line.code) = <<>> \/ Pair(line) \in Range(asked) THEN asked
        ELSE Append(asked, Pair(line))
  IN FoldLeft(once, <<>>, lines)

\* Faulty: an entry put where its number says, in the batch or out of it.
EntriesAnywhere(answer, call, count) ==
  {e \in Range(answer) : TRUE}

\* judge.run: the entries whose number was in the batch.
Entries(answer, call, count) ==
  {e \in Range(answer) : e.index \in 0..Min({Batch, count - (call - 1) * Batch}) - 1}

\* The verdict on question k: the last entry about it, or none.  A call that failed
\* answers with an empty list.
Verdict(k, count) ==
  LET about(call) == {i \in DOMAIN answers[call] :
                        /\ answers[call][i] \in Entries(answers[call], call, count)
                        /\ (call - 1) * Batch + answers[call][i].index + 1 = k}
      calls == {call \in DOMAIN answers : about(call) # {}}
  IN calls # {} /\ answers[Max(calls)][Max(about(Max(calls)))].same

-----------------------------------------------------------------------------
\* MatchingPipeline.run

MatchingInit ==
  /\ lines \in Requests
  /\ stage = "judging"
  /\ answers = <<>>
  /\ matched = <<>>
  /\ said = {}
  /\ observed = {}

Put(call, answer) == answers' = [c \in DOMAIN answers \cup {call} |->
                                   IF c = call THEN answer ELSE answers[c]]

\* A call of the judge comes back, with an answer or with an error.
Judge ==
  /\ stage = "judging"
  /\ \E call \in Calls(Len(Pairs), Batch) \ DOMAIN answers : \E answer \in Verdicts :
       LET shown == Batched(Pairs, call, Batch)
       IN /\ Put(call, answer)
          /\ said' = said \cup {<<shown[e.index + 1], e.same>> :
                                  e \in {f \in Range(answer) : f.index + 1 \in DOMAIN shown}}
  /\ UNCHANGED <<lines, stage, matched, observed>>

Unscored(products) ==
  [i \in DOMAIN products |-> [product |-> products[i], confidence |-> NoScore]]

\* _one: the code's product if the judge agreed, or else the search of the line's
\* own words.
One(line) ==
  LET named == ByCode(line.code)
      pairs == Pairs
      agreed == named # <<>> /\ \E k \in DOMAIN pairs :
                                  pairs[k] = Pair(line) /\ Verdict(k, Len(pairs))
      found == Search(line.text)
  IN IF agreed THEN [how |-> "code_confirmed", candidates |-> Unscored(named)]
     ELSE [how |-> IF found = <<>> THEN "none"
                   ELSE IF named # <<>> THEN "code_rejected" ELSE "search",
           candidates |-> Unscored(found)]

\* Every verdict is in, or without lines or rows there is nothing to ask.
Choose ==
  /\ stage = "judging"
  /\ DOMAIN answers = IF Sheet = <<>> THEN {} ELSE Calls(Len(Pairs), Batch)
  /\ matched' = [i \in DOMAIN lines |-> IF Sheet = <<>> THEN [how |-> "none", candidates |-> <<>>]
                                        ELSE One(lines[i])]
  /\ stage' = "assessing"
  /\ answers' = <<>>
  /\ UNCHANGED <<lines, said, observed>>

\* same_words: the line is a product's own description.
SameWords(i, scored) == lines[i].text = scored.product.text

Settled(i) == \E scored \in Range(matched[i].candidates) : SameWords(i, scored)

\* The lines the assessor is asked about, by their numbers.
ToAssess ==
  InOrder({i \in DOMAIN matched : matched[i].candidates # <<>> /\ ~Settled(i)})

\* What an entry observes of the line it numbers, if it was in the batch.
Observed(shown, entry) ==
  IF entry.index + 1 \notin DOMAIN shown THEN {}
  ELSE LET line == shown[entry.index + 1]
       IN {<<line, matched[line].candidates[c.candidate].product.text, c.assessment>> :
             c \in {d \in Range(entry.checks) : d.candidate \in DOMAIN matched[line].candidates}}

\* A call of the assessor comes back.
Assess ==
  /\ stage = "assessing"
  /\ \E call \in Calls(Len(ToAssess), Assessed) \ DOMAIN answers : \E answer \in Checks :
       LET shown == Batched(ToAssess, call, Assessed)
       IN /\ Put(call, answer)
          /\ observed' = observed \cup UNION {Observed(shown, e) : e \in Range(answer)}
  /\ UNCHANGED <<lines, stage, matched, said>>

\* Faulty: as many checks as there are candidates, in the order they came.
CompleteInOrder(checks, count) ==
  IF Len(checks) # count THEN <<>> ELSE [n \in 1..count |-> checks[n].assessment]

\* _complete: the first check of every candidate, or nothing when one has none.
Complete(checks, count) ==
  LET of(n) == {i \in DOMAIN checks : checks[i].candidate = n}
  IN IF \E n \in 1..count : of(n) = {} THEN <<>>
     ELSE [n \in 1..count |-> checks[Min(of(n))].assessment]

\* assessor.run: the first complete entry about a line.
AssessmentsOf(line) ==
  LET asked == ToAssess
      k == CHOOSE k \in DOMAIN asked : asked[k] = line
      call == (k - 1) \div Assessed + 1
      count == Len(matched[line].candidates)
      about == {i \in DOMAIN answers[call] :
                  /\ answers[call][i].index = (k - 1) % Assessed
                  /\ Complete(answers[call][i].checks, count) # <<>>}
  IN IF about = {} THEN <<>> ELSE Complete(answers[call][Min(about)].checks, count)

\* AssessedConfidence.score: word for word without a call, or by the formula.
Scores(i) ==
  LET candidates == matched[i].candidates
      assessments == AssessmentsOf(i)
      scores == Confidences(assessments)
  IN [c \in DOMAIN candidates |->
        [candidates[c] EXCEPT !.confidence =
           IF Settled(i) THEN IF SameWords(i, candidates[c]) THEN 100 ELSE NoScore
           ELSE IF assessments = <<>> THEN NoScore ELSE scores[c]]]

\* _scored: by score, the unscored last, ties as the search had them.
ByScore(candidates) ==
  LET at(c) == candidates[c].confidence
      before(c, d) ==
        \/ at(c) # NoScore /\ at(d) = NoScore
        \/ at(c) # NoScore /\ at(d) # NoScore /\ at(c) > at(d)
        \/ at(c) = at(d) /\ c < d
      order == Ranked(DOMAIN candidates, before)
  IN [k \in DOMAIN order |-> candidates[order[k]]]

ScoreLines ==
  /\ stage = "assessing"
  /\ DOMAIN answers = Calls(Len(ToAssess), Assessed)
  /\ matched' = [i \in DOMAIN matched |-> [matched[i] EXCEPT !.candidates = ByScore(Scores(i))]]
  /\ stage' = "matched"
  /\ answers' = <<>>
  /\ UNCHANGED <<lines, said, observed>>

\* No lines to match.
NothingToMatch ==
  /\ lines = <<>> /\ matched = <<>> /\ answers = <<>> /\ stage = "matched"
  /\ said = {} /\ observed = {}

Match == Judge \/ Choose \/ Assess \/ ScoreLines

MatchingSpec == MatchingInit /\ [][Match]_matching

-----------------------------------------------------------------------------
\* Properties

\* "A code this pipeline did not check does not reach an order."  A line keeps the
\* product its code names only if the judge, shown this line beside that product,
\* said they are the same - whatever was said of its neighbours, under whatever
\* numbers.
UncheckedCodesAreDropped ==
  \A i \in DOMAIN matched :
    matched[i].how = "code_confirmed" => <<Pair(lines[i]), TRUE>> \in said

\* "A number nobody worked out" is never shown: what a candidate scores is what
\* the assessor observed of that product for that line, beside its neighbours, and
\* no product that contradicts the line scores.
ScoresAreTheirOwn ==
  stage = "matched" =>
    \A i \in DOMAIN matched : \A scored \in Range(matched[i].candidates) :
      LET seen == {o[3] : o \in {p \in observed : p[1] = i /\ p[2] = scored.product.text}}
      IN \/ scored.confidence = NoScore
         \/ SameWords(i, scored) /\ scored.confidence = 100
         \/ \E a \in seen : IF Viable(a) THEN scored.confidence \in 50..100
                            ELSE scored.confidence = 0

\* One line may not have two products that are each the only one that fits: when
\* two candidates were seen to fit and to differ in something the line leaves open,
\* neither stands at 100.
ChoicesStayOpen ==
  stage = "matched" =>
    \A i \in DOMAIN matched : \A c, d \in Range(matched[i].candidates) :
      LET seen(s) == {o[3] : o \in {p \in observed : p[1] = i /\ p[2] = s.product.text}}
      IN \A a \in seen(c), b \in seen(d) :
           (/\ seen(c) = {a} /\ seen(d) = {b}
            /\ c.confidence = 100 /\ d.confidence = 100
            /\ ~SameWords(i, c) /\ ~SameWords(i, d))
           => \A p \in Attributes(a), q \in Attributes(b) :
                (p.name = q.name /\ p.line = "" /\ q.line = "") => p.item = q.item
=============================================================================
