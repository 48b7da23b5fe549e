----------------------------- MODULE Confidence -----------------------------
(***************************************************************************)
(* The formula that turns what was observed of a shortlist into scores     *)
(* (services/matching/confidence.py).                                      *)
(*                                                                         *)
(* An assessment is [same, sees], `sees` a set of properties [nth, name,   *)
(* key, line, item, agrees]: its place in the answer, where one listed     *)
(* twice counts twice, what the line says of it, what the product says, "" *)
(* for nothing.  Fractions are in sixtieths, which is exact for shortlists *)
(* of five.                                                                *)
(***************************************************************************)
EXTENDS Integers, Sequences, FiniteSets, FiniteSetsExt, SequencesExt, Functions

Whole == 60
KeyWeight == 3
MinorWeight == 1

\* assessor._attribute: which sides state it decides, not what the model says.
Agreement(p) ==
  IF p.line # "" /\ p.item # "" THEN IF p.agrees THEN "match" ELSE "conflict"
  ELSE IF p.item # "" THEN "unstated" ELSE "unconfirmed"

\* A property neither side states is left out.
Attributes(assessment) == {p \in assessment.sees : p.line # "" \/ p.item # ""}

Viable(assessment) ==
  assessment.same /\ \A p \in Attributes(assessment) : Agreement(p) # "conflict"

\* Faulty: every candidate counted by itself, which leaves nothing open.
VariantsOfOne(assessments, name) == 1

\* _variants: how many values the candidates still in the running offer for a
\* property the line leaves open.
Variants(assessments, name) ==
  LET left(a) == {p \in Attributes(a) : p.name = name /\ Agreement(p) = "unstated"}
      offered(a) == {p.item : p \in left(a)}
  IN Max({1, Cardinality(UNION {offered(a) : a \in {b \in Range(assessments) : Viable(b)}})})

Weight(p) == IF p.key THEN KeyWeight ELSE MinorWeight

\* _credit
Credit(p, assessments) ==
  CASE Agreement(p) = "match" -> Whole
    [] Agreement(p) = "unstated" -> Whole \div Variants(assessments, p.name)
    [] Agreement(p) = "unconfirmed" -> Whole \div 2
    [] OTHER -> 0

\* _score: half for the right kind of product, half for its properties, rounded
\* half up.
Score(assessment, assessments) ==
  LET sees == Attributes(assessment)
      total == MapThenSumSet(Weight, sees)
      earned == MapThenSumSet(LAMBDA p : Weight(p) * Credit(p, assessments), sees)
  IN IF ~Viable(assessment) THEN 0
     ELSE IF sees = {} THEN 100
     ELSE (2 * (50 * total * Whole + 50 * earned) + total * Whole) \div (2 * total * Whole)

\* confidences: the candidates of one line, scored together.
Confidences(assessments) == [i \in DOMAIN assessments |-> Score(assessments[i], assessments)]

=============================================================================
