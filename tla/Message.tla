------------------------------- MODULE Message -------------------------------
(***************************************************************************)
(* What the rules call the newest message of an email: the body cut at the *)
(* first quoted message (domain/preprocessing/thread.py) and cleaned of    *)
(* banners, disclaimers and signatures (boilerplate.py), and the signals   *)
(* found in what is left (signals.py, domain/rules/hints.py).              *)
(*                                                                         *)
(* A line is the pattern it matches:                                       *)
(*   "blank"; "text", which matches none;                                  *)
(*   "priced"     a price, a quantity, a vessel: a value the stripper sees *)
(*   "reference"  an RFQ number, which is such a value as well             *)
(*   "unspaced"   one written 'RFQNo: ...', for signals.py a reference like *)
(*                any other, and no value: boilerplate.py wants `rfq` to be *)
(*                a word of its own                                        *)
(*   "due"        a quote due date, which is no value either               *)
(*   "urgent"     a marker of urgency                                      *)
(*   "divider", "message id", "wrote", "From", "Date", "Subject"           *)
(*   "caution"    the banner; "tail" a disclaimer; "sign off" a greeting   *)
(***************************************************************************)
EXTENDS Integers, Sequences, FiniteSets, FiniteSetsExt, SequencesExt, Functions

CONSTANTS
  ClusterGap,   \* _CLUSTER_GAP
  Lookahead,    \* _HEADER_LOOKAHEAD
  KeepLines,    \* _SIGNATURE_KEEP_LINES
  MinLatest,    \* MIN_LATEST_CHARS_FOR_VALID_SPLIT, in filled lines
  MinBody       \* fast_path.min_body_chars, in filled lines

ASSUME GapsAreNumbers == {ClusterGap, Lookahead, KeepLines, MinLatest, MinBody} \subseteq Nat

BannerLookahead == 3

Filled(lines) == Cardinality({i \in DOMAIN lines : lines[i] # "blank"})

From(lines, first) == SubSeq(lines, first, Len(lines))

\* What stands in the next few lines of a body.
Follows(body, i, reach) == {body[j] : j \in i + 1..Min({i + reach, Len(body)})}

\* _is_boundary: where a quoted message starts.
IsBoundary(body, i) ==
  \/ body[i] \in {"divider", "message id", "wrote"}
  \/ body[i] = "caution" /\ Follows(body, i, BannerLookahead) \cap {"message id", "From"} # {}
  \/ body[i] = "From" /\ {"Date", "Subject"} \subseteq Follows(body, i, Lookahead)

\* _boundaries: a banner, an id line and a From: line are one boundary, not three.
Boundaries(body) ==
  LET apart(starts, i) ==
        IF IsBoundary(body, i) /\ (starts = <<>> \/ i - Last(starts) > ClusterGap)
        THEN Append(starts, i) ELSE starts
  IN FoldLeftDomain(apart, <<>>, body)

\* split_thread.
SplitThread(body) ==
  LET starts == Boundaries(body)
      latest == IF starts = <<>> THEN body ELSE SubSeq(body, 1, starts[1] - 1)
      ends(k) == IF k < Len(starts) THEN starts[k + 1] - 1 ELSE Len(body)
  IN [latest   |-> latest,
      quoted   |-> [k \in DOMAIN starts |-> SubSeq(body, starts[k], ends(k))],
      warnings |-> IF starts # <<>> /\ Filled(latest) < MinLatest THEN {"suspicious split"} ELSE {}]

\* _VALUE_BEARING.
IsValue(line) == line \in {"priced", "reference"}

\* Faulty: whatever stands below a signature goes.
SignedOffAnyhow(lines) ==
  LET offs == {i \in DOMAIN lines : lines[i] = "sign off"}
      filledBetween(i, j) == Filled(SubSeq(lines, i + 1, j))
      ends(i) == Max({j \in i..Len(lines) : filledBetween(i, j) <= KeepLines
                                            /\ (j > i => filledBetween(i, j - 1) < KeepLines)})
  IN IF offs = {} THEN lines ELSE SubSeq(lines, 1, ends(Min(offs)))

\* _drop_signature: the first sign-off and the few filled lines that name the
\* sender stay; what stands below goes, unless it holds a value.
DropSignature(lines) ==
  LET offs == {i \in DOMAIN lines : lines[i] = "sign off"}
      filledBetween(i, j) == Filled(SubSeq(lines, i + 1, j))
      ends(i) == Max({j \in i..Len(lines) : filledBetween(i, j) <= KeepLines
                                            /\ (j > i => filledBetween(i, j - 1) < KeepLines)})
      below == From(lines, ends(Min(offs)) + 1)
  IN IF offs = {} \/ \E l \in Range(below) : IsValue(l) THEN lines
     ELSE SubSeq(lines, 1, ends(Min(offs)))

\* _drop_lines: every line but the banners.
Unbannered(lines) ==
  LET keep(kept, line) == IF line = "caution" THEN kept ELSE Append(kept, line)
  IN FoldLeft(keep, <<>>, lines)

\* strip_boilerplate: the banner lines, then everything from the first line of a
\* disclaimer, then the signature.
StripBoilerplate(lines) ==
  LET unbannered == Unbannered(lines)
      tails == {i \in DOMAIN unbannered : unbannered[i] = "tail"}
      untailed == IF tails = {} THEN unbannered ELSE SubSeq(unbannered, 1, Min(tails) - 1)
  IN DropSignature(untailed)

\* pipeline._read_thread.
ReadThread(body) ==
  LET split == SplitThread(body) IN [split EXCEPT !.latest = StripBoilerplate(@)]

\* extract_signals, as much of it as decides anything: over the subject and the
\* newest message.
SignalsOf(subject, thread) ==
  (Range(subject) \cup Range(thread.latest)) \cap {"reference", "unspaced", "due", "urgent"}
=============================================================================
