---------------------------- MODULE StagesProofs ----------------------------
(***************************************************************************)
(* What holds of the stages for every value of their constants, in the     *)
(* order they stand below: forwards, the email, files and their pictures,  *)
(* the IMO number, lines and their judge, header and form, the assessed    *)
(* scores, tables, and the list of items made of the files.                *)
(*                                                                         *)
(* Few of the properties are inductive.  A stage says something when it is *)
(* over, so each section carries an invariant that says, of every step,    *)
(* what has been said so far of what has been read so far: Accounted,      *)
(* VerdictInv, MatchingInv, Extracted, ScoringInv, ReadingInv and ToldInv. *)
(***************************************************************************)
EXTENDS Classification, Forward, Documents, Form, Matching, Cutting, Reading,
        FiniteSetTheorems, WellFoundedInduction, TLAPS

-----------------------------------------------------------------------------
(* The forward.  DeliveryIsAsReported is not inductive: that the mail the   *)
(* desk gets is whole when the form went with it needs a draft about to be  *)
(* sent to be whole, and that a stop leaves no second report needs the      *)
(* delivery to be pending exactly until the label is due.                   *)

ForwardTypes ==
  /\ carrying \in {"none", "inline", "upload"}
  /\ doing \in {"create", "attach", "session", "upload", "send", "discard", "forward", "label",
               "over"}
  /\ chunk \in Nat
  /\ drafted \in {"none", "bare", "whole", "sent"}
  /\ strays \in Nat /\ blames \in Nat /\ unheard \in Nat /\ handled \in Nat
  /\ repeats \in Nat
  /\ mails \in Seq({"whole", "plain"})
  /\ delivery \in {"pending", "stopped", "form", "plain", "failed"}

UnderWay ==
  /\ doing = "send" => drafted = "whole"
  /\ doing \in {"label", "over"} <=> delivery # "pending"

Reported ==
  /\ delivery = "form" => mails # <<>> /\ mails[Len(mails)] = "whole"
  /\ delivery = "plain" => mails # <<>> /\ mails[Len(mails)] = "plain"
  /\ Len(mails) <= unheard + repeats + (IF delivery \in {"form", "plain"} THEN 1 ELSE 0)
  /\ strays <= blames

ForwardInv == ForwardTypes /\ UnderWay /\ Reported

LEMMA ForwardStarts == ForwardInit => ForwardInv
BY ForwardBounds DEF ForwardInit, FirstRequest, ForwardInv, ForwardTypes, UnderWay, Reported

\* One more email, at the end of what the desk received.
LEMMA OneMoreMail ==
  ASSUME NEW m \in {"whole", "plain"}, mails \in Seq({"whole", "plain"})
  PROVE  LET longer == Append(mails, m)
         IN /\ longer \in Seq({"whole", "plain"}) /\ longer # <<>>
            /\ Len(longer) = Len(mails) + 1 /\ longer[Len(longer)] = m
OBVIOUS

LEMMA ForwardKept == ForwardInv /\ [ForwardNext]_forwarding => ForwardInv'
<1> SUFFICES ASSUME ForwardInv, [ForwardNext]_forwarding PROVE ForwardInv'
  OBVIOUS
<1> USE DEF ForwardInv, ForwardTypes, UnderWay, Reported
<1>1. CASE CreateDraft
  BY <1>1 DEF CreateDraft
<1>2. CASE AttachInline
  BY <1>2 DEF AttachInline
<1>3. CASE OpenSession
  BY <1>3 DEF OpenSession
<1>4. CASE UploadChunk
  BY <1>4 DEF UploadChunk
<1>5. CASE SendDraft
  <2>1. CASE UNCHANGED mails
    BY <1>5, <2>1 DEF SendDraft
  <2>2. CASE mails' = Append(mails, drafted)
    <3>1. drafted = "whole"
      BY <1>5 DEF SendDraft
    <3>2. /\ mails' \in Seq({"whole", "plain"}) /\ mails' # <<>>
          /\ Len(mails') = Len(mails) + 1 /\ mails'[Len(mails')] = "whole"
      BY <2>2, <3>1, OneMoreMail
    <3> QED
      BY <1>5, <3>2 DEF SendDraft
  <2> QED
    BY <1>5, <2>1, <2>2 DEF SendDraft
<1>6. CASE Discard
  BY <1>6 DEF Discard
<1>7. CASE ForwardPlain
  <2>1. CASE UNCHANGED mails
    BY <1>7, <2>1 DEF ForwardPlain
  <2>2. CASE mails' = Append(mails, "plain")
    <3>1. /\ mails' \in Seq({"whole", "plain"}) /\ mails' # <<>>
          /\ Len(mails') = Len(mails) + 1 /\ mails'[Len(mails')] = "plain"
      BY <2>2, OneMoreMail
    <3> QED
      BY <1>7, <3>1 DEF ForwardPlain
  <2> QED
    BY <1>7, <2>1, <2>2 DEF ForwardPlain
<1>8. CASE StopHere
  <2> DEFINE last == IF doing = "send" THEN drafted ELSE "plain"
  <2>1. CASE UNCHANGED mails
    BY <1>8, <2>1 DEF StopHere
  <2>2. CASE /\ doing \in {"send", "forward"}
             /\ mails' = Append(mails, last)
             /\ unheard' = unheard + 1 /\ UNCHANGED <<strays, blames>>
    <3>1. last \in {"whole", "plain"}
      BY <2>2
    <3>2. mails' \in Seq({"whole", "plain"}) /\ Len(mails') = Len(mails) + 1
      BY <2>2, <3>1, OneMoreMail
    <3> QED
      BY <1>8, <2>2, <3>2 DEF StopHere
  <2> QED
    BY <1>8, <2>1, <2>2 DEF StopHere
<1>9. CASE HandleAgain
  BY <1>9 DEF HandleAgain, FirstRequest
<1>10. CASE Label
  BY <1>10 DEF Label
<1>11. CASE UNCHANGED forwarding
  BY <1>11 DEF forwarding
<1> QED
  BY <1>1, <1>2, <1>3, <1>4, <1>5, <1>6, <1>7, <1>8, <1>9, <1>10, <1>11 DEF ForwardNext

LEMMA ForwardSays == ForwardInv => DeliveryIsAsReported
<1> SUFFICES ASSUME ForwardInv PROVE "bare" \notin Range(mails)
  BY DEF ForwardInv, Reported, DeliveryIsAsReported
<1> QED
  BY DEF ForwardInv, ForwardTypes, Range

\* However often a message is handled and whatever fails on the way, in however
\* many chunks the form travels, what a delivery reports is what the desk received.
THEOREM ForwardsAreReported == ForwardSpec => []DeliveryIsAsReported
<1>1. ForwardSpec => []ForwardInv
  BY ForwardStarts, ForwardKept, PTL DEF ForwardSpec
<1> QED
  BY <1>1, ForwardSays, PTL

-----------------------------------------------------------------------------
(* Numbers and folds.  A fold is a recursive function over the sets of      *)
(* positions, of which the definition says nothing until a function is shown *)
(* to satisfy it; what it holds is then an induction over the positions.    *)

\* Among some natural numbers one is the least.
LEMMA LeastNumber ==
  ASSUME NEW T \in SUBSET Nat, T # {}
  PROVE  \E n \in T : \A m \in T : n <= m
<1>1. PICK n \in T : \A m \in T : ~ (<<m, n>> \in OpToRel(<, Nat))
  BY NatLessThanWellFounded, WFMin
<1>2. ASSUME NEW m \in T, m < n PROVE FALSE
  <2>1. <<m, n>> \in Nat \X Nat /\ <<m, n>>[1] < <<m, n>>[2]
    BY <1>2
  <2>2. <<m, n>> \in OpToRel(<, Nat)
    BY <2>1, Zenon DEF OpToRel
  <2>3. QED
    BY <1>1, <2>2
<1>3. QED
  BY <1>2

\* A set that holds 0, and with each number up to n the next one, holds 0..n.
LEMMA CountingUp ==
  ASSUME NEW n \in Nat, NEW T, 0 \in T, \A k \in 0..n : k \in T /\ k < n => k + 1 \in T
  PROVE  0..n \subseteq T
<1> DEFINE missing == (0..n) \ T
<1> SUFFICES ASSUME missing # {} PROVE FALSE
  OBVIOUS
<1>1. missing \in SUBSET Nat
  OBVIOUS
<1>2. PICK k \in missing : \A m \in missing : k <= m
  <2> HIDE DEF missing
  <2> QED
    BY <1>1, LeastNumber
<1>3. k \in 1..n /\ k - 1 \in 0..n /\ k - 1 \notin missing
  BY <1>2
<1>4. k - 1 \in T /\ k - 1 < n /\ (k - 1) + 1 = k
  BY <1>3
<1> QED
  BY <1>2, <1>3, <1>4

\* The greatest of some positions.
LEMMA Greatest ==
  ASSUME NEW n \in Nat, NEW S \in SUBSET (1..n), S # {}
  PROVE  Max(S) \in S /\ \A y \in S : y <= Max(S)
<1> DEFINE T == {d \in 0..n : n - d \in S}
<1>1. T \in SUBSET Nat
  OBVIOUS
<1>2. T # {}
  <2>1. PICK x \in S : TRUE
    OBVIOUS
  <2>2. n - x \in 0..n /\ n - (n - x) = x
    BY <2>1
  <2> QED
    BY <2>1, <2>2
<1>3. PICK d \in T : \A m \in T : d <= m
  <2> HIDE DEF T
  <2> QED
    BY <1>1, <1>2, LeastNumber
<1>4. n - d \in S
  BY <1>3
<1>5. ASSUME NEW y \in S PROVE n - d >= y
  <2>1. n - y \in 0..n /\ n - (n - y) = y
    OBVIOUS
  <2>2. n - y \in T
    BY <2>1
  <2>3. d <= n - y /\ d \in 0..n /\ y \in 1..n
    BY <1>3, <2>2
  <2> QED
    BY <2>3
<1>6. Max(S) = CHOOSE x \in S : \A y \in S : x >= y
  BY DEF Max
<1>7. Max(S) \in S /\ \A y \in S : Max(S) >= y
  BY <1>4, <1>5, <1>6
<1> QED
  BY <1>7

\* The greatest of positions up to k, k among them.
LEMMA TopOf ==
  ASSUME NEW k \in Nat, NEW s \in SUBSET (1..k), k \in s
  PROVE  Max(s) = k
<1>1. Max(s) \in s /\ \A y \in s : y <= Max(s)
  BY Greatest
<1>2. Max(s) \in 1..k /\ k <= Max(s)
  BY <1>1
<1> QED
  BY <1>2

\* The recursion a fold over n elements is defined by.
FoldsBy(iter, n, base, next) ==
  \A s \in SUBSET (1..n) :
    iter[s] = IF s = {} THEN base ELSE next[Max(s)][iter[s \ {Max(s)}]]

\* That recursion has a solution.
LEMMA FoldsExist ==
  ASSUME NEW n \in Nat, NEW G, NEW base \in G, NEW next \in [1..n -> [G -> G]]
  PROVE  \E iter \in [SUBSET (1..n) -> G] : FoldsBy(iter, n, base, next)
<1> DEFINE Solves(iter, k) == \A s \in SUBSET (1..k) :
             iter[s] = IF s = {} THEN base ELSE next[Max(s)][iter[s \ {Max(s)}]]
           T == {k \in 0..n : \E iter \in [SUBSET (1..k) -> G] : Solves(iter, k)}
<1>1. 0 \in T
  <2>0. 1..0 = {} /\ 0 \in 0..n
    OBVIOUS
  <2>1. [s \in SUBSET (1..0) |-> base] \in [SUBSET (1..0) -> G]
    OBVIOUS
  <2>2. Solves([s \in SUBSET (1..0) |-> base], 0)
    OBVIOUS
  <2>3. \E iter \in [SUBSET (1..0) -> G] : Solves(iter, 0)
    BY <2>1, <2>2
  <2> HIDE DEF Solves
  <2> QED
    BY <2>0, <2>3
<1>2. ASSUME NEW k \in 0..n, k \in T, k < n PROVE k + 1 \in T
  <2>1. PICK f \in [SUBSET (1..k) -> G] : Solves(f, k)
    BY <1>2
  <2> DEFINE g == [s \in SUBSET (1..(k + 1)) |->
                     IF k + 1 \in s THEN next[k + 1][f[s \ {k + 1}]] ELSE f[s]]
  <2>2. \A s \in SUBSET (1..(k + 1)) : s \ {k + 1} \in SUBSET (1..k)
    OBVIOUS
  <2>3. \A s \in SUBSET (1..(k + 1)) : k + 1 \notin s => s \in SUBSET (1..k)
    OBVIOUS
  <2>4. ASSUME NEW s \in SUBSET (1..(k + 1)) PROVE g[s] \in G
    <3>1. CASE k + 1 \in s
      <4>1. f[s \ {k + 1}] \in G /\ k + 1 \in 1..n
        BY <2>1, <2>2, <1>2
      <4>2. next[k + 1][f[s \ {k + 1}]] \in G
        BY <4>1
      <4> QED
        BY <3>1, <4>2
    <3>2. CASE k + 1 \notin s
      BY <2>1, <2>3, <3>2
    <3> QED
      BY <3>1, <3>2
  <2>5. g \in [SUBSET (1..(k + 1)) -> G]
    BY <2>4
  <2>6. ASSUME NEW s \in SUBSET (1..(k + 1))
        PROVE  g[s] = IF s = {} THEN base ELSE next[Max(s)][g[s \ {Max(s)}]]
    <3>1. CASE s = {}
      BY <2>1, <3>1
    <3>2. CASE k + 1 \in s
      <4>1. Max(s) = k + 1
        <5>1. k + 1 \in Nat
          BY <1>2
        <5> HIDE DEF T, g
        <5> QED
          BY <3>2, <5>1, TopOf
      <4>2. s \ {k + 1} \in SUBSET (1..(k + 1)) /\ k + 1 \notin s \ {k + 1}
        OBVIOUS
      <4>3. g[s \ {k + 1}] = f[s \ {k + 1}]
        BY <4>2
      <4> QED
        BY <3>2, <4>1, <4>3
    <3>3. CASE s # {} /\ k + 1 \notin s
      <4>1. s \in SUBSET (1..k)
        BY <2>3, <3>3
      <4>2. Max(s) \in s
        <5>1. k \in Nat
          BY <1>2
        <5> HIDE DEF T
        <5> QED
          BY <3>3, <4>1, <5>1, Greatest
      <4>3. s \ {Max(s)} \in SUBSET (1..(k + 1)) /\ k + 1 \notin s \ {Max(s)}
        BY <3>3
      <4>4. g[s] = f[s] /\ g[s \ {Max(s)}] = f[s \ {Max(s)}]
        BY <3>3, <4>3
      <4> QED
        BY <2>1, <3>3, <4>1, <4>4
    <3> QED
      BY <3>1, <3>2, <3>3
  <2>7. Solves(g, k + 1)
    BY <2>6
  <2>8. k + 1 \in 0..n
    BY <1>2
  <2>9. \E iter \in [SUBSET (1..(k + 1)) -> G] : Solves(iter, k + 1)
    <3> HIDE DEF g, Solves
    <3> QED
      BY <2>5, <2>7
  <2> HIDE DEF g, Solves
  <2> QED
    BY <2>8, <2>9
<1>3. 0..n \subseteq T
  <2> HIDE DEF T
  <2> QED
    BY <1>1, <1>2, CountingUp
<1>4. n \in T
  <2>1. n \in 0..n
    OBVIOUS
  <2> HIDE DEF T
  <2> QED
    BY <1>3, <2>1
<1>5. PICK iter \in [SUBSET (1..n) -> G] : Solves(iter, n)
  BY <1>4
<1>6. FoldsBy(iter, n, base, next)
  BY <1>5 DEF FoldsBy
<1> QED
  BY <1>6

\* The smaller of two numbers.
LEMMA LeastOfTwo ==
  ASSUME NEW a \in Int, NEW b \in Int
  PROVE  Min({a, b}) = IF a <= b THEN a ELSE b
<1>1. Min({a, b}) = CHOOSE x \in {a, b} : \A y \in {a, b} : x <= y
  BY DEF Min
<1>2. \E x \in {a, b} : \A y \in {a, b} : x <= y
  OBVIOUS
<1>3. Min({a, b}) \in {a, b} /\ \A y \in {a, b} : Min({a, b}) <= y
  BY <1>1, <1>2
<1> QED
  BY <1>3

\* The sums of the first k numbers of a list, for every k.
Adds(sums, n, f) == sums[0] = 0 /\ \A k \in 1..n : sums[k] = sums[k - 1] + f[k]

\* A total is the last of those sums.
LEMMA TotalAdds ==
  ASSUME NEW n \in Nat, NEW f \in [1..n -> Int]
  PROVE  \E sums \in [0..n -> Int] : Adds(sums, n, f) /\ Total(f) = sums[n]
<1> DEFINE next == [k \in 1..n |-> [a \in Int |-> a + f[k]]]
           Folds(iter) == iter = [s \in SUBSET (1..n) |->
                            IF s = {} THEN 0 ELSE iter[s \ {Max(s)}] + f[Max(s)]]
<1>1. next \in [1..n -> [Int -> Int]]
  OBVIOUS
<1>2. PICK g \in [SUBSET (1..n) -> Int] : FoldsBy(g, n, 0, next)
  <2>1. \E g \in [SUBSET (1..n) -> Int] : FoldsBy(g, n, 0, next)
    <3> DEFINE base == 0
    <3>1. base \in Int
      OBVIOUS
    <3>2. \E g \in [SUBSET (1..n) -> Int] : FoldsBy(g, n, base, next)
      <4> HIDE DEF next, base
      <4> QED
        BY <1>1, <3>1, FoldsExist
    <3> QED
      BY <3>2
  <2> QED
    BY <2>1
<1>3. \A s \in SUBSET (1..n) : s # {} => Max(s) \in 1..n
  BY Greatest
<1>4. Folds(g)
  <2>1. \A s \in SUBSET (1..n) : s # {} => g[s] = g[s \ {Max(s)}] + f[Max(s)]
    <3> SUFFICES ASSUME NEW s \in SUBSET (1..n), s # {} PROVE g[s] = g[s \ {Max(s)}] + f[Max(s)]
      OBVIOUS
    <3>1. Max(s) \in 1..n /\ s \ {Max(s)} \in SUBSET (1..n)
      BY <1>3
    <3>2. g[s \ {Max(s)}] \in Int
      BY <3>1
    <3>3. g[s] = next[Max(s)][g[s \ {Max(s)}]]
      BY <1>2 DEF FoldsBy
    <3> QED
      BY <3>1, <3>2, <3>3
  <2>2. g[{}] = 0
    BY <1>2 DEF FoldsBy
  <2> HIDE DEF next
  <2> QED
    BY <2>1, <2>2
<1> DEFINE iter == CHOOSE iter : Folds(iter)
<1>5. Folds(iter)
  <2> HIDE DEF Folds
  <2> QED
    BY <1>4
<1>6. Total(f) = iter[1..n]
  BY DEF Total, FoldLeft, MapThenFoldSet
<1> HIDE DEF iter
<1>7. ASSUME NEW k \in 1..n PROVE iter[1..k] = iter[1..(k - 1)] + f[k]
  <2> DEFINE s == 1..k
  <2>1. k \in Nat /\ s \in SUBSET (1..k) /\ k \in s /\ s \in SUBSET (1..n) /\ s # {}
    OBVIOUS
  <2>2. Max(s) = k
    <3> HIDE DEF s
    <3> QED
      BY <2>1, TopOf
  <2>3. s \ {k} = 1..(k - 1)
    OBVIOUS
  <2>4. iter[s] = iter[s \ {Max(s)}] + f[Max(s)]
    <3> HIDE DEF s
    <3> QED
      BY <1>5, <2>1
  <2> QED
    BY <2>2, <2>3, <2>4
<1>8. iter[1..0] = 0
  BY <1>5
<1> DEFINE T == {k \in 0..n : iter[1..k] \in Int}
<1>9. 0..n \subseteq T
  <2>1. 0 \in T
    BY <1>8
  <2>2. ASSUME NEW k \in 0..n, k \in T, k < n PROVE k + 1 \in T
    <3>1. k + 1 \in 1..n /\ (k + 1) - 1 = k
      BY <2>2
    <3> HIDE DEF Folds
    <3>2. iter[1..(k + 1)] = iter[1..k] + f[k + 1]
      BY <1>7, <3>1
    <3> QED
      BY <2>2, <3>1, <3>2
  <2> HIDE DEF T
  <2> QED
    BY <2>1, <2>2, CountingUp
<1> DEFINE sums == [k \in 0..n |-> iter[1..k]]
<1>10. sums \in [0..n -> Int]
  BY <1>9
<1>11. Adds(sums, n, f)
  <2>1. ASSUME NEW k \in 1..n PROVE sums[k] = sums[k - 1] + f[k]
    <3>1. k \in 0..n /\ k - 1 \in 0..n
      OBVIOUS
    <3> HIDE DEF Folds
    <3> QED
      BY <1>7, <3>1
  <2>2. sums[0] = 0
    BY <1>8
  <2> HIDE DEF Folds, sums, T
  <2> QED
    BY <2>1, <2>2 DEF Adds
<1>12. Total(f) = sums[n]
  BY <1>6
<1> QED
  BY <1>10, <1>11, <1>12

LEMMA TotalsAreNumbers ==
  ASSUME NEW n \in Nat, NEW f \in [1..n -> Int]
  PROVE  Total(f) \in Int
BY TotalAdds

\* There is only one list of sums.
LEMMA SumsAgree ==
  ASSUME NEW n \in Nat, NEW f, NEW a, NEW b, Adds(a, n, f), Adds(b, n, f)
  PROVE  \A k \in 0..n : a[k] = b[k]
<1> DEFINE T == {k \in 0..n : a[k] = b[k]}
<1>1. 0 \in T
  BY DEF Adds
<1>2. ASSUME NEW k \in 0..n, k \in T, k < n PROVE k + 1 \in T
  <2>1. k + 1 \in 1..n /\ (k + 1) - 1 = k
    BY <1>2
  <2> QED
    BY <1>2, <2>1 DEF Adds
<1>3. 0..n \subseteq T
  <2> HIDE DEF T
  <2> QED
    BY <1>1, <1>2, CountingUp
<1> QED
  BY <1>3

SumsOf(sums, n, f) == n \in Nat /\ f \in [1..n -> Int] /\ Adds(sums, n, f)

TheFirst(f, m) == [j \in 1..m |-> f[j]]

\* The total of the first numbers of a list is the sum of that many.
LEMMA TotalOfFirst ==
  ASSUME NEW n, NEW f, NEW sums, SumsOf(sums, n, f), NEW m \in 0..n
  PROVE  Total(TheFirst(f, m)) = sums[m]
<1> USE DEF SumsOf
<1> DEFINE first == TheFirst(f, m)
<1>1. m \in Nat /\ first \in [1..m -> Int] /\ m \in 0..m
  BY DEF TheFirst
<1>2. \A k \in 1..m : first[k] = f[k] /\ k \in 1..n
  BY DEF TheFirst
<1> HIDE DEF first
<1>3. PICK some \in [0..m -> Int] : Adds(some, m, first) /\ Total(first) = some[m]
  BY <1>1, TotalAdds
<1>4. Adds(sums, m, first)
  BY <1>2 DEF Adds
<1>5. some[m] = sums[m]
  BY <1>1, <1>3, <1>4, SumsAgree
<1> QED
  BY <1>3, <1>5 DEF first

-----------------------------------------------------------------------------
(* The email.  An RFQ stays in sight from the body to the verdict: what is  *)
(* written above every cut is in the newest message, what is in it stays    *)
(* when it is cleaned, and what stays is a signal the policy acts on.       *)

\* The least of some positions.
LEMMA LeastPosition ==
  ASSUME NEW n \in Nat, NEW S \in SUBSET (1..n), S # {}
  PROVE  Min(S) \in S /\ \A y \in S : Min(S) <= y
<1>1. S \in SUBSET Nat
  OBVIOUS
<1>2. \E x \in S : \A y \in S : x <= y
  BY <1>1, LeastNumber
<1>3. Min(S) = CHOOSE x \in S : \A y \in S : x <= y
  BY DEF Min
<1> QED
  BY <1>2, <1>3

\* A fold, one element after the other.
LEMMA StepByStep ==
  ASSUME NEW n \in Nat, NEW iter, NEW base, NEW next, FoldsBy(iter, n, base, next)
  PROVE  /\ iter[1..0] = base
         /\ \A k \in 1..n : iter[1..k] = next[k][iter[1..(k - 1)]]
<1>1. iter[1..0] = base
  <2>1. 1..0 = {} /\ {} \in SUBSET (1..n)
    OBVIOUS
  <2> QED
    BY <2>1 DEF FoldsBy
<1>2. ASSUME NEW k \in 1..n PROVE iter[1..k] = next[k][iter[1..(k - 1)]]
  <2> DEFINE s == 1..k
  <2>1. s \in SUBSET (1..n) /\ s # {} /\ k \in s /\ k \in Nat /\ s \in SUBSET (1..k)
    OBVIOUS
  <2>2. s \ {k} = 1..(k - 1)
    OBVIOUS
  <2> HIDE DEF s
  <2>3. Max(s) = k
    BY <2>1, TopOf
  <2>4. iter[s] = next[k][iter[s \ {k}]]
    BY <2>1, <2>3 DEF FoldsBy
  <2> QED
    BY <2>2, <2>4 DEF s
<1> QED
  BY <1>1, <1>2

\* The first positions and one more.
LEMMA OneMorePosition ==
  ASSUME NEW n \in Nat, NEW k \in Nat, k < n
  PROVE  LET m == k + 1 IN
         /\ m \in Nat /\ m \in 1..n /\ m \in 0..n /\ m \in 1..m /\ 1..m # {}
         /\ 1..m \in SUBSET (1..m) /\ 1..m \in SUBSET (1..n) /\ (1..m) \ {m} = 1..k
<1> DEFINE m == k + 1
<1>1. m \in Nat /\ m \in 1..n /\ m \in 0..n /\ m \in 1..m
  OBVIOUS
<1>2. 1..m \subseteq 1..n
  OBVIOUS
<1>3. \A j \in Int : j \in 1..m /\ j # m <=> j \in 1..k
  OBVIOUS
<1>4. 1..m \subseteq Int /\ 1..k \subseteq Int
  OBVIOUS
<1> HIDE DEF m
<1>5. (1..m) \ {m} = 1..k
  BY <1>3, <1>4
<1> QED
  BY <1>1, <1>2, <1>5 DEF m

\* Where the quoted messages of the first k lines start: at the first boundary,
\* and at some more of them.
Begins(starts, body, k) ==
  /\ starts \in Seq(1..Len(body))
  /\ starts = <<>> => \A i \in 1..k : ~IsBoundary(body, i)
  /\ starts # <<>> => /\ starts[1] <= k
                      /\ IsBoundary(body, starts[1])
                      /\ \A i \in 1..k : IsBoundary(body, i) => starts[1] <= i

\* _boundaries, one line more.
Apart(body, starts, i) ==
  IF IsBoundary(body, i) /\ (starts = <<>> \/ i - Last(starts) > ClusterGap)
  THEN Append(starts, i) ELSE starts

LEMMA ApartSays ==
  ASSUME NEW body, Len(body) \in Nat, NEW k \in Nat, k + 1 <= Len(body),
         NEW starts, Begins(starts, body, k)
  PROVE  Begins(Apart(body, starts, k + 1), body, k + 1)
<1> DEFINE m == k + 1
           n == Len(body)
           after == Apart(body, starts, m)
<1> SUFFICES Begins(after, body, m)
  OBVIOUS
<1>1. m \in 1..n /\ \A i \in 1..m : i \in 1..k \/ i = m
  OBVIOUS
<1>2. starts \in Seq(1..n)
  BY DEF Begins
<1>3. CASE after = starts /\ (starts = <<>> => ~IsBoundary(body, m))
  <2>1. starts # <<>> => starts[1] <= k /\ starts[1] \in 1..n
    BY <1>2 DEF Begins
  <2>2. starts # <<>> => starts[1] <= m
    BY <2>1
  <2> HIDE DEF m, n, after
  <2>3. \A i \in 1..m : IsBoundary(body, i) => starts # <<>> /\ starts[1] <= i
    <3>1. ASSUME NEW i \in 1..m, IsBoundary(body, i) PROVE starts # <<>> /\ starts[1] <= i
      <4>1. CASE i = m
        BY <1>3, <2>2, <3>1, <4>1
      <4>2. CASE i \in 1..k
        BY <3>1, <4>2 DEF Begins
      <4> QED
        BY <1>1, <4>1, <4>2
    <3> QED
      BY <3>1
  <2>4. starts # <<>> => IsBoundary(body, starts[1])
    BY DEF Begins
  <2>5. starts = <<>> => \A i \in 1..m : ~IsBoundary(body, i)
    BY <2>3
  <2>6. starts # <<>> => \A i \in 1..m : IsBoundary(body, i) => starts[1] <= i
    BY <2>3
  <2>7. Begins(starts, body, m)
    BY <1>2, <2>2, <2>4, <2>5, <2>6 DEF Begins, n
  <2> QED
    BY <1>3, <2>7
<1>4. CASE after = Append(starts, m) /\ IsBoundary(body, m)
  <2>1. after \in Seq(1..n) /\ after # <<>>
    <3> HIDE DEF n, m
    <3> QED
      BY <1>1, <1>2, <1>4
  <2>2. CASE starts = <<>>
    <3>1. after[1] = m
      BY <1>4, <2>2
    <3>2. \A i \in 1..m : IsBoundary(body, i) => m <= i
      BY <2>2 DEF Begins
    <3> HIDE DEF m, n, after
    <3>3. after[1] <= m
      BY <1>1, <3>1
    <3> QED
      BY <1>4, <2>1, <3>1, <3>2, <3>3 DEF Begins, n
  <2>3. CASE starts # <<>>
    <3>1. after[1] = starts[1] /\ starts[1] \in 1..n
      BY <1>2, <1>4, <2>3
    <3>2. starts[1] <= k /\ IsBoundary(body, starts[1])
          /\ \A i \in 1..k : IsBoundary(body, i) => starts[1] <= i
      BY <2>3 DEF Begins
    <3>3. starts[1] <= m
      BY <3>1, <3>2
    <3> HIDE DEF m, n, after
    <3> QED
      BY <1>1, <2>1, <3>1, <3>2, <3>3 DEF Begins, n
  <2> QED
    BY <2>2, <2>3
<1>5. \/ after = starts /\ (starts = <<>> => ~IsBoundary(body, m))
      \/ after = Append(starts, m) /\ IsBoundary(body, m)
  BY DEF Apart
<1> HIDE DEF after
<1> QED
  BY <1>3, <1>4, <1>5 DEF after

\* The first boundary is where the first quoted message starts.
LEMMA BoundariesBegin ==
  ASSUME NEW body, body \in Seq(Range(body))
  PROVE  Begins(Boundaries(body), body, Len(body))
<1> DEFINE n == Len(body)
           G == Seq(1..n)
           positions == [i \in DOMAIN body |-> i]
           next == [i \in 1..n |-> [starts \in G |-> Apart(body, starts, i)]]
           Folds(f) == f = [s \in SUBSET DOMAIN positions |->
                         IF s = {} THEN <<>>
                         ELSE Apart(body, f[s \ {Max(s)}], positions[Max(s)])]
           iter == CHOOSE f : Folds(f)
           T == {k \in 0..n : Begins(iter[1..k], body, k)}
<1>1. n \in Nat /\ DOMAIN body = 1..n /\ DOMAIN positions = 1..n
  OBVIOUS
<1>2. <<>> \in G
  OBVIOUS
<1>3. next \in [1..n -> [G -> G]]
  <2>1. ASSUME NEW i \in 1..n, NEW starts \in G PROVE Apart(body, starts, i) \in G
    <3>1. Append(starts, i) \in G
      BY <2>1
    <3>2. Apart(body, starts, i) \in {starts, Append(starts, i)}
      BY DEF Apart
    <3> HIDE DEF G
    <3> QED
      BY <2>1, <3>1, <3>2
  <2> HIDE DEF G, n
  <2> QED
    BY <2>1
<1>4. \E g \in [SUBSET (1..n) -> G] : FoldsBy(g, n, <<>>, next)
  <2> DEFINE base == <<>>
  <2>1. base \in G
    OBVIOUS
  <2>2. \E g \in [SUBSET (1..n) -> G] : FoldsBy(g, n, base, next)
    <3> HIDE DEF next, base, G, n
    <3> QED
      BY <1>1, <1>3, <2>1, FoldsExist
  <2> QED
    BY <2>2
<1>5. PICK g \in [SUBSET (1..n) -> G] : FoldsBy(g, n, <<>>, next)
  BY <1>4
<1>6. \A s \in SUBSET (1..n) : s # {} => Max(s) \in 1..n /\ s \ {Max(s)} \in SUBSET (1..n)
  <2> HIDE DEF n
  <2> QED
    BY <1>1, Greatest
<1>7. Folds(g)
  <2>1. ASSUME NEW s \in SUBSET (1..n), s # {}
        PROVE  g[s] = Apart(body, g[s \ {Max(s)}], positions[Max(s)])
    <3>1. Max(s) \in 1..n /\ s \ {Max(s)} \in SUBSET (1..n)
      BY <1>6, <2>1
    <3>2. g[s \ {Max(s)}] \in G /\ positions[Max(s)] = Max(s)
      BY <1>1, <1>5, <3>1
    <3>3. g[s] = next[Max(s)][g[s \ {Max(s)}]]
      BY <1>5, <2>1 DEF FoldsBy
    <3> HIDE DEF G, positions, n
    <3> QED
      BY <3>1, <3>2, <3>3
  <2>2. g[{}] = <<>>
    BY <1>5 DEF FoldsBy
  <2>3. DOMAIN g = SUBSET DOMAIN positions /\ g = [s \in SUBSET (1..n) |-> g[s]]
    BY <1>1, <1>5
  <2> HIDE DEF positions, G, n, next
  <2> QED
    BY <1>1, <2>1, <2>2, <2>3
<1>8. Folds(iter)
  <2> HIDE DEF Folds
  <2> QED
    BY <1>7
<1>9. Boundaries(body) = iter[1..n]
  BY <1>1 DEF Boundaries, FoldLeftDomain, FoldLeft, MapThenFoldSet, Apart
<1>10. 0 \in T
  <2>1. 1..0 = {} /\ {} \in SUBSET (1..n) /\ 0 \in 0..n
    BY <1>1
  <2>2. iter[1..0] = <<>>
    <3> HIDE DEF iter, positions, n
    <3> QED
      BY <1>1, <1>8, <2>1
  <2>3. Begins(<<>>, body, 0)
    BY DEF Begins
  <2> HIDE DEF iter, n
  <2> QED
    BY <2>1, <2>2, <2>3
<1>11. ASSUME NEW k \in 0..n, k \in T, k < n PROVE k + 1 \in T
  <2> DEFINE m == k + 1
             s == 1..m
  <2>1. /\ m \in 1..n /\ m \in 0..n /\ s \in SUBSET (1..n) /\ s # {} /\ s \ {m} = 1..k
        /\ m \in Nat /\ s \in SUBSET (1..m) /\ m \in s
    <3>1. n \in Nat /\ k \in Nat /\ k < n
      BY <1>1, <1>11
    <3> HIDE DEF n, T
    <3> QED
      BY <3>1, OneMorePosition
  <2> HIDE DEF s
  <2>2. Max(s) = m
    <3> HIDE DEF m, iter, T, n
    <3> QED
      BY <2>1, TopOf
  <2>3. iter[s] = Apart(body, iter[1..k], positions[m])
    <3> HIDE DEF iter, n, m, positions
    <3> QED
      BY <1>1, <1>8, <2>1, <2>2
  <2>4. positions[m] = m
    BY <1>1, <2>1
  <2>5. Begins(iter[1..k], body, k) /\ k \in Nat /\ k + 1 <= Len(body) /\ Len(body) \in Nat
    BY <1>1, <1>11
  <2>6. Begins(Apart(body, iter[1..k], k + 1), body, k + 1)
    <3> HIDE DEF iter, n
    <3> QED
      BY <2>5, ApartSays
  <2> HIDE DEF iter, n, positions
  <2> QED
    BY <2>1, <2>3, <2>4, <2>6 DEF s
<1>12. 0..n \subseteq T
  <2> HIDE DEF T, n
  <2> QED
    BY <1>1, <1>10, <1>11, CountingUp
<1>13. n \in 0..n
  BY <1>1
<1> HIDE DEF iter
<1> QED
  BY <1>9, <1>12, <1>13

\* A line with the mark that stands above everything that may cut it off.
InSight(text, mark) ==
  \E p \in DOMAIN text : text[p] = mark /\ \A j \in 1..p : text[j] \notin Cuts(mark)

\* What the sender wrote out is in the newest message.
LEMMA WrittenIsLatest ==
  ASSUME NEW body, body \in Seq(Range(body)), NEW mark, mark \in Range(Written(body, mark))
  PROVE  /\ InSight(SplitThread(body).latest, mark)
         /\ SplitThread(body).latest \in Seq(Range(body))
<1> DEFINE n == Len(body)
           starts == Boundaries(body)
           ends == {i \in DOMAIN body : IsBoundary(body, i) \/ body[i] \in Cuts(mark)}
           latest == SplitThread(body).latest
<1>1. n \in Nat /\ DOMAIN body = 1..n
  OBVIOUS
<1>2. latest = IF starts = <<>> THEN body ELSE SubSeq(body, 1, starts[1] - 1)
  BY DEF SplitThread
<1>3. \E p \in 1..n : body[p] = mark /\ \A j \in 1..p : j \notin ends
  <2>1. CASE ends = {}
    <3>1. Written(body, mark) = body
      BY <2>1 DEF Written
    <3>2. PICK p \in 1..n : body[p] = mark
      BY <1>1, <3>1 DEF Range
    <3> QED
      BY <2>1, <3>2
  <2>2. CASE ends # {}
    <3> DEFINE e == Min(ends)
               above == SubSeq(body, 1, e - 1)
    <3>1. Written(body, mark) = above
      BY <2>2 DEF Written
    <3>2. e \in ends /\ \A j \in ends : e <= j
      <4>1. ends \in SUBSET (1..n)
        BY <1>1
      <4> HIDE DEF ends, n
      <4> QED
        BY <1>1, <2>2, <4>1, LeastPosition
    <3>3. e \in 1..n
      BY <1>1, <3>2
    <3> HIDE DEF e, n, ends
    <3>4. DOMAIN above = 1..(e - 1) /\ \A j \in 1..(e - 1) : above[j] = body[j]
      BY <1>1, <3>3 DEF n
    <3>5. PICK p \in 1..(e - 1) : body[p] = mark
      BY <3>1, <3>4 DEF Range
    <3>6. \A j \in 1..p : j \notin ends
      BY <3>2, <3>3, <3>5
    <3>7. p \in 1..n
      BY <1>1, <3>3, <3>5
    <3> QED
      BY <3>5, <3>6, <3>7
  <2> QED
    BY <2>1, <2>2
<1>4. PICK p \in 1..n : body[p] = mark /\ \A j \in 1..p : j \notin ends
  BY <1>3
<1>5. \A j \in 1..p : ~IsBoundary(body, j) /\ body[j] \notin Cuts(mark)
  <2>1. \A j \in 1..p : j \in DOMAIN body
    <3> HIDE DEF ends, n
    <3> QED
      BY <1>1, <1>4
  <2> QED
    BY <1>4, <2>1
<1> HIDE DEF latest
<1>6. CASE starts = <<>>
  <2>1. latest = body
    BY <1>2, <1>6
  <2> HIDE DEF n, ends, starts
  <2> QED
    BY <1>1, <1>4, <1>5, <2>1 DEF InSight, latest
<1>7. CASE starts # <<>>
  <2> DEFINE b == starts[1] - 1
  <2>1. starts[1] \in 1..n /\ IsBoundary(body, starts[1])
    <3>1. Begins(starts, body, n)
      BY BoundariesBegin
    <3> HIDE DEF starts
    <3> QED
      BY <1>7, <3>1 DEF Begins
  <2>2. p <= b /\ b \in 0..n
    <3>1. ~(starts[1] <= p)
      <4> HIDE DEF starts, ends, n
      <4> QED
        BY <1>1, <1>5, <2>1
    <3> HIDE DEF starts, ends, n
    <3> QED
      BY <1>1, <1>4, <2>1, <3>1
  <2>3. latest = SubSeq(body, 1, b)
    BY <1>2, <1>7
  <2> HIDE DEF b, n, ends, starts
  <2>4. DOMAIN latest = 1..b /\ \A j \in 1..b : latest[j] = body[j]
    BY <1>1, <2>2, <2>3 DEF n
  <2>5. latest \in Seq(Range(body))
    <3>1. \A j \in 1..b : j \in 1..n
      BY <1>1, <2>2
    <3>2. \A j \in 1..b : latest[j] \in Range(body)
      BY <1>1, <2>4, <3>1 DEF Range
    <3> QED
      BY <1>1, <2>2, <2>3, <2>4, <3>2 DEF n
  <2>6. p \in 1..b /\ \A j \in 1..p : j \in 1..b
    BY <1>1, <1>4, <2>2
  <2>7. InSight(latest, mark)
    BY <1>4, <1>5, <2>4, <2>6 DEF InSight
  <2> QED
    BY <2>5, <2>7 DEF latest
<1> QED
  BY <1>6, <1>7

\* One line less or more of the newest message, as _drop_lines leaves it.
Keep(kept, line) == IF line = "caution" THEN kept ELSE Append(kept, line)

\* What is left of the first k lines, one with the mark standing at p.
SightKept(kept, k, p, mark) ==
  IF k < p THEN \A j \in DOMAIN kept : kept[j] \notin Cuts(mark) ELSE InSight(kept, mark)

LEMMA KeepSays ==
  ASSUME NEW R, NEW kept \in Seq(R), NEW line \in R, NEW k \in Nat, NEW p \in Nat,
         NEW mark, mark # "caution", SightKept(kept, k, p, mark),
         k + 1 <= p => line \notin Cuts(mark), k + 1 = p => line = mark
  PROVE  SightKept(Keep(kept, line), k + 1, p, mark) /\ Keep(kept, line) \in Seq(R)
<1> DEFINE m == Len(kept) + 1
           longer == Append(kept, line)
           after == Keep(kept, line)
<1>1. /\ longer \in Seq(R) /\ DOMAIN longer = 1..m /\ longer[m] = line /\ m \in Nat
      /\ m \in 1..m
      /\ DOMAIN kept = 1..(m - 1) /\ \A j \in 1..(m - 1) : longer[j] = kept[j]
  OBVIOUS
<1>2. after = longer \/ (after = kept /\ line = "caution")
  BY DEF Keep
<1> SUFFICES SightKept(after, k + 1, p, mark) /\ after \in Seq(R)
  OBVIOUS
<1>3. after \in Seq(R)
  BY <1>1, <1>2
<1> HIDE DEF m, longer, after
<1>4. \A j \in 1..m : j \in 1..(m - 1) \/ j = m
  BY <1>1
<1>5. CASE k + 1 < p
  <2>1. \A j \in DOMAIN kept : kept[j] \notin Cuts(mark)
    BY <1>5 DEF SightKept
  <2>2. line \notin Cuts(mark)
    BY <1>5
  <2>3. \A j \in DOMAIN longer : longer[j] \notin Cuts(mark)
    BY <1>1, <1>4, <2>1, <2>2
  <2>4. \A j \in DOMAIN after : after[j] \notin Cuts(mark)
    BY <1>2, <2>1, <2>3
  <2> QED
    BY <1>3, <1>5, <2>4 DEF SightKept
<1>6. CASE k + 1 = p
  <2>1. \A j \in DOMAIN kept : kept[j] \notin Cuts(mark)
    BY <1>6 DEF SightKept
  <2>2. line = mark
    BY <1>6
  <2>3. after = longer
    BY <1>2, <2>2
  <2>7. line \notin Cuts(mark)
    BY <1>6
  <2>4. \A j \in 1..m : longer[j] \notin Cuts(mark)
    BY <1>1, <1>4, <2>1, <2>7
  <2>5. m \in DOMAIN longer
    BY <1>1
  <2>6. InSight(after, mark)
    BY <1>1, <2>2, <2>3, <2>4, <2>5 DEF InSight
  <2> QED
    BY <1>3, <1>6, <2>6 DEF SightKept
<1>7. CASE ~(k + 1 <= p)
  <2>1. InSight(kept, mark)
    BY <1>7 DEF SightKept
  <2>2. PICK q \in 1..(m - 1) : kept[q] = mark /\ \A j \in 1..q : kept[j] \notin Cuts(mark)
    BY <1>1, <2>1 DEF InSight
  <2>3. q \in 1..m /\ \A j \in 1..q : j \in 1..(m - 1)
    BY <1>1, <2>2
  <2>4. longer[q] = mark /\ \A j \in 1..q : longer[j] \notin Cuts(mark)
    BY <1>1, <2>2, <2>3
  <2>5. InSight(longer, mark)
    BY <1>1, <2>3, <2>4 DEF InSight
  <2>6. InSight(after, mark)
    BY <1>2, <2>1, <2>5
  <2> QED
    BY <1>3, <1>7, <2>6 DEF SightKept
<1> QED
  BY <1>5, <1>6, <1>7

\* _drop_lines leaves such a line where it was in sight.
LEMMA UnbanneredSays ==
  ASSUME NEW R, NEW text \in Seq(R), NEW mark, mark # "caution", InSight(text, mark)
  PROVE  InSight(Unbannered(text), mark) /\ Unbannered(text) \in Seq(R)
<1> DEFINE n == Len(text)
           G == Seq(R)
           next == [i \in 1..n |-> [kept \in G |-> Keep(kept, text[i])]]
           Folds(f) == f = [s \in SUBSET DOMAIN text |->
                         IF s = {} THEN <<>> ELSE Keep(f[s \ {Max(s)}], text[Max(s)])]
           iter == CHOOSE f : Folds(f)
           Cleaned(kept, k, p) == kept \in G /\ SightKept(kept, k, p, mark)
<1>1. n \in Nat /\ DOMAIN text = 1..n /\ \A i \in 1..n : text[i] \in R
  OBVIOUS
<1>2. PICK p \in 1..n : text[p] = mark /\ \A j \in 1..p : text[j] \notin Cuts(mark)
  BY <1>1 DEF InSight
<1> DEFINE T == {k \in 0..n : Cleaned(iter[1..k], k, p)}
<1>3. next \in [1..n -> [G -> G]]
  <2>1. ASSUME NEW i \in 1..n, NEW kept \in G PROVE Keep(kept, text[i]) \in G
    BY <1>1, <2>1 DEF Keep
  <2> HIDE DEF G, n
  <2> QED
    BY <2>1
<1>4. \E g \in [SUBSET (1..n) -> G] : FoldsBy(g, n, <<>>, next)
  <2> DEFINE base == <<>>
  <2>1. base \in G
    OBVIOUS
  <2>2. \E g \in [SUBSET (1..n) -> G] : FoldsBy(g, n, base, next)
    <3> HIDE DEF next, base, G, n
    <3> QED
      BY <1>1, <1>3, <2>1, FoldsExist
  <2> QED
    BY <2>2
<1>5. PICK g \in [SUBSET (1..n) -> G] : FoldsBy(g, n, <<>>, next)
  BY <1>4
<1>6. \A s \in SUBSET (1..n) : s # {} => Max(s) \in 1..n /\ s \ {Max(s)} \in SUBSET (1..n)
  <2> HIDE DEF n
  <2> QED
    BY <1>1, Greatest
<1>7. Folds(g)
  <2>1. ASSUME NEW s \in SUBSET (1..n), s # {}
        PROVE  g[s] = Keep(g[s \ {Max(s)}], text[Max(s)])
    <3>1. Max(s) \in 1..n /\ s \ {Max(s)} \in SUBSET (1..n)
      BY <1>6, <2>1
    <3>2. g[s \ {Max(s)}] \in G
      BY <1>5, <3>1
    <3>3. g[s] = next[Max(s)][g[s \ {Max(s)}]]
      BY <1>5, <2>1 DEF FoldsBy
    <3> HIDE DEF G, n
    <3> QED
      BY <3>1, <3>2, <3>3
  <2>2. g[{}] = <<>>
    BY <1>5 DEF FoldsBy
  <2>3. DOMAIN g = SUBSET DOMAIN text /\ g = [s \in SUBSET (1..n) |-> g[s]]
    BY <1>1, <1>5
  <2> HIDE DEF G, n, next
  <2> QED
    BY <1>1, <2>1, <2>2, <2>3
<1>8. Folds(iter)
  <2> HIDE DEF Folds
  <2> QED
    BY <1>7
<1>9. Unbannered(text) = iter[1..n]
  BY <1>1 DEF Unbannered, FoldLeft, MapThenFoldSet, Keep
<1>10. 0 \in T
  <2>1. 1..0 = {} /\ {} \in SUBSET (1..n) /\ 0 \in 0..n /\ 0 < p
    BY <1>1, <1>2
  <2>2. iter[1..0] = <<>>
    <3> HIDE DEF iter, n
    <3> QED
      BY <1>1, <1>8, <2>1
  <2>3. Cleaned(<<>>, 0, p)
    BY <2>1 DEF SightKept
  <2> HIDE DEF iter, n, Cleaned
  <2> QED
    BY <2>1, <2>2, <2>3
<1>11. ASSUME NEW k \in 0..n, k \in T, k < n PROVE k + 1 \in T
  <2> DEFINE m == k + 1
             s == 1..m
  <2>1. n \in Nat /\ k \in Nat /\ k < n
    BY <1>1, <1>11
  <2>2. /\ m \in 1..n /\ m \in 0..n /\ s \in SUBSET (1..n) /\ s # {} /\ s \ {m} = 1..k
        /\ m \in Nat /\ s \in SUBSET (1..m) /\ m \in s
    <3> HIDE DEF n, T
    <3> QED
      BY <2>1, OneMorePosition
  <2> HIDE DEF s
  <2>3. Max(s) = m
    <3> HIDE DEF m, iter, T, n
    <3> QED
      BY <2>2, TopOf
  <2>4. iter[s] = Keep(iter[1..k], text[m])
    <3> HIDE DEF iter, n, m
    <3> QED
      BY <1>1, <1>8, <2>2, <2>3
  <2>5. iter[1..k] \in Seq(R) /\ SightKept(iter[1..k], k, p, mark) /\ k \in Nat /\ p \in Nat
    BY <1>2, <1>11, <2>1
  <2>6. /\ k + 1 <= p => text[m] \notin Cuts(mark)
        /\ k + 1 = p => text[m] = mark
        /\ text[m] \in R
    <3>1. k + 1 <= p => m \in 1..p
      BY <2>1, <2>5
    <3> HIDE DEF iter, n, T
    <3> QED
      BY <1>1, <1>2, <2>2, <3>1
  <2>7. Cleaned(Keep(iter[1..k], text[m]), k + 1, p)
    <3> DEFINE kept == iter[1..k]
    <3>1. kept \in Seq(R) /\ SightKept(kept, k, p, mark)
      BY <2>5
    <3> HIDE DEF iter, n, T, kept
    <3>2. SightKept(Keep(kept, text[m]), k + 1, p, mark) /\ Keep(kept, text[m]) \in Seq(R)
      BY <2>5, <2>6, <3>1, KeepSays
    <3> QED
      BY <3>2 DEF kept
  <2> HIDE DEF iter, n, Cleaned
  <2> QED
    BY <2>2, <2>4, <2>7 DEF s
<1>12. 0..n \subseteq T
  <2> HIDE DEF T, n
  <2> QED
    BY <1>1, <1>10, <1>11, CountingUp
<1>13. n \in T
  <2> HIDE DEF T
  <2> QED
    BY <1>1, <1>12
<1>14. ~(n < p)
  BY <1>1, <1>2
<1>15. Cleaned(iter[1..n], n, p)
  BY <1>13
<1> HIDE DEF iter, n
<1> QED
  BY <1>9, <1>14, <1>15 DEF SightKept

\* Nor does cutting at the first disclaimer take it away.
LEMMA UntailedSays ==
  ASSUME NEW R, NEW text \in Seq(R), NEW mark, InSight(text, mark),
         NEW tails, tails = {i \in DOMAIN text : text[i] = "tail"}, tails # {}
  PROVE  LET untailed == SubSeq(text, 1, Min(tails) - 1)
         IN untailed \in Seq(R) /\ InSight(untailed, mark)
<1> DEFINE n == Len(text)
           b == Min(tails) - 1
           untailed == SubSeq(text, 1, b)
<1>1. n \in Nat /\ DOMAIN text = 1..n /\ \A i \in 1..n : text[i] \in R
  OBVIOUS
<1>2. PICK p \in 1..n : text[p] = mark /\ \A j \in 1..p : text[j] \notin Cuts(mark)
  BY <1>1 DEF InSight
<1>3. Min(tails) \in tails
  <2>1. tails \in SUBSET (1..n)
    BY <1>1
  <2> HIDE DEF n
  <2> QED
    BY <1>1, <2>1, LeastPosition
<1>4. Min(tails) \in 1..n /\ text[Min(tails)] \in Cuts(mark)
  BY <1>1, <1>3 DEF Cuts
<1>5. b \in 0..n /\ p \in 1..b
  <2>1. ~(Min(tails) <= p)
    BY <1>2, <1>4
  <2> HIDE DEF n
  <2> QED
    BY <1>1, <1>2, <1>4, <2>1
<1> HIDE DEF b, n
<1>6. /\ DOMAIN untailed = 1..b /\ untailed \in Seq(R)
      /\ \A j \in 1..b : untailed[j] = text[j]
  BY <1>1, <1>5 DEF n
<1> HIDE DEF untailed
<1>7. \A j \in 1..p : j \in 1..b
  BY <1>5
<1>8. InSight(untailed, mark)
  BY <1>2, <1>5, <1>6, <1>7 DEF InSight
<1> QED
  BY <1>6, <1>8 DEF untailed, b

\* Nor the signature: what stands below it goes only when no value is among it,
\* and a line that is no value stands above it.
LEMMA SignedOffSays ==
  ASSUME NEW R, NEW text \in Seq(R), NEW mark, InSight(text, mark)
  PROVE  mark \in Range(DropSignature(text))
<1> DEFINE n == Len(text)
           offs == {i \in DOMAIN text : text[i] = "sign off"}
           o == Min(offs)
           filledBetween(i, j) == Filled(SubSeq(text, i + 1, j))
           reach == {j \in o..Len(text) : filledBetween(o, j) <= KeepLines
                                          /\ (j > o => filledBetween(o, j - 1) < KeepLines)}
           e == Max(reach)
           below == From(text, e + 1)
           above == SubSeq(text, 1, e)
<1>1. n \in Nat /\ DOMAIN text = 1..n
  OBVIOUS
<1>2. DropSignature(text) = IF offs = {} \/ \E l \in Range(below) : IsValue(l) THEN text
                            ELSE above
  BY DEF DropSignature
<1>3. ASSUME offs # {} PROVE e \in 1..n /\ o <= e /\ o \in offs
  <2>1. o \in 1..n /\ o \in offs
    <3>1. offs \in SUBSET (1..n)
      BY <1>1
    <3> HIDE DEF offs, n
    <3>2. o \in offs
      BY <1>1, <1>3, <3>1, LeastPosition
    <3> QED
      BY <3>1, <3>2
  <2>2. filledBetween(o, o) = 0
    <3> HIDE DEF offs, o
    <3>1. SubSeq(text, o + 1, o) = <<>>
      BY <1>1, <2>1
    <3>2. {i \in DOMAIN <<>> : <<>>[i] # "blank"} = {}
      OBVIOUS
    <3> QED
      BY <3>1, <3>2, FS_EmptySet DEF Filled
  <2>3. KeepLines \in Nat
    BY GapsAreNumbers
  <2> HIDE DEF o, offs
  <2>4. o \in reach
    BY <1>1, <2>1, <2>2, <2>3
  <2>5. reach \in SUBSET (1..n) /\ \A j \in reach : o <= j
    BY <1>1, <2>1
  <2> HIDE DEF reach, n
  <2>6. e \in reach
    BY <1>1, <2>4, <2>5, Greatest
  <2> QED
    BY <2>1, <2>5, <2>6
<1>4. PICK p \in 1..n : text[p] = mark /\ \A j \in 1..p : text[j] \notin Cuts(mark)
  BY <1>1 DEF InSight
<1>5. ASSUME offs # {}, ~(p <= e) PROVE \E l \in Range(below) : IsValue(l)
  <2>1. e \in 1..n /\ o <= e /\ o \in offs
    BY <1>3, <1>5
  <2>2. o \in 1..p /\ text[o] = "sign off"
    <3>1. o \in 1..n /\ text[o] = "sign off"
      BY <1>1, <2>1
    <3> HIDE DEF o, e, offs, n
    <3>2. p \in 1..n /\ ~(p <= e)
      BY <1>4, <1>5
    <3>4. n \in Nat /\ o \in 1..n /\ e \in 1..n /\ o <= e
      BY <1>1, <2>1, <3>1
    <3>3. o \in 1..p
      BY ONLY <3>2, <3>4
    <3> QED
      BY <3>1, <3>3
  <2>3. IsValue(mark)
    <3> HIDE DEF o, e, offs
    <3> QED
      BY <1>4, <2>2 DEF Cuts
  <2> HIDE DEF e, o, offs
  <2>4. p - e \in 1..(n - e) /\ DOMAIN below = 1..(n - e)
    BY <1>1, <1>4, <1>5, <2>1 DEF From
  <2>5. below[p - e] = text[p]
    BY <1>1, <1>4, <2>1, <2>4 DEF From
  <2> HIDE DEF below
  <2> QED
    BY <1>4, <2>3, <2>4, <2>5 DEF Range
<1>6. ASSUME offs # {}, p <= e PROVE mark \in Range(above)
  <2>1. e \in 1..n /\ p \in 1..e
    <3>1. e \in 1..n
      BY <1>3, <1>6
    <3> HIDE DEF e, offs
    <3> QED
      BY <1>1, <1>4, <1>6, <3>1
  <2> HIDE DEF e, offs
  <2>2. DOMAIN above = 1..e /\ above[p] = text[p]
    BY <1>1, <2>1
  <2> HIDE DEF above
  <2> QED
    BY <1>4, <2>1, <2>2 DEF Range
<1>7. mark \in Range(text)
  BY <1>1, <1>4 DEF Range
<1> HIDE DEF offs, e, below, above
<1> QED
  BY <1>2, <1>5, <1>6, <1>7

\* What the sender wrote out stands in the message the rules and the model read.
LEMMA ReadSays ==
  ASSUME NEW body, body \in Seq(Range(body)), NEW mark \in NamesAnRfq,
         mark \in Range(Written(body, mark))
  PROVE  mark \in Range(ReadThread(body).latest)
<1> DEFINE R == Range(body)
           latest == SplitThread(body).latest
           unbannered == Unbannered(latest)
           tails == {i \in DOMAIN unbannered : unbannered[i] = "tail"}
           untailed == IF tails = {} THEN unbannered ELSE SubSeq(unbannered, 1, Min(tails) - 1)
<1>0. mark # "caution"
  BY DEF NamesAnRfq
<1>1. InSight(latest, mark) /\ latest \in Seq(R)
  BY WrittenIsLatest
<1>2. InSight(unbannered, mark) /\ unbannered \in Seq(R)
  <2> HIDE DEF latest, R
  <2> QED
    BY <1>0, <1>1, UnbanneredSays
<1>3. untailed \in Seq(R) /\ InSight(untailed, mark)
  <2>1. CASE tails = {}
    <3> HIDE DEF unbannered, R
    <3> QED
      BY <1>2, <2>1
  <2>2. CASE tails # {}
    <3> HIDE DEF unbannered, R
    <3> QED
      BY <1>2, <2>2, UntailedSays
  <2> QED
    BY <2>1, <2>2
<1>4. mark \in Range(DropSignature(untailed))
  <2> HIDE DEF untailed, R
  <2> QED
    BY <1>3, SignedOffSays
<1>5. ReadThread(body).latest = StripBoilerplate(latest)
  BY DEF ReadThread, SplitThread
<1>6. StripBoilerplate(latest) = DropSignature(untailed)
  BY DEF StripBoilerplate
<1> QED
  BY <1>4, <1>5, <1>6

\* Where the pipeline is: the message is the email's, and a verdict is what the
\* policy makes of an answer or of a rule.
VerdictInv ==
  /\ email \in Emails
  /\ at \in {"read", "classify", "route", "extract", "classified"}
  /\ at # "read" => thread = ReadThread(email.body)
  /\ at \notin {"read", "classify"} =>
       \E guess \in Drafts \cup Range(MatchFastPath(email, thread)) :
         verdict = Finalize(guess, SignalsOf(email.subject, thread), email.attached,
                            thread.warnings)

LEMMA VerdictKept == VerdictInv /\ [ClassificationNext]_cvars => VerdictInv'
<1> SUFFICES ASSUME VerdictInv, [ClassificationNext]_cvars PROVE VerdictInv'
  OBVIOUS
<1>1. CASE ReadMessage
  BY <1>1 DEF VerdictInv, ReadMessage
<1>2. CASE DecideByRule
  BY <1>2 DEF VerdictInv, DecideByRule, Settle
<1>3. CASE AskTheModel
  BY <1>3 DEF VerdictInv, AskTheModel, Settle
<1>4. CASE Route
  <2>1. /\ at = "route" /\ at' \in {"extract", "classified"}
        /\ email' = email /\ thread' = thread /\ verdict' = verdict
    BY <1>4 DEF Route
  <2> QED
    BY <2>1 DEF VerdictInv
<1>5. CASE RouteAgain
  <2>1. /\ at = "extract" /\ at' = "classified"
        /\ email' = email /\ thread' = thread /\ verdict' = verdict
    BY <1>5 DEF RouteAgain
  <2> QED
    BY <2>1 DEF VerdictInv
<1>6. CASE UNCHANGED cvars
  BY <1>6 DEF VerdictInv, cvars
<1> QED
  BY <1>1, <1>2, <1>3, <1>4, <1>5, <1>6 DEF ClassificationNext

\* The safety net under what was about to be ignored.
LEMMA PolicySays ==
  ASSUME NEW guess, NEW signals, NEW attached, NEW warnings,
         Finalize(guess, signals, attached, warnings).action = "IGNORE",
         "form" \in attached \/ \E mark \in NamesAnRfq : mark \in signals
  PROVE  Finalize(guess, signals, attached, warnings).needs_review = TRUE
<1>1. HasStrongRfqSignal(signals, attached)
  BY DEF HasStrongRfqSignal, NamesAnRfq
<1> HIDE DEF HasStrongRfqSignal
<1> DEFINE action == IF guess.confidence < ReviewThreshold THEN "HUMAN_REVIEW"
                     ELSE CategoryAction(guess.category)
           saved == action = "IGNORE" /\ HasStrongRfqSignal(signals, attached)
<1>2. Finalize(guess, signals, attached, warnings).action = action
  BY DEF Finalize
<1>3. Finalize(guess, signals, attached, warnings).needs_review
        = (guess.confidence < AutoThreshold \/ saved)
  BY DEF Finalize
<1>4. saved
  BY <1>1, <1>2
<1> QED
  BY <1>3, <1>4

\* "Missing a real RFQ costs the chandler a sale": for any email, any rules and
\* thresholds and whatever the model answers, an RFQ that is put away is put
\* before a person.
THEOREM RfqsAreNotPutAway == ClassificationSpec => []AnRfqIsNotPutAway
<1>1. ClassificationInit => VerdictInv
  BY DEF ClassificationInit, VerdictInv
<1>2. VerdictInv => AnRfqIsNotPutAway
  <2> SUFFICES ASSUME VerdictInv, at = "classified", verdict.action = "IGNORE",
                      \/ "form" \in email.attached
                      \/ \E mark \in NamesAnRfq :
                           mark \in Range(email.subject)
                                     \cup Range(Written(email.body, mark))
               PROVE  verdict.needs_review
    BY DEF AnRfqIsNotPutAway
  <2> DEFINE signals == SignalsOf(email.subject, thread)
  <2>1. email.body \in Seq(Range(email.body)) /\ thread = ReadThread(email.body)
    BY BodiesAreLines DEF VerdictInv
  <2>2. "form" \in email.attached \/ \E mark \in NamesAnRfq : mark \in signals
    <3>1. \A mark \in NamesAnRfq :
            mark \in Range(Written(email.body, mark)) => mark \in Range(thread.latest)
      BY <2>1, ReadSays
    <3> QED
      BY <3>1 DEF SignalsOf, NamesAnRfq
  <2>3. PICK guess \in Drafts \cup Range(MatchFastPath(email, thread)) :
          verdict = Finalize(guess, signals, email.attached, thread.warnings)
    BY DEF VerdictInv
  <2> HIDE DEF signals
  <2> QED
    BY <2>2, <2>3, PolicySays
<1> QED
  BY <1>1, <1>2, VerdictKept, PTL DEF ClassificationSpec

-----------------------------------------------------------------------------
(* The pictures.  What _allocate gives is counted along the files: up to    *)
(* each of them, everyone's equal share and as much of the spare slots as   *)
(* the files so far still wanted - or, with less than one each, one slot to *)
(* every claimant so far until none is left.                                *)

\* The greater of nothing and a number.
LEMMA NotBelowZero ==
  ASSUME NEW a \in Int
  PROVE  Max({0, a}) = IF a >= 0 THEN a ELSE 0
<1>1. Max({0, a}) = CHOOSE x \in {0, a} : \A y \in {0, a} : x >= y
  BY DEF Max
<1>2. \E x \in {0, a} : \A y \in {0, a} : x >= y
  OBVIOUS
<1>3. Max({0, a}) \in {0, a} /\ \A y \in {0, a} : Max({0, a}) >= y
  BY <1>1, <1>2
<1> QED
  BY <1>3

\* The claimants among the first k files.
FirstOnes(wanted, k) == {j \in Claimants(wanted) : j < k + 1}

\* One file more is one claimant more, if it wants something.
LEMMA OneMoreClaimant ==
  ASSUME NEW n \in Nat, NEW wanted \in [1..n -> Nat], NEW k \in 1..n
  PROVE  /\ IsFiniteSet(FirstOnes(wanted, k)) /\ IsFiniteSet(FirstOnes(wanted, k - 1))
         /\ Cardinality(FirstOnes(wanted, k)) \in Nat
         /\ Cardinality(FirstOnes(wanted, k - 1)) \in Nat
         /\ Cardinality(FirstOnes(wanted, k))
              = Cardinality(FirstOnes(wanted, k - 1)) + (IF wanted[k] > 0 THEN 1 ELSE 0)
<1> DEFINE S == FirstOnes(wanted, k - 1)
           T == FirstOnes(wanted, k)
<1>1. S \in SUBSET (1..n) /\ IsFiniteSet(1..n) /\ T \in SUBSET (1..n)
  BY FS_Interval DEF FirstOnes, Claimants
<1>2. k \notin S /\ T = IF wanted[k] > 0 THEN S \cup {k} ELSE S
  BY DEF FirstOnes, Claimants
<1> HIDE DEF S, T
<1>3. IsFiniteSet(S) /\ IsFiniteSet(T)
  BY <1>1, FS_Subset
<1>4. Cardinality(S) \in Nat /\ Cardinality(T) \in Nat
  BY <1>3, FS_CardinalityType
<1>5. Cardinality(S \cup {k}) = Cardinality(S) + 1
  BY <1>2, <1>3, FS_AddElement
<1> QED
  BY <1>2, <1>3, <1>4, <1>5 DEF S, T

\* At first there is no claimant, and in the end all of them.
LEMMA AllClaimants ==
  ASSUME NEW n \in Nat, NEW wanted \in [1..n -> Nat]
  PROVE  /\ Cardinality(FirstOnes(wanted, 0)) = 0
         /\ FirstOnes(wanted, n) = Claimants(wanted)
         /\ Cardinality(Claimants(wanted)) \in Nat
         /\ (\E i \in 1..n : wanted[i] > 0) => Cardinality(Claimants(wanted)) > 0
<1>1. FirstOnes(wanted, 0) = {} /\ FirstOnes(wanted, n) = Claimants(wanted)
  BY DEF FirstOnes, Claimants
<1>2. Claimants(wanted) \in SUBSET (1..n) /\ IsFiniteSet(1..n)
  BY FS_Interval DEF Claimants
<1>3. IsFiniteSet(Claimants(wanted))
  BY <1>2, FS_Subset
<1>4. Cardinality(Claimants(wanted)) \in Nat
      /\ (Cardinality(Claimants(wanted)) = 0 <=> Claimants(wanted) = {})
  BY <1>3, FS_CardinalityType, FS_EmptySet
<1>5. ASSUME NEW i \in 1..n, wanted[i] > 0 PROVE Claimants(wanted) # {}
  BY <1>5 DEF Claimants
<1> QED
  BY <1>1, <1>4, <1>5, FS_EmptySet

\* What is kept of the pictures wanted, the way Fitted keeps it.
KeptOfEach(wanted, allowed) ==
  [i \in DOMAIN wanted |-> IF wanted[i] = 0 \/ wanted[i] <= allowed[i] THEN wanted[i]
                           ELSE allowed[i]]

\* With less than one slot each, the first ones have one and the others none.
LEMMA OneToTheFirst ==
  ASSUME NEW n \in Nat, NEW wanted \in [1..n -> Nat], NEW total \in Nat,
         Cardinality(Claimants(wanted)) > 0,
         total \div Cardinality(Claimants(wanted)) = 0
  PROVE  LET kept == KeptOfEach(wanted, Allocate(wanted, total))
         IN /\ kept \in [1..n -> 0..1]
            /\ Total(kept) = total
<1> DEFINE c(k) == Cardinality(FirstOnes(wanted, k))
           allowed == Allocate(wanted, total)
           kept == KeptOfEach(wanted, allowed)
<1>1. allowed = [i \in 1..n |-> IF c(i - 1) < total THEN 1 ELSE 0]
  <2>1. \A i \in 1..n : {j \in Claimants(wanted) : j < i} = FirstOnes(wanted, i - 1)
    BY DEF FirstOnes
  <2> QED
    BY <2>1 DEF Allocate
<1>2. kept = [i \in 1..n |-> IF wanted[i] > 0 /\ c(i - 1) < total THEN 1 ELSE 0]
  <2> HIDE DEF allowed, c
  <2>1. \A i \in 1..n : wanted[i] \in Nat
    OBVIOUS
  <2> QED
    BY <1>1, <2>1 DEF KeptOfEach
<1>3. kept \in [1..n -> 0..1] /\ kept \in [1..n -> Int]
  <2> HIDE DEF c, kept
  <2> QED
    BY <1>2
<1>4. total < c(n)
  <2>1. c(n) = Cardinality(Claimants(wanted)) /\ c(n) \in Nat /\ c(n) > 0
    BY AllClaimants
  <2> HIDE DEF c
  <2>2. total \div c(n) = 0
    BY <2>1
  <2> QED
    BY <2>1, <2>2
<1>5. PICK sums \in [0..n -> Int] : Adds(sums, n, kept) /\ Total(kept) = sums[n]
  <2> HIDE DEF kept
  <2> QED
    BY <1>3, TotalAdds
<1> DEFINE T == {k \in 0..n : sums[k] = IF c(k) < total THEN c(k) ELSE total}
<1>6. 0 \in T
  <2>1. c(0) = 0
    BY AllClaimants
  <2> HIDE DEF c
  <2> QED
    BY <1>5, <2>1 DEF Adds
<1>7. ASSUME NEW k \in 0..n, k \in T, k < n PROVE k + 1 \in T
  <2>1. k + 1 \in 1..n /\ (k + 1) - 1 = k
    BY <1>7
  <2>2. /\ c(k + 1) \in Nat /\ c(k) \in Nat
        /\ c(k + 1) = c(k) + (IF wanted[k + 1] > 0 THEN 1 ELSE 0)
    <3>1. ASSUME NEW m \in 1..n, m - 1 = k
          PROVE  /\ c(m) \in Nat /\ c(k) \in Nat
                 /\ c(m) = c(k) + (IF wanted[m] > 0 THEN 1 ELSE 0)
      BY <3>1, OneMoreClaimant
    <3> HIDE DEF c
    <3> QED
      BY <2>1, <3>1
  <2>3. sums[k + 1] = sums[k] + kept[k + 1]
    BY <1>5, <2>1 DEF Adds
  <2>4. kept[k + 1] = IF wanted[k + 1] > 0 /\ c(k) < total THEN 1 ELSE 0
    <3> HIDE DEF kept, c
    <3> QED
      BY <1>2, <2>1
  <2>5. sums[k] = IF c(k) < total THEN c(k) ELSE total
    BY <1>7
  <2>6. wanted[k + 1] \in Nat
    BY <2>1
  <2> HIDE DEF c, kept
  <2> QED
    BY <2>1, <2>2, <2>3, <2>4, <2>5, <2>6
<1>8. n \in T
  <2>1. 0..n \subseteq T
    <3> HIDE DEF T
    <3> QED
      BY <1>6, <1>7, CountingUp
  <2> QED
    BY <2>1
<1>9. Total(kept) = total
  <2>1. c(n) \in Nat
    BY AllClaimants
  <2> HIDE DEF c, kept
  <2> QED
    BY <1>4, <1>5, <1>8, <2>1
<1> QED
  BY <1>3, <1>9

\* One time more, and how often a number is in another.
LEMMA Times ==
  /\ \A a, b \in Nat : a * b \in Nat /\ a * (b + 1) = a * b + a
  /\ \A a \in Nat, b \in Nat \ {0} : a \div b \in Nat /\ (a \div b) * b <= a
<1>1. \A a, b \in Nat : a * b \in Nat /\ a * (b + 1) = a * b + a
  OBVIOUS
<1>2. \A a \in Nat, b \in Nat \ {0} : a \div b \in Nat /\ (a \div b) * b <= a
  OBVIOUS
<1> QED
  BY <1>1, <1>2

\* An equal share of what there is, to everyone who wants as much, is not too much.
LEMMA SharesFit ==
  ASSUME NEW n \in Nat, NEW wanted \in [1..n -> Nat], NEW share \in Nat,
         NEW given \in [1..n -> Nat],
         \A i \in 1..n : given[i] <= wanted[i] /\ given[i] <= share
  PROVE  Total(given) <= share * Cardinality(Claimants(wanted))
<1> DEFINE c(k) == Cardinality(FirstOnes(wanted, k))
<1>1. PICK G \in [0..n -> Int] : Adds(G, n, given) /\ Total(given) = G[n]
  BY TotalAdds
<1> DEFINE T == {k \in 0..n : c(k) \in Nat /\ G[k] <= share * c(k)}
<1>2. 0 \in T
  <2>1. c(0) = 0
    BY AllClaimants
  <2> HIDE DEF c
  <2> QED
    BY <1>1, <2>1 DEF Adds
<1>3. ASSUME NEW k \in 0..n, k \in T, k < n PROVE k + 1 \in T
  <2>1. PICK m \in 1..n : m = k + 1 /\ m - 1 = k
    BY <1>3
  <2>2. /\ c(m) \in Nat /\ c(k) \in Nat
        /\ c(m) = c(k) + (IF wanted[m] > 0 THEN 1 ELSE 0)
    BY <2>1, OneMoreClaimant
  <2>3. G[m] = G[k] + given[m] /\ G[k] \in Int /\ given[m] \in Nat /\ wanted[m] \in Nat
        /\ given[m] <= wanted[m] /\ given[m] <= share
    BY <1>1, <2>1 DEF Adds
  <2>4. G[k] <= share * c(k)
    BY <1>3
  <2> HIDE DEF c, T
  <2>5. share * c(k) \in Nat /\ share * (c(k) + 1) = share * c(k) + share
    BY <2>2, Times
  <2>6. G[m] <= share * c(m)
    <3>1. CASE wanted[m] > 0
      <4>1. share * c(m) = share * c(k) + share
        BY <2>2, <2>5, <3>1
      <4> QED
        BY <2>3, <2>4, <2>5, <4>1
    <3>2. CASE ~(wanted[m] > 0)
      <4>1. c(m) = c(k) /\ given[m] = 0
        BY <2>2, <2>3, <3>2
      <4> QED
        BY <2>3, <2>4, <4>1
    <3> QED
      BY <3>1, <3>2
  <2> QED
    BY <1>3, <2>1, <2>2, <2>6 DEF T
<1>4. n \in T
  <2>1. 0..n \subseteq T
    <3> HIDE DEF T
    <3> QED
      BY <1>2, <1>3, CountingUp
  <2> QED
    BY <2>1
<1>5. c(n) = Cardinality(Claimants(wanted))
  BY AllClaimants
<1> QED
  BY <1>1, <1>4, <1>5

\* The smaller of two numbers, and what is above nothing.
Lesser(a, b) == IF a <= b THEN a ELSE b
Above(a) == IF a >= 0 THEN a ELSE 0

\* Of the files so far D pictures are wanted still, of the W wanted and the G given at
\* once, and K are kept.
Even(spare, W, G, D, K) == D = W - G /\ K = G + Lesser(spare, D)

\* One file more: W is what is wanted with it, and so on.
Grown(W, G, D, K, olderW, olderG, olderD, olderK, given, more, kept) ==
  /\ W = olderW + (given + more) /\ G = olderG + given
  /\ D = olderD + more /\ K = olderK + kept

LEMMA OneMoreFile ==
  ASSUME NEW spare \in Nat, NEW W, NEW G, NEW D, NEW K,
         NEW olderW \in Int, NEW olderG \in Int, NEW olderD, NEW olderK,
         NEW given \in Nat, NEW more \in Nat, NEW kept,
         Even(spare, olderW, olderG, olderD, olderK),
         Grown(W, G, D, K, olderW, olderG, olderD, olderK, given, more, kept),
         kept = given + Lesser(Above(spare - olderD), more)
  PROVE  Even(spare, W, G, D, K)
BY DEF Lesser, Above, Even, Grown

\* Everyone keeps what was given at once and what those before left of the spare.
GoesAround(n, spare, given, more, kept) ==
  \A i \in 1..n :
    kept[i] = given[i]
              + Lesser(Above(spare - Total(TheFirst(more, i - 1))), more[i])

\* What is wanted is what was given at once and what is wanted still.
Splits(n, wanted, given, more) == \A i \in 1..n : wanted[i] = given[i] + more[i]

\* The files' shares, what is wanted still and what is kept, with so much to spare.
Spreads(n, wanted, given, more, spare, kept) ==
  /\ n \in Nat /\ spare \in Nat
  /\ wanted \in [1..n -> Nat] /\ given \in [1..n -> Nat]
  /\ more \in [1..n -> Nat] /\ kept \in [1..n -> Nat]
  /\ Splits(n, wanted, given, more)
  /\ GoesAround(n, spare, given, more, kept)
  /\ Total(wanted) - Total(given) >= spare

\* What is spare after the shares goes to whoever wants more, in order, to the last.
LEMMA SpareIsUsed ==
  ASSUME NEW n, NEW wanted, NEW given, NEW more, NEW spare, NEW kept,
         Spreads(n, wanted, given, more, spare, kept)
  PROVE  Total(kept) = Total(given) + spare
<1>0. /\ n \in Nat /\ spare \in Nat
      /\ wanted \in [1..n -> Int] /\ given \in [1..n -> Int]
      /\ more \in [1..n -> Int] /\ kept \in [1..n -> Int]
  BY DEF Spreads
<1>1. PICK W \in [0..n -> Int] : Adds(W, n, wanted) /\ Total(wanted) = W[n]
  BY <1>0, TotalAdds
<1>2. PICK G \in [0..n -> Int] : Adds(G, n, given) /\ Total(given) = G[n]
  BY <1>0, TotalAdds
<1>3. PICK D \in [0..n -> Int] : Adds(D, n, more) /\ Total(more) = D[n]
  BY <1>0, TotalAdds
<1>4. PICK K \in [0..n -> Int] : Adds(K, n, kept) /\ Total(kept) = K[n]
  BY <1>0, TotalAdds
<1>5. ASSUME NEW m \in 0..n PROVE Total(TheFirst(more, m)) = D[m]
  <2>1. SumsOf(D, n, more)
    BY <1>0, <1>3 DEF SumsOf
  <2> QED
    BY <2>1, TotalOfFirst
<1> DEFINE T == {k \in 0..n : Even(spare, W[k], G[k], D[k], K[k])}
<1>6. 0 \in T
  BY <1>0, <1>1, <1>2, <1>3, <1>4 DEF Adds, Lesser, Even
<1>7. ASSUME NEW k \in 0..n, k \in T, k < n PROVE k + 1 \in T
  <2>1. PICK m \in 1..n : m = k + 1 /\ m - 1 = k
    BY <1>0, <1>7
  <2>2. /\ W[m] = W[k] + wanted[m] /\ G[m] = G[k] + given[m]
        /\ D[m] = D[k] + more[m] /\ K[m] = K[k] + kept[m]
    BY <1>1, <1>2, <1>3, <1>4, <2>1 DEF Adds
  <2>3. /\ given[m] \in Nat /\ more[m] \in Nat /\ wanted[m] = given[m] + more[m]
        /\ W[k] \in Int /\ G[k] \in Int
    BY <2>1 DEF Spreads, Splits
  <2>4. Total(TheFirst(more, m - 1)) = D[k]
    BY <1>5, <2>1
  <2>5. kept[m] = given[m] + Lesser(Above(spare - D[k]), more[m])
    BY <2>4 DEF GoesAround, Spreads
  <2>6. Even(spare, W[k], G[k], D[k], K[k])
    BY <1>7
  <2> HIDE DEF T
  <2>7. Grown(W[m], G[m], D[m], K[m], W[k], G[k], D[k], K[k], given[m], more[m], kept[m])
    BY <2>2, <2>3 DEF Grown
  <2>8. Even(spare, W[m], G[m], D[m], K[m])
    BY <1>0, <2>3, <2>5, <2>6, <2>7, OneMoreFile
  <2>9. k + 1 \in 0..n
    BY <1>0, <1>7
  <2> QED
    BY <2>1, <2>8, <2>9 DEF T
<1>8. n \in T
  <2>1. 0..n \subseteq T
    <3> HIDE DEF T
    <3> QED
      BY <1>0, <1>6, <1>7, CountingUp
  <2> QED
    BY <1>0, <2>1
<1>9. D[n] = Total(wanted) - Total(given) /\ Total(kept) = Total(given) + Lesser(spare, D[n])
  BY <1>1, <1>2, <1>4, <1>8 DEF Even
<1>10. D[n] \in Int /\ D[n] >= spare
  BY <1>0, <1>9 DEF Spreads
<1> QED
  BY <1>0, <1>9, <1>10 DEF Lesser

\* There is a slot for everyone who wants one, and not for every picture.
OneForEach(wanted, total) ==
  LET many == Cardinality(Claimants(wanted))
  IN many > 0 /\ total \div many # 0 /\ Total(wanted) > total

\* Then everyone who wants pictures keeps some, and all slots are used.
LEMMA EqualShareFirst ==
  ASSUME NEW n \in Nat, NEW wanted \in [1..n -> Nat], NEW total \in Nat,
         OneForEach(wanted, total)
  PROVE  LET kept == KeptOfEach(wanted, Allocate(wanted, total))
         IN /\ kept \in [1..n -> Nat]
            /\ \A i \in 1..n : wanted[i] > 0 => kept[i] > 0
            /\ Total(kept) = total
<1>1. PICK many : many = Cardinality(Claimants(wanted)) /\ many \in Nat \ {0}
  <2>1. Cardinality(Claimants(wanted)) \in Nat
    BY AllClaimants
  <2> QED
    BY <2>1 DEF OneForEach
<1>2. PICK share : share = total \div many
  OBVIOUS
<1>3. share \in Nat \ {0} /\ share * many <= total
  <2>1. share # 0
    BY <1>1, <1>2 DEF OneForEach
  <2> QED
    BY <1>1, <1>2, <2>1, Times
<1>4. PICK given : given = [i \in 1..n |-> Min({wanted[i], share})]
  OBVIOUS
<1>5. PICK more : more = [i \in 1..n |-> wanted[i] - given[i]]
  OBVIOUS
<1>6. PICK spare : spare = total - Total(given)
  OBVIOUS
<1>7. PICK left : left = [i \in 1..n |-> Max({0, spare - Total(TheFirst(more, i - 1))})]
  OBVIOUS
<1>8. PICK allowed : allowed = Allocate(wanted, total)
  OBVIOUS
<1>9. PICK kept : kept = KeptOfEach(wanted, allowed)
  OBVIOUS
<1>10. SUFFICES /\ kept \in [1..n -> Nat]
                /\ \A i \in 1..n : wanted[i] > 0 => kept[i] > 0
                /\ Total(kept) = total
  BY <1>8, <1>9
<1>11. allowed = [i \in 1..n |-> given[i] + Min({left[i], more[i]})]
  <2>1. share # 0
    BY <1>3
  <2>2. \A i \in 1..n : [j \in 1..(i - 1) |-> wanted[j] - given[j]]
                          = TheFirst(more, i - 1)
    BY <1>5 DEF TheFirst
  <2>3. \A i \in 1..n : left[i] = Max({0, spare - Total([j \in 1..(i - 1) |-> wanted[j] - given[j]])})
    BY <1>7, <2>2
  <2>4. \A i \in 1..n : more[i] = wanted[i] - given[i]
    BY <1>5
  <2>5. allowed = [i \in 1..n |-> given[i]
          + Min({Max({0, spare - Total([j \in 1..(i - 1) |-> wanted[j] - given[j]])}),
                 wanted[i] - given[i]})]
    BY <1>1, <1>2, <1>4, <1>6, <1>8, <2>1 DEF Allocate
  <2> QED
    BY <2>3, <2>4, <2>5
<1>12. \A i \in 1..n : given[i] = IF wanted[i] <= share THEN wanted[i] ELSE share
  BY <1>3, <1>4, LeastOfTwo
<1>13. given \in [1..n -> Nat] /\ more \in [1..n -> Nat]
  <2>1. \A i \in 1..n : given[i] \in Nat /\ wanted[i] - given[i] \in Nat
    BY <1>3, <1>12
  <2> QED
    BY <1>4, <1>5, <2>1
<1>14. Total(given) <= total /\ Total(given) \in Int
  <2>1. \A i \in 1..n : given[i] <= wanted[i] /\ given[i] <= share
    BY <1>3, <1>12
  <2>2. Total(given) <= share * many
    BY <1>1, <1>3, <1>13, <2>1, SharesFit
  <2>3. Total(given) \in Int
    BY <1>13, TotalAdds
  <2> QED
    BY <1>1, <1>3, <2>2, <2>3
<1>15. Total(wanted) \in Int /\ Total(wanted) > total
  <2>1. wanted \in [1..n -> Int]
    OBVIOUS
  <2> QED
    BY <2>1, TotalAdds DEF OneForEach
<1>16. spare \in Nat
  BY <1>6, <1>14
<1>17. \A i \in 1..n : LET before == spare - Total(TheFirst(more, i - 1))
                       IN /\ before \in Int
                          /\ left[i] = IF before >= 0 THEN before ELSE 0
  <2> SUFFICES ASSUME NEW i \in 1..n, NEW before, before = spare - Total(TheFirst(more, i - 1))
               PROVE  before \in Int /\ left[i] = IF before >= 0 THEN before ELSE 0
    OBVIOUS
  <2> DEFINE first == TheFirst(more, i - 1)
  <2>1. first \in [1..(i - 1) -> Int] /\ i - 1 \in Nat
    BY <1>13 DEF TheFirst
  <2>2. Total(first) \in Int
    <3> HIDE DEF first
    <3> QED
      BY <2>1, TotalsAreNumbers
  <2>3. before \in Int
    BY <1>16, <2>2
  <2>4. left[i] = Max({0, before})
    BY <1>7
  <2> QED
    BY <2>3, <2>4, NotBelowZero
<1>18. \A i \in 1..n : /\ left[i] \in Nat
                       /\ kept[i] = given[i] + (IF left[i] <= more[i] THEN left[i] ELSE more[i])
  <2> SUFFICES ASSUME NEW i \in 1..n
               PROVE  /\ left[i] \in Nat
                      /\ kept[i] = given[i] + (IF left[i] <= more[i] THEN left[i] ELSE more[i])
    OBVIOUS
  <2>1. left[i] \in Nat
    <3> DEFINE before == spare - Total(TheFirst(more, i - 1))
    <3>1. before \in Int /\ left[i] = IF before >= 0 THEN before ELSE 0
      BY <1>17
    <3> HIDE DEF before
    <3> QED
      BY <3>1
  <2>2. more[i] = wanted[i] - given[i] /\ more[i] \in Nat /\ given[i] \in Nat /\ wanted[i] \in Nat
    BY <1>5, <1>13
  <2>3. Min({left[i], more[i]}) = IF left[i] <= more[i] THEN left[i] ELSE more[i]
    BY <2>1, <2>2, LeastOfTwo
  <2>4. allowed[i] = given[i] + (IF left[i] <= more[i] THEN left[i] ELSE more[i])
    BY <1>11, <2>3
  <2>5. kept[i] = IF wanted[i] = 0 \/ wanted[i] <= allowed[i] THEN wanted[i] ELSE allowed[i]
    BY <1>9 DEF KeptOfEach
  <2> QED
    BY <2>1, <2>2, <2>4, <2>5
<1>19. kept \in [1..n -> Nat]
  <2>1. ASSUME NEW i \in 1..n PROVE kept[i] \in Nat
    <3>1. given[i] \in Nat /\ more[i] \in Nat
      BY <1>13
    <3>2. /\ left[i] \in Nat
          /\ kept[i] = given[i] + (IF left[i] <= more[i] THEN left[i] ELSE more[i])
      BY <1>18
    <3> QED
      BY ONLY <3>1, <3>2
  <2>2. kept = [i \in 1..n |-> kept[i]]
    BY <1>9 DEF KeptOfEach
  <2> QED
    BY <2>1, <2>2
<1>20. \A i \in 1..n : wanted[i] > 0 => kept[i] > 0
  <2> SUFFICES ASSUME NEW i \in 1..n, wanted[i] > 0 PROVE kept[i] > 0
    OBVIOUS
  <2>1. given[i] > 0 /\ given[i] \in Nat /\ more[i] \in Nat
    BY <1>3, <1>12, <1>13
  <2> QED
    BY <1>18, <2>1
<1>21. Total(kept) = total
  <2>1. Splits(n, wanted, given, more)
    <3> SUFFICES ASSUME NEW i \in 1..n PROVE wanted[i] = given[i] + more[i]
      BY DEF Splits
    <3>1. wanted[i] \in Nat /\ given[i] \in Nat
      BY <1>13
    <3> QED
      BY <1>5, <3>1
  <2>2. Total(wanted) - Total(given) >= spare
    BY <1>6, <1>14, <1>15
  <2>3. GoesAround(n, spare, given, more, kept)
    BY <1>17, <1>18 DEF GoesAround, Lesser, Above
  <2>4. Total(kept) = Total(given) + spare
    <3>1. Spreads(n, wanted, given, more, spare, kept)
      BY <1>13, <1>16, <1>19, <2>1, <2>2, <2>3 DEF Spreads
    <3> QED
      BY <3>1, SpareIsUsed
  <2> QED
    BY <1>6, <1>14, <2>4
<1> QED
  BY <1>19, <1>20, <1>21

\* More pictures than slots: every slot is used, and nobody goes without while
\* another keeps two.
LEMMA SlotsAreShared ==
  ASSUME NEW n \in Nat, NEW wanted \in [1..n -> Nat], NEW total \in Nat, Total(wanted) > total
  PROVE  LET kept == KeptOfEach(wanted, Allocate(wanted, total))
         IN /\ kept \in [1..n -> Nat]
            /\ Total(kept) = total
            /\ (\E i \in 1..n : wanted[i] > 0 /\ kept[i] = 0) => \A i \in 1..n : kept[i] <= 1
<1> DEFINE many == Cardinality(Claimants(wanted))
           kept == KeptOfEach(wanted, Allocate(wanted, total))
<1>1. many > 0
  <2>1. PICK W \in [0..n -> Int] : Adds(W, n, wanted) /\ Total(wanted) = W[n]
    BY TotalAdds
  <2>2. ASSUME \A i \in 1..n : wanted[i] = 0 PROVE FALSE
    <3> DEFINE T == {k \in 0..n : W[k] = 0}
    <3>1. 0 \in T
      BY <2>1 DEF Adds
    <3>2. ASSUME NEW k \in 0..n, k \in T, k < n PROVE k + 1 \in T
      <4>1. k + 1 \in 1..n /\ (k + 1) - 1 = k
        BY <3>2
      <4> QED
        BY <2>1, <2>2, <3>2, <4>1 DEF Adds
    <3>3. 0..n \subseteq T
      <4> HIDE DEF T
      <4> QED
        BY <3>1, <3>2, CountingUp
    <3> QED
      BY <2>1, <3>3
  <2>3. \E i \in 1..n : wanted[i] > 0
    BY <2>2
  <2> QED
    BY <2>3, AllClaimants
<1>2. CASE total \div many = 0
  <2>1. kept \in [1..n -> 0..1] /\ Total(kept) = total
    BY <1>1, <1>2, OneToTheFirst
  <2> HIDE DEF kept
  <2>2. kept \in [1..n -> Nat] /\ \A i \in 1..n : kept[i] <= 1
    BY <2>1
  <2> QED
    BY <2>1, <2>2 DEF kept
<1>3. CASE total \div many # 0
  <2>1. /\ kept \in [1..n -> Nat] /\ Total(kept) = total
        /\ \A i \in 1..n : wanted[i] > 0 => kept[i] > 0
    <3>1. OneForEach(wanted, total)
      BY <1>1, <1>3 DEF OneForEach
    <3> QED
      BY <3>1, EqualShareFirst
  <2> HIDE DEF kept
  <2>2. ~\E i \in 1..n : wanted[i] > 0 /\ kept[i] = 0
    BY <2>1
  <2> QED
    BY <2>1, <2>2 DEF kept
<1> QED
  BY <1>2, <1>3

-----------------------------------------------------------------------------
(* The budget.  Every file in hand, however it came to be there, has a size *)
(* and a level; a file is opened only within what is left.                  *)

InHand ==
  /\ todo \in Seq(Source)
  /\ seen \in 0..MaxAttachments
  /\ bytes \in 0..MaxTotal

LEMMA Ceilings == MaxAttachments \in Nat /\ MaxTotal \in Nat /\ MaxDepth \in Nat
BY CeilingsAreNumbers

LEMMA LoaderStarts == LoaderInit => InHand
BY Ceilings DEF LoaderInit, InHand

\* The next file and those behind it are files.
LEMMA NextInHand ==
  ASSUME InHand, HasNext
  PROVE  NextFile \in Source /\ Tail(todo) \in Seq(Source)
BY DEF InHand, HasNext, NextFile

\* What is counted stays within the ceilings, whatever may_open answers.
LEMMA CountStays ==
  ASSUME InHand, HasNext, Count(MayOpen(NextFile.size), NextFile.size)
  PROVE  seen' \in 0..MaxAttachments /\ bytes' \in 0..MaxTotal
<1> DEFINE size == NextFile.size
<1>1. size \in Nat
  BY NextInHand, SizesAreNumbers DEF Source
<1> HIDE DEF size
<1>2. CASE MayOpen(size) = "open"
  BY <1>1, <1>2, Ceilings DEF InHand, Count, MayOpen, size
<1>3. CASE MayOpen(size) # "open"
  BY <1>1, <1>3, Ceilings DEF InHand, Count, MayOpen, size
<1> QED
  BY <1>2, <1>3

\* An opened file is counted and leaves files in its place.
LEMMA OpenedInHand ==
  ASSUME InHand, Open, NEW inside \in Seq(Source), todo' = inside \o Tail(todo)
  PROVE  InHand'
<1>1. HasNext /\ Count(MayOpen(NextFile.size), NextFile.size)
  BY DEF Open, Fetched, Arrives
<1> QED
  BY <1>1, NextInHand, CountStays DEF InHand

\* What comes out of an archive or an email is one level further down.
LEMMA ChildrenAreFiles ==
  ASSUME InHand, HasNext, ~TooDeep, NEW entries \in Seq(Sizes)
  PROVE  Children(entries) \in Seq(Source)
<1>1. NextFile.depth \in 0..MaxDepth
  BY NextInHand DEF Source
<1>2. NextFile.depth + 1 \in 0..MaxDepth
  BY <1>1, Ceilings DEF TooDeep
<1>3. \A i \in DOMAIN entries :
        [size |-> entries[i], is |-> "file", depth |-> NextFile.depth + 1] \in Source
  BY <1>2 DEF Source
<1> QED
  BY <1>3 DEF Children

LEMMA LoaderKeeps == InHand /\ [Load]_loader => InHand'
<1> SUFFICES ASSUME InHand, [Load]_loader PROVE InHand'
  OBVIOUS
<1>1. <<>> \in Seq(Source)
  OBVIOUS
<1>2. ASSUME NEW d, Open, List(d, <<>>) PROVE InHand'
  BY <1>1, <1>2, OpenedInHand DEF List
<1>3. CASE SkipSignature
  BY <1>3, NextInHand DEF SkipSignature, InHand
<1>4. CASE ListUnfetched
  BY <1>4, <1>1, NextInHand DEF ListUnfetched, List, InHand, Arrives
<1>5. CASE Refuse
  <2>1. HasNext /\ Count(MayOpen(NextFile.size), NextFile.size) /\ todo' = <<>> \o Tail(todo)
    BY <1>5 DEF Refuse, Fetched, Arrives, List
  <2> QED
    BY <2>1, <1>1, NextInHand, CountStays DEF InHand
<1>6. CASE CannotRead \/ ReadSheet \/ ReadOffice \/ ReadHtml \/ ReadText \/ ReadPdf
           \/ ReadScan \/ ReadImage
  BY <1>6, <1>2 DEF CannotRead, ReadSheet, ReadOffice, ReadHtml, ReadText, ReadPdf, ReadScan,
                    ReadImage
<1>7. CASE RaiseWhileReading
  BY <1>7, <1>1, CountStays DEF RaiseWhileReading, Open, Fetched, Arrives, InHand
\* Opened, with files in its place.
<1> DEFINE Leaves(children) == Open /\ \E d : List(d, children)
<1>7a. ASSUME NEW children \in Seq(Source), Leaves(children) PROVE InHand'
  BY <1>7a, OpenedInHand DEF List
<1>8. CASE OpenArchive
  <2>1. CASE Leaves(<<>>)
    BY <2>1, <1>1, <1>7a
  <2>2. CASE ~TooDeep /\ \E entries \in Contents : \E kept \in 0..Len(entries) :
                             Leaves(Children(SubSeq(entries, 1, kept)))
    <3>1. PICK entries \in Contents, kept \in Nat :
            kept <= Len(entries) /\ Leaves(Children(SubSeq(entries, 1, kept)))
      BY <2>2 DEF Contents
    <3>2. SubSeq(entries, 1, kept) \in Seq(Sizes)
      BY <3>1 DEF Contents
    <3>3. HasNext
      BY <3>1 DEF Open, Fetched, Arrives
    <3> QED
      BY <2>2, <3>1, <3>2, <3>3, <1>7a, ChildrenAreFiles
  <2> QED
    BY <1>8, <2>1, <2>2 DEF OpenArchive
<1>9. CASE OpenEmail
  <2>1. CASE Leaves(<<>>)
    BY <2>1, <1>1, <1>7a
  <2>2. CASE \E entries \in Contents : (~TooDeep \/ entries = <<>>) /\ Leaves(Children(entries))
    <3>1. PICK entries \in Contents : (~TooDeep \/ entries = <<>>) /\ Leaves(Children(entries))
      BY <2>2
    <3>2. entries \in Seq(Sizes) /\ HasNext
      BY <3>1 DEF Contents, Open, Fetched, Arrives
    <3>3. entries = <<>> => Children(entries) \in Seq(Source)
      BY DEF Children
    <3> QED
      BY <3>1, <3>2, <3>3, <1>7a, ChildrenAreFiles
  <2> QED
    BY <1>9, <2>1, <2>2 DEF OpenEmail
<1>10. CASE FitImages
  BY <1>10 DEF FitImages, InHand
<1>11. CASE UNCHANGED loader
  BY <1>11 DEF loader, InHand
<1> QED
  BY <1>3, <1>4, <1>5, <1>6, <1>7, <1>8, <1>9, <1>10, <1>11 DEF Load

\* For any ceilings and any attachments, nested to any depth: no more files and no
\* more bytes are opened than the budget has, and none below its last level.
THEOREM NeverOverBudget == LoaderSpec => []WithinBudget
<1>1. LoaderSpec => []InHand
  BY LoaderStarts, LoaderKeeps, PTL DEF LoaderSpec
<1>2. ASSUME InHand PROVE WithinBudget
  <2>1. \A i \in DOMAIN todo : todo[i] \in Source
    BY <1>2 DEF InHand
  <2>2. \A f \in Source : f.depth <= MaxDepth
    <3>1. \A f \in Source : f.depth \in 0..MaxDepth
      BY DEF Source
    <3> QED
      BY <3>1, Ceilings
  <2> QED
    BY <1>2, <2>1, <2>2, Ceilings DEF InHand, WithinBudget
<1> QED
  BY <1>1, <1>2, PTL

-----------------------------------------------------------------------------
(* What is dropped.  NothingDropsInSilence is not inductive: that the list  *)
(* is complete at the end needs what is listed and what is awaited to be    *)
(* what came, at every step, and archives to add nothing to either.         *)

\* The attachments still to be listed, and those that are.
Awaited(sources) == {i \in DOMAIN sources : sources[i].depth = 0 /\ ~IsSignatureImage(sources[i])}
Listed(ds) == {i \in DOMAIN ds : ds[i].depth = 0}

\* The first file gone and contents of it in front: one less is awaited, if it was.
LEMMA OneLessAwaited ==
  ASSUME NEW sources \in Seq(Source), sources # <<>>,
         NEW children \in Seq(Source), \A i \in DOMAIN children : children[i].depth # 0
  PROVE  LET rest == children \o Tail(sources)
         IN /\ IsFiniteSet(Awaited(sources)) /\ IsFiniteSet(Awaited(rest))
            /\ Cardinality(Awaited(sources))
                 = Cardinality(Awaited(rest)) + (IF 1 \in Awaited(sources) THEN 1 ELSE 0)
<1> DEFINE n == Len(children)
           m == Len(sources)
           rest == children \o Tail(sources)
           S == Awaited(sources) \ {1}
           T == Awaited(rest)
           f == [i \in S |-> i - 1 + n]
<1>1. n \in Nat /\ m \in Nat \ {0} /\ DOMAIN sources = 1..m
  OBVIOUS
<1>2. /\ DOMAIN rest = 1..(n + m - 1)
      /\ \A j \in 1..n : rest[j] = children[j]
      /\ \A i \in 2..m : rest[i - 1 + n] = sources[i]
  <2>1. Tail(sources) \in Seq(Source) /\ Len(Tail(sources)) = m - 1
    BY <1>1
  <2>2. \A i \in 2..m : Tail(sources)[i - 1] = sources[i]
    BY <1>1
  <2> DEFINE tail == Tail(sources)
  <2>3. rest = children \o tail /\ tail \in Seq(Source) /\ Len(tail) = m - 1
    BY <2>1
  <2> HIDE DEF tail, rest
  <2>4. /\ DOMAIN rest = 1..(n + Len(tail))
        /\ \A j \in 1..n : rest[j] = children[j]
        /\ \A j \in 1..Len(tail) : rest[n + j] = tail[j]
    BY <2>3
  <2>5. ASSUME NEW i \in 2..m PROVE rest[i - 1 + n] = sources[i]
    <3>1. i - 1 \in 1..Len(tail) /\ n + (i - 1) = i - 1 + n
      BY <1>1, <2>3
    <3>2. rest[n + (i - 1)] = tail[i - 1]
      BY <2>4, <3>1
    <3> QED
      BY <2>2, <3>1, <3>2 DEF tail
  <2> QED
    BY <1>1, <2>3, <2>4, <2>5
<1>3. \A i \in S : i \in 2..m /\ i - 1 + n \in T
  <2>1. ASSUME NEW i \in S PROVE i \in 2..m /\ i - 1 + n \in 1..(n + m - 1)
    BY <1>1 DEF Awaited
  <2> HIDE DEF rest
  <2>2. ASSUME NEW i \in S PROVE i - 1 + n \in T
    BY <1>2, <2>1 DEF Awaited
  <2> QED
    BY <2>1, <2>2
<1>4. \A j \in T : j \in (n + 1)..(n + m - 1) /\ j - n + 1 \in S /\ (j - n + 1) - 1 + n = j
  <2> SUFFICES ASSUME NEW j \in T
               PROVE  j \in (n + 1)..(n + m - 1) /\ j - n + 1 \in S /\ (j - n + 1) - 1 + n = j
    OBVIOUS
  <2> HIDE DEF rest
  <2>1. j \in 1..(n + m - 1) /\ rest[j].depth = 0 /\ ~IsSignatureImage(rest[j])
    BY <1>2 DEF Awaited
  <2>2. j \notin 1..n
    BY <1>2, <2>1
  <2>3. j - n + 1 \in 2..m /\ (j - n + 1) - 1 + n = j
    BY <1>1, <2>1, <2>2
  <2>4. rest[j] = sources[j - n + 1]
    BY <1>2, <2>3
  <2> QED
    BY <1>1, <2>1, <2>2, <2>3, <2>4 DEF Awaited
<1>5. IsFiniteSet(Awaited(sources)) /\ IsFiniteSet(S) /\ IsFiniteSet(T)
  <2>1. IsFiniteSet(1..m) /\ IsFiniteSet(1..(n + m - 1))
    BY <1>1, FS_Interval
  <2>2. Awaited(sources) \in SUBSET (1..m) /\ S \in SUBSET (1..m) /\ T \in SUBSET (1..(n + m - 1))
    BY <1>1, <1>2 DEF Awaited
  <2> HIDE DEF S, T
  <2> QED
    BY <2>1, <2>2, FS_Subset
<1>6. f \in Bijection(S, T)
  <2> HIDE DEF T, S
  <2>1. f \in [S -> T]
    BY <1>3
  <2>2. \A a, b \in S : f[a] = f[b] => a = b
    BY <1>1, <1>3
  <2>3. \A j \in T : \E i \in S : f[i] = j
    BY <1>4
  <2> QED
    BY <2>1, <2>2, <2>3, Zenon DEF Bijection, Injection, Surjection, IsInjective
<1>7. Cardinality(T) = Cardinality(S)
  <2>1. ExistsBijection(S, T)
    BY <1>6 DEF ExistsBijection
  <2> HIDE DEF S, T
  <2> QED
    BY <1>5, <2>1, FS_Bijection
<1>8. Cardinality(S) = IF 1 \in Awaited(sources) THEN Cardinality(Awaited(sources)) - 1
                       ELSE Cardinality(Awaited(sources))
  BY <1>5, FS_RemoveElement
<1>9. Cardinality(Awaited(sources)) \in Nat
  BY <1>5, FS_CardinalityType
<1> HIDE DEF S, T, rest
<1> QED
  BY <1>5, <1>7, <1>8, <1>9 DEF T, rest

\* A document at the end of the list.
LEMMA OneMoreListed ==
  ASSUME NEW X, NEW ds \in Seq(X), NEW d \in X
  PROVE  /\ IsFiniteSet(Listed(ds)) /\ IsFiniteSet(Listed(Append(ds, d)))
         /\ Cardinality(Listed(Append(ds, d)))
              = Cardinality(Listed(ds)) + (IF d.depth = 0 THEN 1 ELSE 0)
<1> DEFINE n == Len(ds)
<1>1. n \in Nat /\ DOMAIN ds = 1..n
  OBVIOUS
<1>2. DOMAIN Append(ds, d) = 1..(n + 1) /\ Append(ds, d)[n + 1] = d
      /\ \A i \in 1..n : Append(ds, d)[i] = ds[i]
  BY <1>1
<1>3. IsFiniteSet(Listed(ds)) /\ n + 1 \notin Listed(ds)
  <2>1. Listed(ds) \in SUBSET (1..n) /\ IsFiniteSet(1..n)
    BY <1>1, FS_Interval DEF Listed
  <2> QED
    BY <1>1, <2>1, FS_Subset
<1>4. Listed(Append(ds, d)) = IF d.depth = 0 THEN Listed(ds) \cup {n + 1} ELSE Listed(ds)
  <2> DEFINE longer == Append(ds, d)
  <2>1. /\ DOMAIN longer = 1..(n + 1) /\ longer[n + 1] = d
        /\ \A i \in 1..n : longer[i] = ds[i]
    BY <1>2
  <2>2. 1..(n + 1) = (1..n) \cup {n + 1}
    BY <1>1
  <2> HIDE DEF longer, n
  <2>3. Listed(longer) = IF d.depth = 0 THEN Listed(ds) \cup {n + 1} ELSE Listed(ds)
    BY <1>1, <2>1, <2>2 DEF Listed
  <2> QED
    BY <2>3 DEF longer
<1>5. Cardinality(Listed(ds)) \in Nat
  BY <1>3, FS_CardinalityType
<1>6. IsFiniteSet(Listed(ds) \cup {n + 1})
      /\ Cardinality(Listed(ds) \cup {n + 1}) = Cardinality(Listed(ds)) + 1
  BY <1>3, FS_AddElement
<1> QED
  BY <1>3, <1>4, <1>5, <1>6

\* A document that owns up to what it lost.
OwnsUp(d) ==
  /\ DOMAIN d = DOMAIN NothingRead
  /\ \A loss \in d.lost \ Unsaid : d.codes \cap Says(loss) # {}
  /\ d.images \in Nat

\* One that no picture was taken from yet.
Fresh(d) == OwnsUp(d) /\ "images" \notin d.lost

Accounted ==
  /\ InHand
  /\ documents \in Seq(Range(documents))
  /\ \A i \in DOMAIN documents : OwnsUp(documents[i])
  /\ loading # "raised" =>
       Cardinality(Listed(documents)) + Cardinality(Awaited(todo)) = expected
  /\ loading = "loading" => \A i \in DOMAIN documents : Fresh(documents[i])
  /\ loading = "loaded" => todo = <<>>

LEMMA AccountsOpen == LoaderInit => Accounted
<1> SUFFICES ASSUME LoaderInit PROVE Accounted
  OBVIOUS
<1>1. InHand
  BY LoaderStarts
<1>2. documents = <<>> /\ loading = "loading"
  BY DEF LoaderInit
<1>3. Listed(documents) = {}
  BY <1>2 DEF Listed
<1>4. Awaited(todo) = {i \in DOMAIN todo : ~IsSignatureImage(todo[i])}
  <2>1. \A i \in DOMAIN todo : todo[i].depth = 0
    BY DEF LoaderInit
  <2> QED
    BY <2>1 DEF Awaited
<1>5. IsFiniteSet(Awaited(todo))
  <2> DEFINE n == Len(todo)
  <2>1. Awaited(todo) \in SUBSET (1..n) /\ n \in Nat
    BY <1>1 DEF Awaited, InHand
  <2> HIDE DEF n
  <2>2. IsFiniteSet(1..n)
    BY <2>1, FS_Interval
  <2> QED
    BY <2>1, <2>2, FS_Subset
<1>6. Cardinality(Awaited(todo)) = expected /\ expected \in Nat
  BY <1>4, <1>5, FS_CardinalityType DEF LoaderInit
<1>7. Cardinality(Listed(documents)) = 0
  BY <1>3, FS_EmptySet
<1> QED
  BY <1>1, <1>2, <1>6, <1>7 DEF Accounted

\* A document is listed, for the file in turn, and its contents come next.
LEMMA ListingIsAccounted ==
  ASSUME Accounted, Arrives, InHand',
         NEW d, Fresh(d),
         NEW children \in Seq(Source), \A i \in DOMAIN children : children[i].depth # 0,
         List(d, children)
  PROVE  Accounted'
<1> DEFINE new == [d EXCEPT !.depth = NextFile.depth]
           X == Range(documents) \cup {new}
<1>1. todo \in Seq(Source) /\ todo # <<>> /\ NextFile = todo[1] /\ loading = "loading"
  BY DEF Accounted, InHand, Arrives, HasNext, NextFile
<1>2. /\ documents' = Append(documents, new)
      /\ todo' = children \o Tail(todo)
      /\ UNCHANGED <<loading, expected>>
  BY DEF List
<1>3. Fresh(new) /\ new.depth = NextFile.depth
  <2>1. DOMAIN d = DOMAIN NothingRead
    BY DEF Fresh, OwnsUp
  <2>2. DOMAIN new = DOMAIN NothingRead
    BY <2>1
  <2>3. /\ new.depth = NextFile.depth /\ new.lost = d.lost
        /\ new.codes = d.codes /\ new.images = d.images
    BY <2>1 DEF NothingRead
  <2> HIDE DEF new
  <2> QED
    BY <2>2, <2>3 DEF Fresh, OwnsUp
<1> HIDE DEF new
<1>4. documents \in Seq(X) /\ new \in X
  BY DEF Accounted
<1>5. documents' \in Seq(Range(documents'))
  <2> DEFINE n == Len(documents)
  <2>1. n \in Nat /\ DOMAIN documents' = 1..(n + 1)
    BY <1>2, <1>4
  <2>2. \A i \in 1..(n + 1) : documents'[i] \in Range(documents')
    BY <2>1 DEF Range
  <2>3. documents' \in Seq(X)
    BY <1>2, <1>4
  <2>4. documents' = [i \in 1..(n + 1) |-> documents'[i]]
    BY <2>1, <2>3
  <2> HIDE DEF n
  <2> QED
    BY <2>1, <2>2, <2>4
<1>6. \A i \in DOMAIN documents' : Fresh(documents'[i])
  <2> DEFINE n == Len(documents)
  <2>1. n \in Nat /\ DOMAIN documents' = 1..(n + 1) /\ DOMAIN documents = 1..n
    BY <1>2, <1>4
  <2>2. documents'[n + 1] = new /\ \A i \in 1..n : documents'[i] = documents[i]
    BY <1>2, <1>4
  <2>3. \A i \in 1..n : Fresh(documents[i])
    BY <1>1, <2>1 DEF Accounted
  <2> HIDE DEF n
  <2> QED
    BY <1>3, <2>1, <2>2, <2>3
<1>7. Cardinality(Listed(documents')) + Cardinality(Awaited(todo')) = expected
  <2>1. /\ IsFiniteSet(Listed(documents))
        /\ Cardinality(Listed(documents'))
             = Cardinality(Listed(documents)) + (IF NextFile.depth = 0 THEN 1 ELSE 0)
    <3> HIDE DEF X
    <3> QED
      BY <1>2, <1>3, <1>4, OneMoreListed
  <2>2. /\ IsFiniteSet(Awaited(todo')) /\ IsFiniteSet(Awaited(todo))
        /\ Cardinality(Awaited(todo))
             = Cardinality(Awaited(todo')) + (IF 1 \in Awaited(todo) THEN 1 ELSE 0)
    BY <1>1, <1>2, OneLessAwaited
  <2>3. 1 \in Awaited(todo) <=> NextFile.depth = 0
    BY <1>1 DEF Awaited, Arrives
  <2>4. /\ Cardinality(Listed(documents)) \in Nat /\ Cardinality(Awaited(todo')) \in Nat
        /\ Cardinality(Awaited(todo)) \in Nat
    BY <2>1, <2>2, FS_CardinalityType
  <2>5. Cardinality(Listed(documents)) + Cardinality(Awaited(todo)) = expected
    BY <1>1 DEF Accounted
  <2> QED
    BY <2>1, <2>2, <2>3, <2>4, <2>5
<1> QED
  BY <1>1, <1>2, <1>5, <1>6, <1>7 DEF Accounted, Fresh

\* What is opened and unpacked into nothing.
LEMMA LeafIsAccounted ==
  ASSUME Accounted, Arrives, InHand', NEW d, Fresh(d), List(d, <<>>)
  PROVE  Accounted'
<1>1. <<>> \in Seq(Source) /\ \A i \in DOMAIN <<>> : <<>>[i].depth # 0
  OBVIOUS
<1> QED
  BY <1>1, ListingIsAccounted

LEMMA DroppedOwnsUp ==
  ASSUME NEW code \in Says("file")
  PROVE  Fresh([NothingRead EXCEPT !.codes = {code}, !.lost = {"file"}])
<1> DEFINE d == [NothingRead EXCEPT !.codes = {code}, !.lost = {"file"}]
<1>1. DOMAIN d = DOMAIN NothingRead /\ d.codes = {code} /\ d.lost = {"file"}
      /\ d.images = 0
  BY DEF NothingRead
<1> HIDE DEF d
<1> QED
  BY <1>1 DEF Fresh, OwnsUp, d

\* A long text is cut with its code, whatever else the document lost.
LEMMA CappedOwnsUp ==
  ASSUME NEW d, Fresh(d), NEW long \in BOOLEAN
  PROVE  Fresh(Capped(d, long))
<1> DEFINE e == Capped(d, long)
<1>1. DOMAIN d = DOMAIN NothingRead
  BY DEF Fresh, OwnsUp
<1>2. DOMAIN e = DOMAIN NothingRead
  BY <1>1 DEF Capped
<1>3. /\ e.codes = d.codes \cup If(long, "text truncated")
      /\ e.lost = d.lost \cup If(long, "text")
      /\ e.images = d.images
  BY <1>1 DEF Capped, NothingRead
<1>4. "text truncated" \in Says("text")
  BY DEF Says
<1> HIDE DEF e
<1>5. ASSUME NEW loss \in e.lost \ Unsaid PROVE e.codes \cap Says(loss) # {}
  <2>1. CASE loss \in d.lost
    BY <1>3, <1>5, <2>1 DEF Fresh, OwnsUp
  <2>2. CASE loss \notin d.lost
    <3>1. long /\ loss = "text"
      BY <1>3, <1>5, <2>2 DEF If
    <3> QED
      BY <1>3, <1>4, <3>1 DEF If
  <2> QED
    BY <2>1, <2>2
<1>6. Fresh(e)
  BY <1>2, <1>3, <1>5 DEF Fresh, OwnsUp, If
<1> QED
  BY <1>6 DEF e

\* What a reader leaves out without a word takes no code away.
LEMMA LeavingOwnsUp ==
  ASSUME NEW d, Fresh(d), NEW left \in SUBSET Unsaid
  PROVE  Fresh(Leaving(d, left))
<1> DEFINE e == Leaving(d, left)
<1>1. DOMAIN d = DOMAIN NothingRead
  BY DEF Fresh, OwnsUp
<1>2. DOMAIN e = DOMAIN NothingRead
  BY <1>1 DEF Leaving
<1>3. e.codes = d.codes /\ e.lost = d.lost \cup left /\ e.images = d.images
  BY <1>1 DEF Leaving, NothingRead
<1>4. "images" \notin Unsaid
  <2>1. ASSUME NEW kind \in DOMAIN Silent PROVE "images" \notin Silent[kind]
    <3>1. kind \in {"sheet", "office", "html", "pdf", "image", "archive", "email"}
      BY <2>1 DEF Silent
    <3>2. /\ "images" \notin Silent.sheet /\ "images" \notin Silent.office
          /\ "images" \notin Silent.html /\ "images" \notin Silent.pdf
          /\ "images" \notin Silent.image /\ "images" \notin Silent.archive
          /\ "images" \notin Silent.email
      BY DEF Silent
    <3> QED
      BY <3>1, <3>2
  <2> QED
    BY <2>1 DEF Unsaid
<1> HIDE DEF e
<1>5. Fresh(e)
  BY <1>2, <1>3, <1>4 DEF Fresh, OwnsUp
<1> QED
  BY <1>5 DEF e

LEMMA SilenceIsUnsaid ==
  /\ Silent.sheet \subseteq Unsaid /\ Silent.office \subseteq Unsaid
  /\ Silent.html \subseteq Unsaid /\ Silent.pdf \subseteq Unsaid
  /\ Silent.image \subseteq Unsaid /\ Silent.archive \subseteq Unsaid
  /\ Silent.email \subseteq Unsaid /\ "office rows" \in Unsaid
BY DEF Silent, Unsaid

LEMMA AtMostTheCode ==
  ASSUME NEW condition, NEW code
  PROVE  If(condition, code) \subseteq {code}
BY DEF If

\* What the readers list owns up.
LEMMA TableOwnsUp ==
  ASSUME NEW rows \in Int, NEW blank \in BOOLEAN
  PROVE  Fresh(TableDocument(rows, blank))
<1> DEFINE d == TableDocument(rows, blank)
<1>1. DOMAIN d = DOMAIN NothingRead
  BY DEF TableDocument
<1>2. d.codes = If(rows > MaxRows, "rows truncated")
  BY DEF TableDocument, NothingRead
<1>6. d.lost = If(rows > MaxRows, "rows")
  BY DEF TableDocument, NothingRead
<1>5. d.images = 0
  BY DEF TableDocument, NothingRead
<1>3. "rows truncated" \in Says("rows")
  BY DEF Says
<1> HIDE DEF d
<1>4. Fresh(d)
  <2>1. "images" \notin d.lost
    BY <1>6, AtMostTheCode
  <2>2. d.images \in Nat
    BY <1>5
  <2>3. \A loss \in d.lost \ Unsaid : d.codes \cap Says(loss) # {}
    BY <1>2, <1>6, <1>3, Zenon DEF If
  <2> QED
    BY <1>1, <2>1, <2>2, <2>3 DEF Fresh, OwnsUp
<1> QED
  BY <1>4 DEF d

LEMMA CutRowsOwnUp ==
  ASSUME NEW rows \in Int, NEW text \in BOOLEAN
  PROVE  Fresh(CutRows(rows, text))
<1> DEFINE d == CutRows(rows, text)
<1>1. DOMAIN d = DOMAIN NothingRead
  BY DEF CutRows
<1>2. d.lost = If(rows > MaxRows, "office rows")
  BY DEF CutRows, NothingRead
<1>5. d.images = 0
  BY DEF CutRows, NothingRead
<1>3. d.lost \subseteq Unsaid /\ "images" \notin d.lost
  <2> HIDE DEF d
  <2> QED
    <3>1. d.lost = {} \/ d.lost = {"office rows"}
      BY <1>2, Zenon DEF If
    <3>2. "office rows" \in Unsaid
      BY SilenceIsUnsaid, Zenon
    <3>3. "images" # "office rows"
      BY Zenon
    <3> QED
      BY <3>1, <3>2, <3>3, Zenon
<1> HIDE DEF d
<1>4. Fresh(d)
  <2>1. "images" \notin d.lost
    BY <1>3
  <2>2. d.images \in Nat
    BY <1>5
  <2>3. \A loss \in d.lost \ Unsaid : d.codes \cap Says(loss) # {}
    BY <1>2, <1>3 DEF If
  <2> QED
    BY <1>1, <2>1, <2>2, <2>3 DEF Fresh, OwnsUp
<1> QED
  BY <1>4 DEF d

LEMMA PdfOwnsUp ==
  ASSUME NEW pages \in Int, NEW tables \in BOOLEAN
  PROVE  Fresh(PageDocument(pages, tables))
<1> DEFINE d == PageDocument(pages, tables)
<1>1. DOMAIN d = DOMAIN NothingRead
  BY DEF PageDocument
<1>2. d.codes = If(pages > MaxPages, "pages truncated")
  BY DEF PageDocument, NothingRead
<1>6. d.lost = If(pages > MaxPages, "pages")
  BY DEF PageDocument, NothingRead
<1>5. d.images = 0
  BY DEF PageDocument, NothingRead
<1>3. "pages truncated" \in Says("pages")
  BY DEF Says
<1> HIDE DEF d
<1>4. Fresh(d)
  <2>1. "images" \notin d.lost
    BY <1>6, AtMostTheCode
  <2>2. d.images \in Nat
    BY <1>5
  <2>3. \A loss \in d.lost \ Unsaid : d.codes \cap Says(loss) # {}
    BY <1>2, <1>6, <1>3, Zenon DEF If
  <2> QED
    BY <1>1, <2>1, <2>2, <2>3 DEF Fresh, OwnsUp
<1> QED
  BY <1>4 DEF d

LEMMA ScanOwnsUp ==
  ASSUME NEW pages \in Nat
  PROVE  Fresh(ScanDocument(pages)) /\ Fresh(Undrawn(ScanDocument(pages)))
<1> DEFINE s == ScanDocument(pages)
           cut == pages > MaxRasterized \/ pages > MaxPages
<1>1. DOMAIN s = DOMAIN NothingRead
  BY DEF ScanDocument
<1>2. /\ s.codes = {"scanned pdf"} \cup If(cut, "pages truncated")
      /\ s.lost = If(pages > MaxRasterized, "pages")
      /\ s.images = Min({pages, MaxRasterized})
  BY DEF ScanDocument, NothingRead
<1>3. "pages truncated" \in Says("pages") /\ "unreadable" \in Says("file")
  BY DEF Says
<1>4. Min({pages, MaxRasterized}) \in Nat
  BY CeilingsAreNumbers, LeastOfTwo
<1> HIDE DEF s
<1>5. Fresh(s)
  <2>1. "images" \notin s.lost
    <3>1. s.lost \subseteq {"pages"}
      BY <1>2 DEF If
    <3> QED
      BY <3>1
  <2>2. s.images \in Nat
    BY <1>2, <1>4
  <2>3. \A loss \in s.lost \ Unsaid : s.codes \cap Says(loss) # {}
    BY <1>2, <1>3 DEF If
  <2> QED
    BY <1>1, <2>1, <2>2, <2>3 DEF Fresh, OwnsUp
<1> DEFINE u == Undrawn(s)
<1>6. DOMAIN u = DOMAIN NothingRead
  BY <1>1 DEF Undrawn
<1>7. u.codes = s.codes \cup {"unreadable"} /\ u.lost = s.lost \cup {"file"} /\ u.images = 0
  BY <1>1 DEF Undrawn, NothingRead
<1> HIDE DEF u
<1>8. Fresh(u)
  <2>1. "images" \notin u.lost
    BY <1>5, <1>7 DEF Fresh
  <2>2. u.images \in Nat
    BY <1>7
  <2>3. \A loss \in u.lost \ Unsaid : u.codes \cap Says(loss) # {}
    BY <1>3, <1>5, <1>7 DEF Fresh, OwnsUp
  <2> QED
    BY <1>6, <2>1, <2>2, <2>3 DEF Fresh, OwnsUp
<1> QED
  BY <1>5, <1>8 DEF s, u

LEMMA UnpackedOwnsUp ==
  ASSUME NEW entries, NEW kept, NEW broken \in BOOLEAN
  PROVE  Fresh(Unpacked(entries, kept, broken))
<1> DEFINE d == Unpacked(entries, kept, broken)
           cut == kept < Len(entries)
<1>1. DOMAIN d = DOMAIN NothingRead
  BY DEF Unpacked
<1>2. /\ d.codes = IF cut THEN {IF kept = MaxEntries THEN "archive entries truncated"
                                ELSE "archive too big"}
                   ELSE If(broken, "unreadable")
      /\ d.lost = If(cut \/ broken, "entries")
  BY DEF Unpacked, NothingRead
<1>5. d.images = 0
  BY DEF Unpacked, NothingRead
<1>3. {"archive entries truncated", "archive too big", "unreadable"} \subseteq Says("entries")
  BY DEF Says
<1> HIDE DEF d, cut
<1>4. Fresh(d)
  <2>1. "images" \notin d.lost
    <3>1. d.lost \subseteq {"entries"}
      BY <1>2 DEF If
    <3> QED
      BY <3>1
  <2>2. d.images \in Nat
    BY <1>5
  <2>3. \A loss \in d.lost \ Unsaid : d.codes \cap Says(loss) # {}
    BY <1>2, <1>3 DEF If
  <2> QED
    BY <1>1, <2>1, <2>2, <2>3 DEF Fresh, OwnsUp
<1> QED
  BY <1>4 DEF d

LEMMA ShutOwnsUp ==
  ASSUME NEW shut \in BOOLEAN, NEW body \in BOOLEAN
  PROVE  Fresh([NothingRead EXCEPT !.container = TRUE, !.text = body,
                                 !.codes = If(shut, "nested too deep"),
                                 !.lost = If(shut, "entries")])
<1> DEFINE d == [NothingRead EXCEPT !.container = TRUE, !.text = body,
                                 !.codes = If(shut, "nested too deep"),
                                 !.lost = If(shut, "entries")]
<1>1. DOMAIN d = DOMAIN NothingRead
  OBVIOUS
<1>2. d.codes = If(shut, "nested too deep")
  BY DEF NothingRead
<1>6. d.lost = If(shut, "entries")
  BY DEF NothingRead
<1>5. d.images = 0
  BY DEF NothingRead
<1>3. "nested too deep" \in Says("entries")
  BY DEF Says
<1> HIDE DEF d
<1>4. Fresh(d)
  <2>1. "images" \notin d.lost
    BY <1>6, AtMostTheCode
  <2>2. d.images \in Nat
    BY <1>5
  <2>3. \A loss \in d.lost \ Unsaid : d.codes \cap Says(loss) # {}
    BY <1>2, <1>6, <1>3, Zenon DEF If
  <2> QED
    BY <1>1, <2>1, <2>2, <2>3 DEF Fresh, OwnsUp
<1> QED
  BY <1>4 DEF d

\* How many pictures a document is left with.
Left(i) == KeptOfEach(Wanted(documents), Allocate(Wanted(documents), MaxImages))[i]

\* What _fit_images takes: from whom it leaves less than there was, and with the code.
LEMMA FittingTakes ==
  ASSUME Accounted, FitImages, ~(Pictures(documents) <= MaxImages)
  PROVE  /\ Wanted(documents) \in [DOMAIN documents -> Nat]
         /\ DOMAIN documents' = DOMAIN documents
         /\ \A i \in DOMAIN documents :
              /\ Left(i) \in Nat
              /\ documents'[i] =
                   IF Left(i) = documents[i].images THEN documents[i]
                   ELSE [documents[i] EXCEPT !.images = Left(i),
                                             !.codes = @ \cup {"images truncated"},
                                             !.lost = @ \cup {"images"}]
         /\ Total([i \in DOMAIN documents |-> Left(i)]) = MaxImages
         /\ (\E i \in DOMAIN documents : Left(i) # documents[i].images /\ Left(i) = 0)
              => \A i \in DOMAIN documents : Left(i) <= 1
<1> DEFINE n == Len(documents)
           wanted == Wanted(documents)
           allowed == Allocate(wanted, MaxImages)
           kept == KeptOfEach(wanted, allowed)
<1>1. n \in Nat /\ DOMAIN documents = 1..n /\ MaxImages \in Nat
  BY CeilingsAreNumbers DEF Accounted
<1>2. \A i \in 1..n : documents[i].images \in Nat /\ wanted[i] = documents[i].images
  BY <1>1 DEF Accounted, OwnsUp, Wanted
<1>3. wanted \in [1..n -> Nat]
  BY <1>1, <1>2 DEF Wanted
<1>4. Total(wanted) \in Int /\ Total(wanted) > MaxImages
  <2>1. wanted \in [1..n -> Int]
    BY <1>3
  <2>2. Total(wanted) \in Int
    <3> HIDE DEF wanted, n
    <3> QED
      BY <1>1, <2>1, TotalsAreNumbers
  <2> QED
    BY <1>1, <2>2 DEF Pictures
<1>5. /\ kept \in [1..n -> Nat]
      /\ Total(kept) = MaxImages
      /\ (\E i \in 1..n : wanted[i] > 0 /\ kept[i] = 0) => \A i \in 1..n : kept[i] <= 1
  <2> HIDE DEF wanted, n
  <2> QED
    BY <1>1, <1>3, <1>4, SlotsAreShared
<1>6. \A i \in 1..n : Left(i) = kept[i]
  BY DEF Left
<1>7. \A i \in 1..n : kept[i] = IF wanted[i] = 0 \/ wanted[i] <= allowed[i] THEN wanted[i]
                                ELSE allowed[i]
  <2> HIDE DEF wanted, allowed, n
  <2> QED
    BY <1>3 DEF KeptOfEach
<1>8. documents' = [i \in 1..n |-> Fitted(i)]
  BY <1>1 DEF FitImages
<1>9. ASSUME NEW i \in 1..n
      PROVE  documents'[i] =
                   IF Left(i) = documents[i].images THEN documents[i]
                   ELSE [documents[i] EXCEPT !.images = Left(i),
                                             !.codes = @ \cup {"images truncated"},
                                             !.lost = @ \cup {"images"}]
  <2>1. documents'[i] =
          IF documents[i].images = 0 \/ documents[i].images <= allowed[i] THEN documents[i]
          ELSE [documents[i] EXCEPT !.images = allowed[i],
                                    !.codes = @ \cup {"images truncated"},
                                    !.lost = @ \cup {"images"}]
    BY <1>8 DEF Fitted
  <2>2. kept[i] \in Nat /\ documents[i].images \in Nat /\ wanted[i] = documents[i].images
    BY <1>2, <1>5
  <2> HIDE DEF wanted, allowed, kept, n
  <2>3. CASE documents[i].images = 0 \/ documents[i].images <= allowed[i]
    <3>1. Left(i) = documents[i].images
      BY <1>6, <1>7, <2>2, <2>3
    <3> QED
      BY <2>1, <2>3, <3>1
  <2>4. CASE ~(documents[i].images = 0 \/ documents[i].images <= allowed[i])
    <3>1. Left(i) = allowed[i] /\ Left(i) # documents[i].images
      BY <1>6, <1>7, <2>2, <2>4
    <3> QED
      BY <2>1, <2>4, <3>1
  <2> QED
    BY <2>3, <2>4
<1>10. Total([i \in DOMAIN documents |-> Left(i)]) = MaxImages
  <2>1. [i \in 1..n |-> Left(i)] = kept
    <3> HIDE DEF wanted, allowed, kept, n
    <3> QED
      BY <1>5, <1>6
  <2> QED
    BY <1>1, <1>5, <2>1
<1>11. ASSUME NEW i \in 1..n, Left(i) # documents[i].images, Left(i) = 0
       PROVE  \A k \in 1..n : Left(k) <= 1
  <2> HIDE DEF wanted, allowed, kept, n
  <2>1. wanted[i] > 0 /\ kept[i] = 0
    BY <1>2, <1>6, <1>11
  <2> QED
    BY <1>5, <1>6, <2>1
<1>12. \A i \in 1..n : Left(i) \in Nat
  <2> HIDE DEF wanted, allowed, kept, n
  <2> QED
    BY <1>5, <1>6
<1>13. DOMAIN documents' = 1..n
  BY <1>8
<1> HIDE DEF wanted, allowed, kept, n
<1> QED
  BY <1>1, <1>3, <1>9, <1>10, <1>11, <1>12, <1>13 DEF wanted

\* A picture taken away is owned up to, and what is listed stays listed.
LEMMA FittingIsAccounted == Accounted /\ FitImages => Accounted'
<1> SUFFICES ASSUME Accounted, FitImages PROVE Accounted'
  OBVIOUS
<1>1. /\ loading = "loading" /\ todo = <<>> /\ loading' = "loaded"
      /\ UNCHANGED <<todo, seen, bytes, expected>>
  BY DEF FitImages
<1>2. InHand'
  BY <1>1 DEF Accounted, InHand
<1>3. /\ DOMAIN documents' = DOMAIN documents
      /\ \A i \in DOMAIN documents :
           \/ documents'[i] = documents[i]
           \/ \E given \in Nat :
                documents'[i] = [documents[i] EXCEPT !.images = given,
                                            !.codes = @ \cup {"images truncated"},
                                            !.lost = @ \cup {"images"}]
  <2>1. CASE Pictures(documents) <= MaxImages
    BY <2>1 DEF FitImages
  <2>2. CASE ~(Pictures(documents) <= MaxImages)
    <3>1. \A i \in DOMAIN documents : Left(i) \in Nat
      BY <2>2, FittingTakes
    <3>2. /\ DOMAIN documents' = DOMAIN documents
          /\ \A i \in DOMAIN documents :
               documents'[i] =
                   IF Left(i) = documents[i].images THEN documents[i]
                   ELSE [documents[i] EXCEPT !.images = Left(i),
                                             !.codes = @ \cup {"images truncated"},
                                             !.lost = @ \cup {"images"}]
      BY <2>2, FittingTakes, Zenon
    <3> QED
      BY <3>1, <3>2
  <2> QED
    BY <2>1, <2>2
<1>4. ASSUME NEW i \in DOMAIN documents
      PROVE  OwnsUp(documents'[i]) /\ documents'[i].depth = documents[i].depth
  <2>1. OwnsUp(documents[i])
    BY DEF Accounted
  <2>2. CASE documents'[i] = documents[i]
    BY <2>1, <2>2
  <2>3. ASSUME NEW given \in Nat,
               documents'[i] = [documents[i] EXCEPT !.images = given,
                                  !.codes = @ \cup {"images truncated"},
                                  !.lost = @ \cup {"images"}]
        PROVE  OwnsUp(documents'[i]) /\ documents'[i].depth = documents[i].depth
    <3> DEFINE old == documents[i]
               new == [old EXCEPT !.images = given, !.codes = @ \cup {"images truncated"},
                                  !.lost = @ \cup {"images"}]
    <3>1. DOMAIN old = DOMAIN NothingRead
      BY <2>1 DEF OwnsUp
    <3>2. DOMAIN new = DOMAIN NothingRead
      BY <3>1
    <3>3. /\ new.codes = old.codes \cup {"images truncated"}
          /\ new.lost = old.lost \cup {"images"}
          /\ new.depth = old.depth
          /\ new.images = given
      BY <3>1 DEF NothingRead
    <3>4. "images truncated" \in Says("images")
      BY DEF Says
    <3>5. documents'[i] = new
      BY <2>3
    <3> HIDE DEF new
    <3>6. \A loss \in new.lost \ Unsaid : new.codes \cap Says(loss) # {}
      BY <2>1, <3>3, <3>4 DEF OwnsUp
    <3>7. OwnsUp(new)
      BY <3>2, <3>3, <3>6 DEF OwnsUp
    <3> QED
      BY <3>3, <3>5, <3>7
  <2> QED
    BY <1>3, <2>2, <2>3
<1>5. Listed(documents') = Listed(documents)
  BY <1>3, <1>4 DEF Listed
<1>6. documents' \in Seq(Range(documents'))
  <2> DEFINE n == Len(documents)
  <2>1. n \in Nat /\ DOMAIN documents = 1..n
    BY DEF Accounted
  <2>2. documents' = [i \in 1..n |-> documents'[i]]
    <3>1. CASE Pictures(documents) <= MaxImages
      <4>1. documents' = documents
        BY <3>1 DEF FitImages
      <4> QED
        BY <4>1, <2>1 DEF Accounted
    <3>2. CASE ~(Pictures(documents) <= MaxImages)
      BY <3>2, <2>1 DEF FitImages
    <3> QED
      BY <3>1, <3>2
  <2>3. \A i \in 1..n : documents'[i] \in Range(documents')
    BY <1>3, <2>1 DEF Range
  <2> HIDE DEF n
  <2> QED
    BY <2>1, <2>2, <2>3
<1> QED
  BY <1>1, <1>2, <1>3, <1>4, <1>5, <1>6 DEF Accounted

\* Children hang off a document, so none is awaited.
LEMMA ChildrenAreDeep ==
  ASSUME InHand, HasNext, NEW entries
  PROVE  \A i \in DOMAIN Children(entries) : Children(entries)[i].depth # 0
<1>1. NextFile.depth \in 0..MaxDepth
  BY NextInHand DEF Source
<1>2. NextFile.depth + 1 # 0
  BY <1>1, Ceilings
<1> QED
  BY <1>2 DEF Children

LEMMA AccountsKept == Accounted /\ [Load]_loader => Accounted'
<1> SUFFICES ASSUME Accounted, [Load]_loader PROVE Accounted'
  OBVIOUS
<1>0. InHand /\ InHand'
  BY LoaderKeeps DEF Accounted
<1>1. CASE SkipSignature
  <2>1. /\ todo \in Seq(Source) /\ todo # <<>> /\ NextFile = todo[1] /\ loading = "loading"
        /\ todo' = Tail(todo) /\ UNCHANGED <<documents, loading, expected>>
    BY <1>1, <1>0 DEF SkipSignature, InHand, HasNext, NextFile
  <2>2. <<>> \in Seq(Source) /\ \A i \in DOMAIN <<>> : <<>>[i].depth # 0
    OBVIOUS
  <2>3. <<>> \o Tail(todo) = todo'
    BY <2>1
  <2>4. /\ IsFiniteSet(Awaited(todo')) /\ IsFiniteSet(Awaited(todo))
        /\ Cardinality(Awaited(todo))
             = Cardinality(Awaited(todo')) + (IF 1 \in Awaited(todo) THEN 1 ELSE 0)
    BY <2>1, <2>2, <2>3, OneLessAwaited
  <2>5. 1 \notin Awaited(todo)
    BY <1>1, <2>1 DEF Awaited, SkipSignature
  <2>6. Cardinality(Awaited(todo)) \in Nat /\ Cardinality(Awaited(todo')) \in Nat
    BY <2>4, FS_CardinalityType
  <2> QED
    BY <1>0, <2>1, <2>4, <2>5, <2>6 DEF Accounted
<1>2. ASSUME NEW code \in Says("file"), Arrives,
             List([NothingRead EXCEPT !.codes = {code}, !.lost = {"file"}], <<>>)
      PROVE  Accounted'
  <2> DEFINE d == [NothingRead EXCEPT !.codes = {code}, !.lost = {"file"}]
  <2>1. Fresh(d)
    BY DroppedOwnsUp
  <2>2. List(d, <<>>)
    BY <1>2
  <2> HIDE DEF d
  <2> QED
    BY <1>0, <1>2, <2>1, <2>2, LeafIsAccounted
<1>3. ASSUME NEW d, Open, Fresh(d), List(d, <<>>) PROVE Accounted'
  BY <1>0, <1>3, LeafIsAccounted DEF Open, Fetched
<1>4. CASE ListUnfetched
  <2>1. PICK code \in {"attachment is a link", "attachment has no bytes"} :
          List([NothingRead EXCEPT !.codes = {code}, !.lost = {"file"}], <<>>)
    BY <1>4 DEF ListUnfetched
  <2>2. code \in Says("file")
    BY <2>1 DEF Says
  <2> QED
    BY <1>2, <1>4, <2>1, <2>2 DEF ListUnfetched
<1>5. CASE Refuse
  <2>1. PICK code : code = MayOpen(NextFile.size) /\ code # "open"
                       /\ List([NothingRead EXCEPT !.codes = {code}, !.lost = {"file"}], <<>>)
    BY <1>5 DEF Refuse
  <2>2. code \in Says("file")
    BY <2>1 DEF Says, MayOpen
  <2> QED
    BY <1>2, <1>5, <2>1, <2>2 DEF Refuse, Fetched
<1>6. CASE CannotRead
  <2>1. PICK code \in {"unreadable", "password protected", "no reader for kind"} :
          List([NothingRead EXCEPT !.codes = {code}, !.lost = {"file"}], <<>>)
    BY <1>6 DEF CannotRead
  <2>2. code \in Says("file")
    BY <2>1 DEF Says
  <2> QED
    BY <1>2, <1>6, <2>1, <2>2 DEF CannotRead, Open, Fetched
<1>7. CASE RaiseWhileReading
  <2>1. documents' = <<>> /\ loading' = "raised"
    BY <1>7 DEF RaiseWhileReading
  <2> QED
    BY <1>0, <2>1 DEF Accounted
<1>8. CASE ReadSheet
  <2>1. PICK rows \in Int, blank \in BOOLEAN, left \in SUBSET Silent.sheet :
          List(Leaving(TableDocument(rows, blank), left), <<>>)
    BY <1>8 DEF ReadSheet
  <2>2. Fresh(Leaving(TableDocument(rows, blank), left))
    BY TableOwnsUp, LeavingOwnsUp, SilenceIsUnsaid
  <2> QED
    BY <1>3, <1>8, <2>1, <2>2 DEF ReadSheet
<1>9. CASE ReadOffice \/ ReadHtml
  <2>1. PICK rows \in Int, text \in BOOLEAN, long \in BOOLEAN,
             left \in (SUBSET Silent.office) \cup (SUBSET Silent.html) :
          List(Leaving(Capped(CutRows(rows, text), long), left), <<>>)
    BY <1>9 DEF ReadOffice, ReadHtml
  <2>3. Fresh(Capped(CutRows(rows, text), long))
    BY CutRowsOwnUp, CappedOwnsUp
  <2>2. Fresh(Leaving(Capped(CutRows(rows, text), long), left))
    BY <2>3, LeavingOwnsUp, SilenceIsUnsaid
  <2> QED
    BY <1>3, <1>9, <2>1, <2>2 DEF ReadOffice, ReadHtml
<1>10. CASE ReadText
  <2>1. PICK text \in BOOLEAN, long \in BOOLEAN :
          List(Capped([NothingRead EXCEPT !.text = text], long), <<>>)
    BY <1>10 DEF ReadText
  <2> DEFINE d == [NothingRead EXCEPT !.text = text]
  <2>2. DOMAIN d = DOMAIN NothingRead /\ d.lost = {} /\ d.images = 0
    BY DEF NothingRead
  <2>3. Fresh(d)
    <3> HIDE DEF d
    <3> QED
      BY <2>2 DEF Fresh, OwnsUp
  <2>4. List(Capped(d, long), <<>>)
    BY <2>1
  <2> HIDE DEF d
  <2>5. Fresh(Capped(d, long))
    BY <2>3, CappedOwnsUp
  <2> QED
    BY <1>3, <1>10, <2>4, <2>5 DEF ReadText
<1>11. CASE ReadPdf
  <2>1. PICK pages \in 0..MaxPages + 1, tables \in BOOLEAN, long \in BOOLEAN,
             left \in SUBSET Silent.pdf :
          List(Leaving(Capped(PageDocument(pages, tables), long), left), <<>>)
    BY <1>11, Zenon DEF ReadPdf
  <2>2. Fresh(Capped(PageDocument(pages, tables), long))
    <3>1. pages \in Int
      OBVIOUS
    <3> QED
      BY <3>1, PdfOwnsUp, CappedOwnsUp
  <2>3. Fresh(Leaving(Capped(PageDocument(pages, tables), long), left))
    BY <2>2, LeavingOwnsUp, SilenceIsUnsaid
  <2> QED
    BY <1>3, <1>11, <2>1, <2>3 DEF ReadPdf
<1>12. CASE ReadScan
  <2>1. PICK pages \in Nat : \/ List(ScanDocument(pages), <<>>)
                            \/ List(Undrawn(ScanDocument(pages)), <<>>)
    BY <1>12 DEF ReadScan
  <2>2. Fresh(ScanDocument(pages)) /\ Fresh(Undrawn(ScanDocument(pages)))
    BY ScanOwnsUp
  <2> QED
    BY <1>3, <1>12, <2>1, <2>2 DEF ReadScan
<1>13. CASE ReadImage
  <2> DEFINE d == [NothingRead EXCEPT !.images = 1]
  <2>1. DOMAIN d = DOMAIN NothingRead /\ d.lost = {} /\ d.images = 1
    BY DEF NothingRead
  <2>2. PICK left \in SUBSET Silent.image : List(Leaving(d, left), <<>>)
    BY <1>13 DEF ReadImage
  <2> HIDE DEF d
  <2>3. Fresh(d)
    BY <2>1 DEF Fresh, OwnsUp
  <2>4. Fresh(Leaving(d, left))
    BY <2>3, LeavingOwnsUp, SilenceIsUnsaid
  <2> QED
    BY <1>3, <1>13, <2>2, <2>4 DEF ReadImage
<1>14. CASE OpenArchive
  <2>1. Arrives /\ HasNext /\ Open
    BY <1>14 DEF OpenArchive, Open, Fetched, Arrives
  <2>2. CASE TooDeep /\ List([NothingRead EXCEPT !.container = TRUE,
                                !.codes = {"nested too deep"}, !.lost = {"entries"}], <<>>)
    <3> DEFINE d == [NothingRead EXCEPT !.container = TRUE,
                       !.codes = {"nested too deep"}, !.lost = {"entries"}]
    <3>1. /\ DOMAIN d = DOMAIN NothingRead /\ d.lost = {"entries"}
          /\ d.codes = {"nested too deep"} /\ d.images = 0
      BY DEF NothingRead
    <3>2. "nested too deep" \in Says("entries")
      BY DEF Says
    <3>3. List(d, <<>>)
      BY <2>2
    <3> HIDE DEF d
    <3>4. Fresh(d)
      <4>1. "images" \notin d.lost /\ d.images = 0
        BY <3>1
      <4>3. d.images \in Nat
        BY <4>1
      <4>2. \A loss \in d.lost \ Unsaid : d.codes \cap Says(loss) # {}
        BY <3>1, <3>2
      <4> QED
        BY <3>1, <4>1, <4>2, <4>3 DEF Fresh, OwnsUp
    <3> QED
      BY <1>3, <2>1, <3>3, <3>4
  <2>3. CASE ~TooDeep /\ \E entries \in Contents, broken \in BOOLEAN,
                               left \in SUBSET Silent.archive : \E kept \in 0..Len(entries) :
             /\ CutAt(entries, kept)
             /\ List(Leaving(Unpacked(entries, kept, broken), left),
                     Children(SubSeq(entries, 1, kept)))
    <3>1. PICK entries \in Contents, broken \in BOOLEAN, left \in SUBSET Silent.archive :
             \E kept \in 0..Len(entries) :
               List(Leaving(Unpacked(entries, kept, broken), left),
                    Children(SubSeq(entries, 1, kept)))
      BY <2>3
    <3>2. PICK kept \in 0..Len(entries) :
             List(Leaving(Unpacked(entries, kept, broken), left),
                  Children(SubSeq(entries, 1, kept)))
      BY <3>1
    <3> DEFINE some == SubSeq(entries, 1, kept)
    <3>3. some \in Seq(Sizes)
      BY <3>1, <3>2 DEF Contents
    <3> HIDE DEF some
    <3>4. Children(some) \in Seq(Source)
      BY <1>0, <2>1, <2>3, <3>3, ChildrenAreFiles
    <3>5. \A i \in DOMAIN Children(some) : Children(some)[i].depth # 0
      BY <1>0, <2>1, ChildrenAreDeep
    <3>6. Fresh(Leaving(Unpacked(entries, kept, broken), left))
      BY UnpackedOwnsUp, LeavingOwnsUp, SilenceIsUnsaid
    <3>7. List(Leaving(Unpacked(entries, kept, broken), left), Children(some))
      BY <3>2 DEF some
    <3> QED
      BY <1>0, <2>1, <3>4, <3>5, <3>6, <3>7, ListingIsAccounted
  <2> QED
    BY <1>14, <2>2, <2>3 DEF OpenArchive
<1>15. CASE OpenEmail
  <2>1. Arrives /\ HasNext /\ Open
    BY <1>15 DEF OpenEmail, Open, Fetched, Arrives
  <2>2. PICK body \in BOOLEAN, long \in BOOLEAN, entries \in Contents,
             left \in SUBSET Silent.email :
          LET shut == TooDeep /\ entries # <<>>
              mail == [NothingRead EXCEPT !.container = TRUE, !.text = body,
                                 !.codes = If(shut, "nested too deep"),
                                 !.lost = If(shut, "entries")]
          IN List(Leaving(Capped(mail, long), left), IF shut THEN <<>> ELSE Children(entries))
    BY <1>15 DEF OpenEmail
  <2> DEFINE shut == TooDeep /\ entries # <<>>
             mail == [NothingRead EXCEPT !.container = TRUE, !.text = body,
                                 !.codes = If(shut, "nested too deep"),
                                 !.lost = If(shut, "entries")]
             inside == IF shut THEN <<>> ELSE Children(entries)
  <2>3. List(Leaving(Capped(mail, long), left), inside)
    BY <2>2
  <2>4. Fresh(mail)
    <3>1. shut \in BOOLEAN
      OBVIOUS
    <3> HIDE DEF shut
    <3> QED
      BY <3>1, ShutOwnsUp
  <2>5. entries \in Seq(Sizes)
    BY DEF Contents
  <2>6. inside \in Seq(Source) /\ \A i \in DOMAIN inside : inside[i].depth # 0
    <3>1. CASE inside = <<>>
      <4> HIDE DEF inside
      <4> QED
        BY <3>1
    <3>2. CASE ~TooDeep
      <4>1. Children(entries) \in Seq(Source)
        BY <1>0, <2>1, <2>5, <3>2, ChildrenAreFiles
      <4>2. \A i \in DOMAIN Children(entries) : Children(entries)[i].depth # 0
        BY <1>0, <2>1, ChildrenAreDeep
      <4>3. inside = Children(entries)
        BY <3>2
      <4> HIDE DEF inside
      <4> QED
        BY <4>1, <4>2, <4>3
    <3>3. CASE entries = <<>>
      BY <3>3 DEF Children
    <3> QED
      BY <3>1, <3>2, <3>3
  <2> HIDE DEF mail, inside
  <2>8. Fresh(Capped(mail, long))
    BY <2>4, CappedOwnsUp
  <2>7. Fresh(Leaving(Capped(mail, long), left))
    BY <2>8, LeavingOwnsUp, SilenceIsUnsaid
  <2> QED
    BY <1>0, <2>1, <2>3, <2>6, <2>7, ListingIsAccounted
<1>16. CASE FitImages
  BY <1>16, FittingIsAccounted
<1>17. CASE UNCHANGED loader
  BY <1>17, <1>0 DEF loader, Accounted
<1> QED
  BY <1>1, <1>4, <1>5, <1>6, <1>7, <1>8, <1>9, <1>10, <1>11, <1>12, <1>13, <1>14, <1>15, <1>16,
     <1>17 DEF Load

\* "A dropped file still appears, carrying the code that dropped it": when loading is
\* over, every attachment is listed, and what was cut off a file is named in its codes -
\* for any ceilings, any attachments and anything they turn out to hold.
THEOREM LossesAreOwnedUp == LoaderSpec => []NothingDropsInSilence
<1>1. LoaderSpec => []Accounted
  BY AccountsOpen, AccountsKept, PTL DEF LoaderSpec
<1>2. ASSUME Accounted, loading = "loaded"
      PROVE  /\ Cardinality(Listed(documents)) = expected
             /\ \A d \in Range(documents) : OwnsUp(d)
  <2>1. Awaited(todo) = {} /\ loading # "raised"
    BY <1>2 DEF Accounted, Awaited
  <2>2. Cardinality(Awaited(todo)) = 0
    BY <2>1, FS_EmptySet
  <2>3. IsFiniteSet(Listed(documents))
    <3> DEFINE n == Len(documents)
    <3>1. Listed(documents) \in SUBSET (1..n) /\ n \in Nat
      BY <1>2 DEF Accounted, Listed
    <3> HIDE DEF n
    <3>2. IsFiniteSet(1..n)
      BY <3>1, FS_Interval
    <3> QED
      BY <3>1, <3>2, FS_Subset
  <2>4. Cardinality(Listed(documents)) \in Nat
    BY <2>3, FS_CardinalityType
  <2> QED
    BY <1>2, <2>1, <2>2, <2>4 DEF Accounted, Range
<1>3. Accounted => NothingDropsInSilence
  BY <1>2 DEF NothingDropsInSilence, Listed, OwnsUp
<1> QED
  BY <1>1, <1>3, PTL

\* The end of loading hands the pictures out as it should, and nothing touches them later.
LEMMA FittingShares == Accounted /\ FitImages => PicturesAreShared'
<1> SUFFICES ASSUME Accounted, FitImages PROVE PicturesAreShared'
  OBVIOUS
<1> DEFINE n == Len(documents)
           short == {d \in Range(documents') : "images" \in d.lost}
<1>1. /\ n \in Nat /\ DOMAIN documents = 1..n /\ MaxImages \in Nat
      /\ \A i \in 1..n : Fresh(documents[i])
  BY CeilingsAreNumbers DEF Accounted, FitImages
<1>2. \A i \in 1..n : /\ DOMAIN documents[i] = DOMAIN NothingRead
                      /\ documents[i].images \in Nat /\ "images" \notin documents[i].lost
  BY <1>1 DEF Fresh, OwnsUp
<1>3. CASE Pictures(documents) <= MaxImages
  <2>1. documents' = documents
    BY <1>3 DEF FitImages
  <2>2. short = {}
    BY <1>1, <1>2, <2>1 DEF Range
  <2>3. Pictures(documents') <= MaxImages
    BY <1>3, <2>1
  <2> QED
    BY <2>2, <2>3 DEF PicturesAreShared
<1>4. CASE ~(Pictures(documents) <= MaxImages)
  <2>1. DOMAIN documents' = 1..n /\ \A i \in 1..n : Left(i) \in Nat
    BY <1>1, <1>4, FittingTakes
  <2>2. \A i \in 1..n : documents'[i] =
                   IF Left(i) = documents[i].images THEN documents[i]
                   ELSE [documents[i] EXCEPT !.images = Left(i),
                                             !.codes = @ \cup {"images truncated"},
                                             !.lost = @ \cup {"images"}]
    BY <1>1, <1>4, FittingTakes, Zenon
  <2>3. Total([i \in 1..n |-> Left(i)]) = MaxImages
    BY <1>1, <1>4, FittingTakes
  <2>4. (\E i \in 1..n : Left(i) # documents[i].images /\ Left(i) = 0)
          => \A i \in 1..n : Left(i) <= 1
    BY <1>1, <1>4, FittingTakes
  <2> HIDE DEF n
  <2>5. ASSUME NEW i \in 1..n
        PROVE  /\ documents'[i].images = Left(i)
               /\ "images" \in documents'[i].lost => Left(i) # documents[i].images
    <3>1. CASE Left(i) = documents[i].images
      BY <1>2, <2>2, <3>1
    <3>2. CASE Left(i) # documents[i].images
      <4> DEFINE new == [documents[i] EXCEPT !.images = Left(i),
                                             !.codes = @ \cup {"images truncated"},
                                             !.lost = @ \cup {"images"}]
      <4>1. documents'[i] = new
        BY <2>2, <3>2
      <4>2. new.images = Left(i)
        BY <1>2 DEF NothingRead
      <4> HIDE DEF new
      <4> QED
        BY <3>2, <4>1, <4>2
    <3> QED
      BY <3>1, <3>2
  <2>6. Wanted(documents') = [i \in 1..n |-> Left(i)]
    BY <2>1, <2>5 DEF Wanted
  <2>7. Pictures(documents') = MaxImages
    BY <2>3, <2>6 DEF Pictures
  <2>8. (\E d \in short : d.images = 0) => \A d \in Range(documents') : d.images <= 1
    <3> SUFFICES ASSUME NEW d \in short, d.images = 0, NEW e \in Range(documents')
                 PROVE  e.images <= 1
      OBVIOUS
    <3>1. PICK i \in 1..n : d = documents'[i]
      BY <2>1 DEF Range
    <3>2. PICK k \in 1..n : e = documents'[k]
      BY <2>1 DEF Range
    <3>3. Left(i) = 0 /\ Left(i) # documents[i].images
      BY <2>5, <3>1
    <3>4. Left(k) <= 1
      BY <2>4, <3>3
    <3> QED
      BY <2>5, <3>2, <3>4
  <2>9. Pictures(documents') <= MaxImages
    BY <1>1, <2>7
  <2> QED
    BY <2>7, <2>8, <2>9 DEF PicturesAreShared
<1> QED
  BY <1>3, <1>4

\* "Even shares first, so no file is starved": when loading is over no more pictures are
\* left than the ceiling; if any was taken away the ceiling is used up; and a file is left
\* with none of its pictures only where no file has more than one - for any documents.
THEOREM PicturesFairlyShared == LoaderSpec => []PicturesAreShared
<1>1. LoaderSpec => []Accounted
  BY AccountsOpen, AccountsKept, PTL DEF LoaderSpec
<1>2. LoaderInit => PicturesAreShared
  BY DEF LoaderInit, PicturesAreShared
<1>3. Accounted /\ PicturesAreShared /\ [Load]_loader => PicturesAreShared'
  <2> SUFFICES ASSUME Accounted, PicturesAreShared, [Load]_loader PROVE PicturesAreShared'
    OBVIOUS
  <2>1. CASE FitImages
    BY <2>1, FittingShares
  <2>2. CASE UNCHANGED loader
    <3>1. documents' = documents /\ loading' = loading
      BY <2>2 DEF loader
    <3> QED
      BY <3>1 DEF PicturesAreShared
  <2>3. CASE Load /\ ~FitImages
    <3>1. loading' # "loaded"
      BY <2>3 DEF Load, SkipSignature, ListUnfetched, Refuse, CannotRead, RaiseWhileReading,
                  ReadSheet, ReadOffice, ReadHtml, ReadText, ReadPdf, ReadScan, ReadImage,
                  OpenArchive, OpenEmail, List, Open, Fetched, Arrives, HasNext
    <3> QED
      BY <3>1 DEF PicturesAreShared
  <2> QED
    BY <2>1, <2>2, <2>3
<1> QED
  BY <1>1, <1>2, <1>3, PTL DEF LoaderSpec

-----------------------------------------------------------------------------
(* The check digit.                                                         *)

\* Two sums with one last digit do not differ by less than ten.
LEMMA LessThanTen ==
  ASSUME NEW s \in Nat, NEW t \in Nat, s % 10 = t % 10,
         NEW a \in 0..9, NEW b \in 0..9, t - s = b - a
  PROVE  a = b
OBVIOUS

LEMMA ThriceLessThanTen ==
  ASSUME NEW s \in Nat, NEW t \in Nat, NEW a \in 0..9, NEW b \in 0..9,
         s % 10 = b, t % 10 = a, t - s = 2 * b - 2 * a
  PROVE  a = b
OBVIOUS

Sum(a, b, c, d, e, f) == 7 * a + 6 * b + 5 * c + 4 * d + 3 * e + 2 * f

Weighed(f) == Sum(f[1], f[2], f[3], f[4], f[5], f[6])

\* The sum is a number.
LEMMA SumIsNat == \A a, b, c, d, e, f \in Nat : Sum(a, b, c, d, e, f) \in Nat
BY DEF Sum

\* "It catches a transposed pair": whatever seven digits check out, no two
\* neighbours of them can be swapped unnoticed.  A swap moves the sum by the
\* difference of the two digits, and one with the check digit by three times
\* that: never by a multiple of ten.
THEOREM SwappedDigitsAreCaught ==
  \A digits \in [1..7 -> 0..9] : TransposedIsCaught(digits)
<1> SUFFICES ASSUME NEW d \in [1..7 -> 0..9], ChecksOut(d), NEW i \in 1..6,
                    ChecksOut([d EXCEPT ![i] = d[i + 1], ![i + 1] = d[i]])
             PROVE  d[i] = d[i + 1]
  BY DEF TransposedIsCaught
<1> DEFINE e == [d EXCEPT ![i] = d[i + 1], ![i + 1] = d[i]]
<1>1. e \in [1..7 -> 0..9]
  OBVIOUS
<1>2. e[i] = d[i + 1] /\ e[i + 1] = d[i] /\ \A j \in (1..7) \ {i, i + 1} : e[j] = d[j]
  OBVIOUS
<1>3. Weighed(e) % 10 = e[7] /\ Weighed(d) % 10 = d[7]
  BY DEF ChecksOut, Weights, Weighed, Sum
<1> HIDE DEF e
<1>4. /\ d[1] \in 0..9 /\ d[2] \in 0..9 /\ d[3] \in 0..9 /\ d[4] \in 0..9
      /\ d[5] \in 0..9 /\ d[6] \in 0..9 /\ d[7] \in 0..9
  OBVIOUS
<1>5. PICK a \in 0..9, b \in 0..9, c \in 0..9, x \in 0..9, y \in 0..9, z \in 0..9, w \in 0..9 :
        d[1] = a /\ d[2] = b /\ d[3] = c /\ d[4] = x /\ d[5] = y /\ d[6] = z /\ d[7] = w
  BY <1>4
<1>6. Weighed(d) = Sum(a, b, c, x, y, z)
  BY <1>5 DEF Weighed
<1>7. \A f \in [1..7 -> 0..9] : Weighed(f) \in Nat
  <2>1. TAKE f \in [1..7 -> 0..9]
  <2>2. f[1] \in Nat /\ f[2] \in Nat /\ f[3] \in Nat /\ f[4] \in Nat /\ f[5] \in Nat /\ f[6] \in Nat
    OBVIOUS
  <2> QED
    BY <2>2, SumIsNat DEF Weighed
<1>8. Weighed(d) \in Nat /\ Weighed(e) \in Nat
  BY <1>1, <1>7
<1>9. CASE i = 1
  <2>1. e[1] = b /\ e[2] = a /\ e[3] = c /\ e[4] = x /\ e[5] = y /\ e[6] = z /\ e[7] = w
    BY <1>2, <1>5, <1>9
  <2>2. Weighed(e) = Sum(b, a, c, x, y, z)
    BY <2>1 DEF Weighed
  <2>3. Weighed(e) - Weighed(d) = b - a
    BY <2>2, <1>6 DEF Sum
  <2>4. Weighed(d) % 10 = Weighed(e) % 10
    BY <2>1, <1>3, <1>5
  <2>5. a = b
    BY <2>3, <2>4, <1>8, LessThanTen
  <2> QED
    BY <2>5, <1>5, <1>9
<1>10. CASE i = 2
  <2>1. e[1] = a /\ e[2] = c /\ e[3] = b /\ e[4] = x /\ e[5] = y /\ e[6] = z /\ e[7] = w
    BY <1>2, <1>5, <1>10
  <2>2. Weighed(e) = Sum(a, c, b, x, y, z)
    BY <2>1 DEF Weighed
  <2>3. Weighed(e) - Weighed(d) = c - b
    BY <2>2, <1>6 DEF Sum
  <2>4. Weighed(d) % 10 = Weighed(e) % 10
    BY <2>1, <1>3, <1>5
  <2>5. b = c
    BY <2>3, <2>4, <1>8, LessThanTen
  <2> QED
    BY <2>5, <1>5, <1>10
<1>11. CASE i = 3
  <2>1. e[1] = a /\ e[2] = b /\ e[3] = x /\ e[4] = c /\ e[5] = y /\ e[6] = z /\ e[7] = w
    BY <1>2, <1>5, <1>11
  <2>2. Weighed(e) = Sum(a, b, x, c, y, z)
    BY <2>1 DEF Weighed
  <2>3. Weighed(e) - Weighed(d) = x - c
    BY <2>2, <1>6 DEF Sum
  <2>4. Weighed(d) % 10 = Weighed(e) % 10
    BY <2>1, <1>3, <1>5
  <2>5. c = x
    BY <2>3, <2>4, <1>8, LessThanTen
  <2> QED
    BY <2>5, <1>5, <1>11
<1>12. CASE i = 4
  <2>1. e[1] = a /\ e[2] = b /\ e[3] = c /\ e[4] = y /\ e[5] = x /\ e[6] = z /\ e[7] = w
    BY <1>2, <1>5, <1>12
  <2>2. Weighed(e) = Sum(a, b, c, y, x, z)
    BY <2>1 DEF Weighed
  <2>3. Weighed(e) - Weighed(d) = y - x
    BY <2>2, <1>6 DEF Sum
  <2>4. Weighed(d) % 10 = Weighed(e) % 10
    BY <2>1, <1>3, <1>5
  <2>5. x = y
    BY <2>3, <2>4, <1>8, LessThanTen
  <2> QED
    BY <2>5, <1>5, <1>12
<1>13. CASE i = 5
  <2>1. e[1] = a /\ e[2] = b /\ e[3] = c /\ e[4] = x /\ e[5] = z /\ e[6] = y /\ e[7] = w
    BY <1>2, <1>5, <1>13
  <2>2. Weighed(e) = Sum(a, b, c, x, z, y)
    BY <2>1 DEF Weighed
  <2>3. Weighed(e) - Weighed(d) = z - y
    BY <2>2, <1>6 DEF Sum
  <2>4. Weighed(d) % 10 = Weighed(e) % 10
    BY <2>1, <1>3, <1>5
  <2>5. y = z
    BY <2>3, <2>4, <1>8, LessThanTen
  <2> QED
    BY <2>5, <1>5, <1>13
<1>14. CASE i = 6
  <2>1. e[1] = a /\ e[2] = b /\ e[3] = c /\ e[4] = x /\ e[5] = y /\ e[6] = w /\ e[7] = z
    BY <1>2, <1>5, <1>14
  <2>2. Weighed(e) = Sum(a, b, c, x, y, w)
    BY <2>1 DEF Weighed
  <2>3. Weighed(e) - Weighed(d) = 2 * w - 2 * z
    BY <2>2, <1>6 DEF Sum
  <2>4. Weighed(d) % 10 = w /\ Weighed(e) % 10 = z
    BY <2>1, <1>3, <1>5
  <2>5. z = w
    BY <2>3, <2>4, <1>8, ThriceLessThanTen
  <2> QED
    BY <2>5, <1>5, <1>14
<1> QED
  BY <1>9, <1>10, <1>11, <1>12, <1>13, <1>14

-----------------------------------------------------------------------------
(* The judge.  UncheckedCodesAreDropped is not inductive: that a verdict    *)
(* read back is one the judge gave of that very pair needs every entry of   *)
(* every answer, under a number of its batch, to have been said of the pair *)
(* the call was shown under that number.                                    *)

\* The questions are a list of questions: what _judged keeps of the lines.
LEMMA PairsAreListed ==
  ASSUME lines \in Requests
  PROVE  Pairs \in Seq({Pair(line) : line \in Range(lines)})
<1> DEFINE n == Len(lines)
           Q == {Pair(line) : line \in Range(lines)}
           G == Seq(Q)
           Once(wanted, line) ==
             IF ByCode(line.code) = <<>> \/ Pair(line) \in Range(wanted) THEN wanted
             ELSE Append(wanted, Pair(line))
           next == [k \in 1..n |-> [wanted \in G |-> Once(wanted, lines[k])]]
           Folds(iter) == iter = [s \in SUBSET (1..n) |->
                            IF s = {} THEN <<>> ELSE Once(iter[s \ {Max(s)}], lines[Max(s)])]
<1>1. n \in Nat /\ DOMAIN lines = 1..n /\ <<>> \in G
  BY RequestsAreLists
<1>2. ASSUME NEW wanted \in G, NEW k \in 1..n PROVE Once(wanted, lines[k]) \in G
  <2>1. lines[k] \in Range(lines)
    BY <1>1 DEF Range
  <2>2. Pair(lines[k]) \in Q
    BY <2>1
  <2> DEFINE q == Pair(lines[k])
  <2>3. ASSUME NEW p \in Q PROVE Append(wanted, p) \in Seq(Q)
    <3> HIDE DEF Q
    <3> QED
      BY <2>3
  <2>4. Append(wanted, q) \in G
    BY <2>2, <2>3
  <2> HIDE DEF q, Q
  <2> QED
    BY <2>4 DEF q
<1>3. next \in [1..n -> [G -> G]]
  <2> HIDE DEF G, Once
  <2> QED
    BY <1>2
<1>4. PICK f \in [SUBSET (1..n) -> G] : \A s \in SUBSET (1..n) :
        f[s] = IF s = {} THEN <<>> ELSE next[Max(s)][f[s \ {Max(s)}]]
  <2>1. n \in Nat
    BY <1>1
  <2>2. <<>> \in G
    BY <1>1
  <2> DEFINE base == <<>>
  <2>3. \E iter \in [SUBSET (1..n) -> G] : FoldsBy(iter, n, base, next)
    <3>1. base \in G
      BY <2>2
    <3> HIDE DEF next, n, G, base
    <3> QED
      BY <2>1, <3>1, <1>3, FoldsExist
  <2> QED
    BY <2>3 DEF FoldsBy
<1>5. Folds(f)
  <2>1. ASSUME NEW s \in SUBSET (1..n), s # {}
        PROVE  f[s] = Once(f[s \ {Max(s)}], lines[Max(s)])
    <3>1. Max(s) \in 1..n
      <4> HIDE DEF n, G, next
      <4> QED
        BY <1>1, <2>1, Greatest
    <3>2. s \ {Max(s)} \in SUBSET (1..n)
      BY <2>1
    <3>3. f[s \ {Max(s)}] \in G
      BY <1>4, <3>2
    <3> HIDE DEF Once, G, n
    <3> QED
      BY <1>4, <2>1, <3>1, <3>3
  <2>2. f[{}] = <<>>
    <3>1. {} \in SUBSET (1..n)
      OBVIOUS
    <3> HIDE DEF n, G, next
    <3> QED
      BY <1>4, <3>1
  <2>3. \A s \in SUBSET (1..n) :
          f[s] = IF s = {} THEN <<>> ELSE Once(f[s \ {Max(s)}], lines[Max(s)])
    <3> HIDE DEF Once, G, n, next
    <3> QED
      BY <2>1, <2>2
  <2> HIDE DEF Once, G, n, next
  <2> QED
    BY <1>4, <2>3
<1> DEFINE iter == CHOOSE iter : Folds(iter)
<1>6. Folds(iter)
  <2> HIDE DEF Folds
  <2> QED
    BY <1>5
<1>7. Pairs = iter[1..n]
  BY <1>1 DEF Pairs, FoldLeft, MapThenFoldSet
<1> DEFINE T == {k \in 0..n : iter[1..k] \in G}
<1>8. 0 \in T
  <2>1. iter[{}] = <<>>
    <3> HIDE DEF iter, Once, n
    <3> QED
      BY <1>6
  <2>2. 1..0 = {} /\ 0 \in 0..n
    BY <1>1
  <2> HIDE DEF iter, G, n
  <2> QED
    BY <1>1, <2>1, <2>2
<1>9. ASSUME NEW k \in 0..n, k \in T, k < n PROVE k + 1 \in T
  <2>1. k + 1 \in 1..n /\ k + 1 \in 0..n /\ 1..(k + 1) \in SUBSET (1..n) /\ 1..(k + 1) # {}
    <3> HIDE DEF iter, Once, n, G
    <3>1. n \in Nat /\ k \in Nat /\ k + 1 <= n
      BY <1>1, <1>9
    <3> QED
      BY <3>1
  <2>2. Max(1..(k + 1)) = k + 1
    <3> DEFINE s == 1..(k + 1)
    <3>1. k + 1 \in Nat /\ s \in SUBSET (1..(k + 1)) /\ k + 1 \in s
      OBVIOUS
    <3>2. Max(s) = k + 1
      <4> HIDE DEF s, iter, T, G, n, next
      <4> QED
        BY <3>1, TopOf
    <3> QED
      BY <3>2
  <2>3. 1..(k + 1) \ {k + 1} = 1..k
    OBVIOUS
  <2>4. iter[1..(k + 1)] = Once(iter[1..k], lines[k + 1])
    <3> HIDE DEF iter, Once, n
    <3> QED
      BY <1>6, <2>1, <2>2, <2>3
  <2>5. iter[1..k] \in G
    BY <1>9
  <2> HIDE DEF iter, Once, n, G
  <2> QED
    BY <1>2, <2>1, <2>4, <2>5
<1>10. 0..n \subseteq T
  <2> HIDE DEF T, n
  <2> QED
    BY <1>1, <1>8, <1>9, CountingUp
<1>11. n \in T
  <2>1. n \in 0..n
    BY <1>1
  <2> HIDE DEF T, n
  <2> QED
    BY <1>10, <2>1
<1> QED
  <2> HIDE DEF iter, G
  <2>1. iter[1..n] \in G
    BY <1>11
  <2> QED
    BY <1>7, <2>1 DEF G

\* A number that is within a batch is a place in what the call was shown, and what
\* stands there is the question of that number.
LEMMA WithinTheBatch ==
  ASSUME NEW Q, NEW questions \in Seq(Q), NEW call \in Nat \ {0}, NEW size \in Nat \ {0},
         NEW index \in 0..Min({size, Len(questions) - (call - 1) * size}) - 1
  PROVE  /\ index + 1 \in DOMAIN Batched(questions, call, size)
         /\ Batched(questions, call, size)[index + 1] = questions[(call - 1) * size + index + 1]
<1> DEFINE before == (call - 1) * size
           last == Min({before + size, Len(questions)})
           shown == SubSeq(questions, before + 1, last)
<1>1. before \in Nat /\ call * size = before + size /\ Len(questions) \in Nat
  OBVIOUS
<1> HIDE DEF before
<1>2. Min({size, Len(questions) - before})
        = IF size <= Len(questions) - before THEN size ELSE Len(questions) - before
  BY <1>1, LeastOfTwo
<1>3. last = IF before + size <= Len(questions) THEN before + size ELSE Len(questions)
  BY <1>1, LeastOfTwo
<1>4. index \in Nat /\ before + index + 1 <= last /\ last <= Len(questions) /\ last \in Nat
  BY <1>1, <1>2, <1>3 DEF before
<1> HIDE DEF last
<1>5. DOMAIN shown = 1..(last - before) /\ \A i \in 1..(last - before) : shown[i] = questions[before + i]
  BY <1>1, <1>4
<1>6. /\ index + 1 \in DOMAIN shown
      /\ shown[index + 1] = questions[before + index + 1]
  <2>1. index + 1 \in 1..(last - before) /\ before + (index + 1) = before + index + 1
    BY <1>1, <1>4
  <2> HIDE DEF shown
  <2> QED
    BY <1>5, <2>1
<1>7. Batched(questions, call, size) = shown
  BY <1>1 DEF Batched, last, before
<1> HIDE DEF shown
<1> QED
  BY <1>6, <1>7 DEF before

\* What entries of an answer were said of what the call was shown.
Heard(call, reply) ==
  LET shown == Batched(Pairs, call, Batch)
  IN \A e \in Range(reply) :
       e.index + 1 \in DOMAIN shown => <<shown[e.index + 1], e.same>> \in said

Judged ==
  stage = "judging" =>
    /\ matched = <<>>
    /\ DOMAIN answers \subseteq Calls(Len(Pairs), Batch)
    /\ \A call \in DOMAIN answers :
         answers[call] \in Verdicts /\ Heard(call, answers[call])

MatchedOnes == \A i \in DOMAIN matched : DOMAIN matched[i] = {"how", "candidates"}

MatchingInv ==
  /\ lines \in Requests
  /\ Judged
  /\ MatchedOnes
  /\ UncheckedCodesAreDropped

LEMMA MatchingStarts == MatchingInit => MatchingInv
BY DEF MatchingInit, MatchingInv, Judged, MatchedOnes, UncheckedCodesAreDropped

\* A verdict that is read back was given of that question.
LEMMA VerdictsAreSaid ==
  ASSUME MatchingInv, stage = "judging", NEW k \in DOMAIN Pairs, Verdict(k, Len(Pairs))
  PROVE  <<Pairs[k], TRUE>> \in said
<1> DEFINE count == Len(Pairs)
           about(call) == {i \in DOMAIN answers[call] :
                        /\ answers[call][i] \in Entries(answers[call], call, count)
                        /\ (call - 1) * Batch + answers[call][i].index + 1 = k}
           calls == {call \in DOMAIN answers : about(call) # {}}
           last == Max(calls)
           place == Max(about(last))
           e == answers[last][place]
<1>1. calls # {} /\ e.same = TRUE
  <2>1. calls # {} /\ e.same
    BY DEF Verdict
  <2> QED
    BY <2>1
<1>2. Batch \in Nat \ {0} /\ count \in Nat /\ Pairs \in Seq({Pair(line) : line \in Range(lines)})
  BY BatchesArePositive, PairsAreListed DEF MatchingInv
<1>3. last \in calls
  <2> DEFINE n == (count + Batch - 1) \div Batch
  <2>1. n \in Nat
    BY <1>2
  <2>2. calls \in SUBSET (1..n)
    BY DEF MatchingInv, Judged, Calls
  <2> HIDE DEF calls, n
  <2> QED
    BY <1>1, <2>1, <2>2, Greatest
<1>4. answers[last] \in Seq([index: Int, same: BOOLEAN]) /\ Heard(last, answers[last])
  BY <1>3, VerdictsAreEntries DEF MatchingInv, Judged
<1>5. place \in about(last)
  <2>1. Len(answers[last]) \in Nat /\ about(last) \in SUBSET (1..Len(answers[last]))
    <3>1. about(last) \subseteq DOMAIN answers[last]
      OBVIOUS
    <3> HIDE DEF about, last
    <3>2. Len(answers[last]) \in Nat /\ DOMAIN answers[last] = 1..Len(answers[last])
      BY <1>4
    <3> QED
      BY <3>1, <3>2
  <2>2. about(last) # {}
    BY <1>3
  <2> HIDE DEF about, last
  <2> QED
    BY <2>1, <2>2, Greatest
<1>6. /\ e \in Range(answers[last])
      /\ e.index \in 0..Min({Batch, count - (last - 1) * Batch}) - 1
      /\ (last - 1) * Batch + e.index + 1 = k
  BY <1>5 DEF Entries
<1>7. last \in Nat \ {0}
  <2>1. last \in 1..((count + Batch - 1) \div Batch)
    BY <1>3 DEF MatchingInv, Judged, Calls
  <2>2. (count + Batch - 1) \div Batch \in Int
    BY <1>2
  <2> HIDE DEF last
  <2> QED
    BY <2>1, <2>2
<1> HIDE DEF last, place, e, about, calls
<1>8. /\ e.index + 1 \in DOMAIN Batched(Pairs, last, Batch)
      /\ Batched(Pairs, last, Batch)[e.index + 1] = Pairs[(last - 1) * Batch + e.index + 1]
  <2>1. e.index \in 0..Min({Batch, Len(Pairs) - (last - 1) * Batch}) - 1
    BY <1>6
  <2> HIDE DEF count
  <2> DEFINE index == e.index
             Q == {Pair(line) : line \in Range(lines)}
  <2>2. index \in 0..Min({Batch, Len(Pairs) - (last - 1) * Batch}) - 1 /\ Pairs \in Seq(Q)
    BY <1>2, <2>1
  <2>3. /\ index + 1 \in DOMAIN Batched(Pairs, last, Batch)
        /\ Batched(Pairs, last, Batch)[index + 1] = Pairs[(last - 1) * Batch + index + 1]
    <3>1. Batch \in Nat \ {0}
      BY <1>2
    <3> HIDE DEF index, Q
    <3> QED
      BY <1>7, <2>2, <3>1, WithinTheBatch
  <2> QED
    BY <2>3
<1>9. <<Pairs[k], e.same>> \in said
  BY <1>4, <1>6, <1>8 DEF Heard
<1> QED
  BY <1>1, <1>9 DEF e

LEMMA PairsStay == lines' = lines => Pairs' = Pairs
BY DEF Pairs, FoldLeft, MapThenFoldSet

\* An answer of the judge.
LEMMA JudgeKept == MatchingInv /\ Judge => MatchingInv'
<1> SUFFICES ASSUME MatchingInv, Judge PROVE MatchingInv'
  OBVIOUS
<1>1. PICK call \in Calls(Len(Pairs), Batch) \ DOMAIN answers : \E reply \in Verdicts :
        /\ Put(call, reply)
        /\ said' = said \cup {<<Batched(Pairs, call, Batch)[e.index + 1], e.same>> :
             e \in {f \in Range(reply) : f.index + 1 \in DOMAIN Batched(Pairs, call, Batch)}}
  BY DEF Judge
<1>2. PICK reply \in Verdicts :
        /\ Put(call, reply)
        /\ said' = said \cup {<<Batched(Pairs, call, Batch)[e.index + 1], e.same>> :
             e \in {f \in Range(reply) : f.index + 1 \in DOMAIN Batched(Pairs, call, Batch)}}
  BY <1>1
<1>3. stage = "judging" /\ UNCHANGED <<lines, stage, matched>>
  BY DEF Judge
<1>4. Pairs' = Pairs
  BY <1>3, PairsStay
<1>5. /\ DOMAIN answers' = DOMAIN answers \cup {call}
      /\ answers'[call] = reply
      /\ \A c \in DOMAIN answers \ {call} : answers'[c] = answers[c]
  BY <1>2 DEF Put
<1>6. Judged'
  <2>1. matched' = <<>>
    BY <1>3 DEF MatchingInv, Judged
  <2>2. DOMAIN answers' \subseteq Calls(Len(Pairs'), Batch)
    <3> DEFINE all == Calls(Len(Pairs), Batch)
    <3>1. DOMAIN answers \subseteq all /\ call \in all
      BY <1>3 DEF MatchingInv, Judged
    <3>2. all = Calls(Len(Pairs'), Batch)
      BY <1>4
    <3> HIDE DEF all
    <3> QED
      BY <3>1, <3>2, <1>5
  <2>3. ASSUME NEW c \in DOMAIN answers'
        PROVE  answers'[c] \in Verdicts /\ Heard(c, answers[c])'
    <3> DEFINE shown == Batched(Pairs, c, Batch)
    <3>1. Heard(c, answers[c])' <=> \A e \in Range(answers'[c]) :
            e.index + 1 \in DOMAIN shown => <<shown[e.index + 1], e.same>> \in said'
      BY <1>4 DEF Heard, Batched
    <3>2. CASE c = call
      <4>1. ASSUME NEW e \in Range(reply), e.index + 1 \in DOMAIN shown
            PROVE  <<shown[e.index + 1], e.same>> \in said'
        <5> HIDE DEF shown
        <5> QED
          BY <1>2, <3>2, <4>1 DEF shown
      <4> QED
        BY <1>5, <3>1, <3>2, <4>1
    <3>3. CASE c # call
      <4>1. answers'[c] = answers[c] /\ c \in DOMAIN answers
        BY <1>5, <3>3
      <4>2. said \subseteq said'
        BY <1>2
      <4>3. answers[c] \in Verdicts /\ Heard(c, answers[c])
        BY <1>3, <4>1 DEF MatchingInv, Judged
      <4> HIDE DEF shown
      <4> QED
        BY <3>1, <4>1, <4>2, <4>3 DEF Heard, shown
    <3> QED
      BY <3>2, <3>3
  <2> QED
    BY <2>1, <2>2, <2>3 DEF Judged
<1>7. matched' = <<>>
  BY <1>3 DEF MatchingInv, Judged
<1> QED
  BY <1>3, <1>6, <1>7 DEF MatchingInv, MatchedOnes, UncheckedCodesAreDropped

\* The lines chosen for.
LEMMA ChooseKept == MatchingInv /\ Choose => MatchingInv'
<1> SUFFICES ASSUME MatchingInv, Choose PROVE MatchingInv'
  OBVIOUS
<1>1. stage = "judging" /\ stage' = "assessing" /\ UNCHANGED <<lines, said>>
  BY DEF Choose
<1>2. DOMAIN matched' = DOMAIN lines
  BY DEF Choose
<1>3. ASSUME NEW i \in DOMAIN matched'
      PROVE  /\ DOMAIN matched'[i] = {"how", "candidates"}
             /\ matched'[i].how = "code_confirmed" => <<Pair(lines[i]), TRUE>> \in said
  <2>1. CASE Sheet = <<>>
    <3>1. matched'[i] = [how |-> "none", candidates |-> <<>>]
      BY <1>2, <2>1 DEF Choose
    <3> QED
      BY <3>1
  <2>2. CASE Sheet # <<>>
    <3>1. matched'[i] = One(lines[i])
      BY <1>2, <2>2 DEF Choose
    <3> DEFINE agreed == ByCode(lines[i].code) # <<>> /\ \E k \in DOMAIN Pairs :
                 Pairs[k] = Pair(lines[i]) /\ Verdict(k, Len(Pairs))
    <3>2. CASE agreed
      <4>1. <<Pair(lines[i]), TRUE>> \in said
        BY <1>1, <3>2, VerdictsAreSaid
      <4>2. \E candidates : One(lines[i]) = [how |-> "code_confirmed", candidates |-> candidates]
        BY <3>2, Zenon DEF One
      <4> QED
        BY <3>1, <4>1, <4>2
    <3>3. CASE ~agreed
      <4> DEFINE found == Search(lines[i].text)
                 how == IF found = <<>> THEN "none"
                        ELSE IF ByCode(lines[i].code) # <<>> THEN "code_rejected" ELSE "search"
      <4>1. One(lines[i]) = [how |-> how, candidates |-> Unscored(found)]
        BY <3>3, Zenon DEF One
      <4> QED
        BY <3>1, <4>1
    <3> QED
      BY <3>2, <3>3
  <2> QED
    BY <2>1, <2>2
<1>4. MatchedOnes'
  BY <1>3 DEF MatchedOnes
<1>5. UncheckedCodesAreDropped'
  BY <1>1, <1>3 DEF UncheckedCodesAreDropped, Pair
<1> QED
  BY <1>1, <1>4, <1>5 DEF MatchingInv, Judged

LEMMA MatchingKept == MatchingInv /\ [Match]_matching => MatchingInv'
<1> SUFFICES ASSUME MatchingInv, [Match]_matching PROVE MatchingInv'
  OBVIOUS
<1>1. CASE Judge
  BY <1>1, JudgeKept
<1>2. CASE Choose
  BY <1>2, ChooseKept
<1>3. CASE Assess
  <2>1. stage' = "assessing" /\ UNCHANGED <<lines, matched, said>>
    BY <1>3 DEF Assess
  <2> QED
    BY <2>1 DEF MatchingInv, Judged, MatchedOnes, UncheckedCodesAreDropped, Pair
<1>4. CASE ScoreLines
  <2>1. stage' = "matched" /\ UNCHANGED <<lines, said>>
    BY <1>4 DEF ScoreLines
  <2>2. DOMAIN matched' = DOMAIN matched
    BY <1>4 DEF ScoreLines
  <2>3. ASSUME NEW i \in DOMAIN matched
        PROVE  DOMAIN matched'[i] = {"how", "candidates"} /\ matched'[i].how = matched[i].how
    <3>1. PICK candidates : matched'[i] = [matched[i] EXCEPT !.candidates = candidates]
      BY <1>4 DEF ScoreLines
    <3>2. DOMAIN matched[i] = {"how", "candidates"}
      BY DEF MatchingInv, MatchedOnes
    <3> QED
      BY <3>1, <3>2
  <2>4. MatchedOnes'
    BY <2>2, <2>3 DEF MatchedOnes
  <2>5. UncheckedCodesAreDropped'
    BY <2>1, <2>2, <2>3 DEF MatchingInv, UncheckedCodesAreDropped, Pair
  <2> QED
    BY <2>1, <2>4, <2>5 DEF MatchingInv, Judged
<1>5. CASE UNCHANGED matching
  <2>1. UNCHANGED <<lines, stage, answers, matched, said>>
    BY <1>5 DEF matching
  <2>2. Pairs' = Pairs
    BY <2>1, PairsStay
  <2> QED
    BY <2>1, <2>2 DEF MatchingInv, Judged, MatchedOnes, UncheckedCodesAreDropped, Pair,
                      Heard, Batched
<1> QED
  BY <1>1, <1>2, <1>3, <1>4, <1>5 DEF Match

\* "A code this pipeline did not check does not reach an order": whatever the sheet,
\* the lines, the batch and the answers of the judge, a line keeps the product its
\* code names only if the judge said yes to that very pair.
THEOREM CodesAreChecked == MatchingSpec => []UncheckedCodesAreDropped
<1>1. MatchingInv => UncheckedCodesAreDropped
  BY DEF MatchingInv
<1> QED
  BY MatchingStarts, MatchingKept, <1>1, PTL DEF MatchingSpec

-----------------------------------------------------------------------------
(* Sums over sets and sets in order.                                        *)

\* One element of S before another, for all of them.
Ordered(S, R) ==
  /\ \A x \in S : <<x, x>> \notin R
  /\ \A x, y \in S : x = y \/ <<x, y>> \in R \/ <<y, x>> \in R
  /\ \A x, y, z \in S : <<x, y>> \in R /\ <<y, z>> \in R => <<x, z>> \in R

\* Those that stand before x.
Ahead(S, R, x) == {y \in S : <<y, x>> \in R}

InPlaces(S, R) ==
  /\ Cardinality(S) \in Nat
  /\ \A x \in S : Cardinality(Ahead(S, R, x)) + 1 \in 1..Cardinality(S)
  /\ \A x, y \in S : Cardinality(Ahead(S, R, x)) = Cardinality(Ahead(S, R, y)) => x = y
  /\ \A k \in 1..Cardinality(S) : \E x \in S : Cardinality(Ahead(S, R, x)) = k - 1

\* Each element of a finite ordered set has a place of its own, and there is no
\* other place.
LEMMA PlacesAreTaken ==
  ASSUME NEW S, IsFiniteSet(S), NEW R, Ordered(S, R)
  PROVE  InPlaces(S, R)
<1> DEFINE n == Cardinality(S)
           rank(x) == Cardinality(Ahead(S, R, x))
           f == [x \in S |-> rank(x)]
<1>1. n \in Nat
  BY FS_CardinalityType
<1>2. \A x \in S : IsFiniteSet(Ahead(S, R, x)) /\ rank(x) \in Nat
  <2>1. \A x \in S : Ahead(S, R, x) \in SUBSET S
    BY DEF Ahead
  <2> QED
    BY <2>1, FS_Subset, FS_CardinalityType
<1>3. ASSUME NEW x \in S PROVE rank(x) \in 0..(n - 1)
  <2>1. Ahead(S, R, x) \in SUBSET (S \ {x})
    BY DEF Ahead, Ordered
  <2>2. IsFiniteSet(S \ {x}) /\ Cardinality(S \ {x}) = n - 1
    BY FS_RemoveElement
  <2>3. rank(x) <= n - 1
    BY <2>1, <2>2, FS_Subset
  <2> HIDE DEF rank, n
  <2> QED
    BY <1>1, <1>2, <2>3
<1>4. ASSUME NEW x \in S, NEW y \in S, <<x, y>> \in R PROVE rank(x) < rank(y)
  <2>1. x \notin Ahead(S, R, x)
    BY DEF Ahead, Ordered
  <2>2. Ahead(S, R, x) \cup {x} \in SUBSET Ahead(S, R, y)
    BY <1>4 DEF Ahead, Ordered
  <2>3. Cardinality(Ahead(S, R, x) \cup {x}) = rank(x) + 1
    BY <1>2, <2>1, FS_AddElement
  <2>4. rank(x) + 1 <= rank(y)
    BY <1>2, <2>2, <2>3, FS_Subset
  <2> HIDE DEF rank
  <2> QED
    BY <1>2, <2>4
<1>5. ASSUME NEW x \in S, NEW y \in S, rank(x) = rank(y) PROVE x = y
  <2>1. ~(rank(x) < rank(y)) /\ ~(rank(y) < rank(x))
    BY <1>2, <1>5
  <2> QED
    BY <1>4, <2>1 DEF Ordered
<1>6. f \in Injection(S, 0..(n - 1))
  <2> HIDE DEF rank, n
  <2> QED
    BY <1>3, <1>5 DEF Injection, IsInjective
<1>7. IsFiniteSet(0..(n - 1)) /\ Cardinality(0..(n - 1)) = n
  BY <1>1, FS_Interval
<1>8. f \in Surjection(S, 0..(n - 1))
  <2> HIDE DEF f
  <2> QED
    BY <1>6, <1>7, FS_Injection
<1>9. ASSUME NEW k \in 1..n PROVE \E x \in S : rank(x) = k - 1
  <2>1. k - 1 \in 0..(n - 1)
    BY <1>1
  <2> HIDE DEF rank, n
  <2> QED
    BY <1>8, <2>1 DEF Surjection
<1>10. \A x \in S : rank(x) + 1 \in 1..n
  BY <1>1, <1>3
<1> HIDE DEF f
<1> QED
  BY <1>1, <1>5, <1>9, <1>10 DEF InPlaces

\* A list of the elements of S in an order.
LEMMA InOrderSays ==
  ASSUME NEW S, IsFiniteSet(S), S \subseteq Int
  PROVE  /\ Cardinality(S) \in Nat
         /\ InOrder(S) \in [1..Cardinality(S) -> S]
         /\ \A x \in S : \E k \in 1..Cardinality(S) : InOrder(S)[k] = x
         /\ \A j, k \in 1..Cardinality(S) : j < k => InOrder(S)[j] < InOrder(S)[k]
         /\ \A j, k \in 1..Cardinality(S) : InOrder(S)[j] = InOrder(S)[k] => j = k
<1> DEFINE R == {p \in S \X S : p[1] < p[2]}
           n == Cardinality(S)
           list == InOrder(S)
           rank(x) == Cardinality(Ahead(S, R, x))
<1>0. \A x \in S : x \in Int
  OBVIOUS
<1>20. \A x, y \in Int : x = y \/ x < y \/ y < x
  OBVIOUS
<1>21. \A x, y, z \in Int : ~(x < y) /\ z < y => z < x
  OBVIOUS
<1>1. \A x, y \in S : <<x, y>> \in R <=> x < y
  OBVIOUS
<1>2. Ordered(S, R)
  <2> HIDE DEF R
  <2>1. \A x \in S : <<x, x>> \notin R
    BY <1>1
  <2>2. \A x, y \in S : x = y \/ <<x, y>> \in R \/ <<y, x>> \in R
    BY <1>0, <1>20, <1>1
  <2>3. \A x, y, z \in S : <<x, y>> \in R /\ <<y, z>> \in R => <<x, z>> \in R
    BY <1>0, <1>1
  <2> QED
    BY <2>1, <2>2, <2>3 DEF Ordered
<1>3. /\ n \in Nat
      /\ \A x \in S : rank(x) + 1 \in 1..n
      /\ \A x, y \in S : rank(x) = rank(y) => x = y
      /\ \A k \in 1..n : \E x \in S : rank(x) = k - 1
  <2> HIDE DEF R, n, rank, list
  <2>1. InPlaces(S, R)
    BY <1>2, PlacesAreTaken
  <2> QED
    BY <2>1 DEF InPlaces, n, rank
<1>4. \A x \in S : {y \in S : y < x} = Ahead(S, R, x)
  <2> HIDE DEF R
  <2> QED
    BY <1>1 DEF Ahead
<1>5. list = [k \in 1..n |-> CHOOSE x \in S : Cardinality({y \in S : y < x}) = k - 1]
  BY DEF InOrder, Ranked
<1>6. ASSUME NEW k \in 1..n PROVE list[k] \in S /\ rank(list[k]) = k - 1
  <2>1. list[k] = CHOOSE x \in S : Cardinality({y \in S : y < x}) = k - 1
    BY <1>5
  <2>2. \E x \in S : Cardinality({y \in S : y < x}) = k - 1
    <3> HIDE DEF R
    <3> QED
      BY <1>3, <1>4
  <2>3. list[k] \in S /\ Cardinality({y \in S : y < list[k]}) = k - 1
    <3> HIDE DEF list
    <3> QED
      BY <2>1, <2>2
  <2> HIDE DEF R, list
  <2> QED
    BY <1>4, <2>3
<1>7. \A x \in S : rank(x) \in Nat
  BY <1>3, <1>4, FS_Subset, FS_CardinalityType DEF Ahead
<1> HIDE DEF R, rank, n, list
<1>8. list \in [1..n -> S]
  <2> DEFINE pick(k) == CHOOSE x \in S : Cardinality({y \in S : y < x}) = k - 1
  <2>0. list = [k \in 1..n |-> pick(k)]
    BY ONLY <1>5
  <2> HIDE DEF pick
  <2>1. DOMAIN list = 1..n /\ list = [k \in 1..n |-> list[k]]
    BY ONLY <2>0
  <2> QED
    BY <1>6, <2>1
<1>9. ASSUME NEW x \in S PROVE \E k \in 1..n : list[k] = x
  <2> DEFINE k == rank(x) + 1
  <2>1. k \in 1..n /\ k - 1 = rank(x)
    BY <1>3, <1>7
  <2> HIDE DEF k
  <2>2. list[k] \in S /\ rank(list[k]) = rank(x)
    BY <1>6, <2>1
  <2> QED
    BY <1>3, <2>1, <2>2
<1>10. ASSUME NEW j \in 1..n, NEW k \in 1..n, j < k PROVE list[j] < list[k]
  <2>1. list[j] \in S /\ list[k] \in S /\ rank(list[j]) = j - 1 /\ rank(list[k]) = k - 1
    BY <1>6
  <2>2. ASSUME ~(list[j] < list[k]) PROVE FALSE
    <3>1. \A y \in S : y < list[k] => y < list[j]
      BY <1>0, <1>21, <2>1, <2>2
    <3>2. Ahead(S, R, list[k]) \in SUBSET Ahead(S, R, list[j])
      BY <1>1, <2>1, <3>1 DEF Ahead
    <3>3. IsFiniteSet(Ahead(S, R, list[j]))
      BY FS_Subset DEF Ahead
    <3>4. rank(list[k]) <= rank(list[j])
      BY <3>2, <3>3, FS_Subset DEF rank
    <3> QED
      BY <1>3, <1>10, <2>1, <3>4
  <2> QED
    BY <2>2
<1>11. ASSUME NEW j \in 1..n, NEW k \in 1..n, list[j] = list[k] PROVE j = k
  <2>1. list[j] \in Int /\ list[k] \in Int
    BY <1>6
  <2>2. ~(list[j] < list[k]) /\ ~(list[k] < list[j])
    BY <1>11, <2>1
  <2>3. ~(j < k) /\ ~(k < j)
    BY <1>10, <2>2
  <2> QED
    BY <1>3, <2>3
<1> QED
  BY <1>3, <1>8, <1>9, <1>10, <1>11 DEF n, list

\* A set without the element a sum takes out of it first.
Rest(s) == s \ {CHOOSE x \in s : TRUE}

LEMMA OneLess ==
  ASSUME NEW S, IsFiniteSet(S), NEW s \in SUBSET S
  PROVE  /\ Cardinality(s) \in Nat /\ Cardinality(s) <= Cardinality(S)
         /\ Cardinality(s) = 0 <=> s = {}
         /\ s # {} => /\ (CHOOSE x \in s : TRUE) \in s
                      /\ Rest(s) \in SUBSET S
                      /\ Cardinality(Rest(s)) = Cardinality(s) - 1
<1>1. IsFiniteSet(s) /\ Cardinality(s) <= Cardinality(S)
  BY FS_Subset
<1>2. Cardinality(s) \in Nat /\ (Cardinality(s) = 0 <=> s = {})
  BY <1>1, FS_CardinalityType, FS_EmptySet
<1>3. ASSUME s # {} PROVE (CHOOSE x \in s : TRUE) \in s
  BY <1>3
<1>4. ASSUME s # {} PROVE Cardinality(Rest(s)) = Cardinality(s) - 1
  BY <1>1, <1>3, <1>4, FS_RemoveElement DEF Rest
<1>5. Rest(s) \in SUBSET S
  BY DEF Rest
<1> QED
  BY <1>1, <1>2, <1>3, <1>4, <1>5

\* The subsets of a finite set, from the empty one, an element at a time.
LEMMA SubsetsGrow ==
  ASSUME NEW S, IsFiniteSet(S), NEW T, {} \in T,
         \A s \in SUBSET S : s # {} /\ Rest(s) \in T => s \in T
  PROVE  S \in T
<1> DEFINE n == Cardinality(S)
           K == {k \in 0..n : \A s \in SUBSET S : Cardinality(s) = k => s \in T}
<1>1. n \in Nat
  BY FS_CardinalityType
<1>2. 0 \in K
  <2>1. 0 \in 0..n
    BY <1>1
  <2> QED
    BY <2>1, OneLess
<1>3. ASSUME NEW k \in 0..n, k \in K, k < n PROVE k + 1 \in K
  <2>1. k + 1 \in 0..n /\ k \in Nat /\ k + 1 # 0 /\ (k + 1) - 1 = k
    BY <1>1, <1>3
  <2>2. ASSUME NEW s \in SUBSET S, Cardinality(s) = k + 1 PROVE s \in T
    <3>1. s # {} /\ Rest(s) \in SUBSET S /\ Cardinality(Rest(s)) = k
      BY <2>1, <2>2, OneLess
    <3>2. Rest(s) \in T
      BY <1>3, <3>1
    <3> QED
      BY <3>1, <3>2
  <2> QED
    BY <2>1, <2>2
<1>4. 0..n \subseteq K
  <2> HIDE DEF K, n
  <2> QED
    BY <1>1, <1>2, <1>3, CountingUp
<1>5. n \in 0..n
  BY <1>1
<1> QED
  BY <1>4, <1>5

\* The recursion a sum over a set is defined by, w what each element counts for.
Sums(iter, S, w) ==
  \A s \in SUBSET S : iter[s] = IF s = {} THEN 0 ELSE w[CHOOSE x \in s : TRUE] + iter[Rest(s)]

LEMMA SumsExist ==
  ASSUME NEW S, IsFiniteSet(S), NEW w \in [S -> Nat]
  PROVE  \E iter \in [SUBSET S -> Nat] : Sums(iter, S, w)
<1> DEFINE n == Cardinality(S)
           Up(k) == {s \in SUBSET S : Cardinality(s) <= k}
           Value(iter, s) == IF s = {} THEN 0 ELSE w[CHOOSE x \in s : TRUE] + iter[Rest(s)]
           Solves(iter, k) == \A s \in Up(k) : iter[s] = Value(iter, s)
           K == {k \in 0..n : \E iter \in [Up(k) -> Nat] : Solves(iter, k)}
<1>1. n \in Nat
  BY FS_CardinalityType
<1>2. 0 \in K
  <2> DEFINE iter == [s \in Up(0) |-> 0]
  <2>1. \A s \in Up(0) : s = {}
    BY OneLess
  <2>2. iter \in [Up(0) -> Nat] /\ Solves(iter, 0)
    BY <2>1
  <2>3. 0 \in 0..n
    BY <1>1
  <2> HIDE DEF iter, Up, Solves, n
  <2> QED
    BY <2>2, <2>3
<1>3. ASSUME NEW k \in 0..n, k \in K, k < n PROVE k + 1 \in K
  <2>1. k + 1 \in 0..n /\ k \in Nat
    BY <1>1, <1>3
  <2>2. PICK iter \in [Up(k) -> Nat] : Solves(iter, k)
    BY <1>3
  <2> DEFINE more == [s \in Up(k + 1) |-> Value(iter, s)]
  <2>3. ASSUME NEW s \in Up(k + 1), s # {}
        PROVE  /\ Rest(s) \in Up(k) /\ Rest(s) \in Up(k + 1)
               /\ (CHOOSE x \in s : TRUE) \in S
    <3>1. Cardinality(s) \in Nat /\ Cardinality(s) <= k + 1 /\ s \in SUBSET S
      BY <2>3, OneLess
    <3>2. (CHOOSE x \in s : TRUE) \in s /\ Rest(s) \in SUBSET S
          /\ Cardinality(Rest(s)) = Cardinality(s) - 1
      BY <2>3, <3>1, OneLess
    <3>3. Cardinality(Rest(s)) <= k /\ Cardinality(Rest(s)) <= k + 1
      BY <2>1, <3>1, <3>2
    <3> QED
      BY <3>1, <3>2, <3>3
  <2>4. \A s \in Up(k) : s \in Up(k + 1) /\ iter[s] = Value(iter, s)
    <3>1. \A s \in Up(k) : s \in Up(k + 1)
      BY <2>1, OneLess
    <3> HIDE DEF Up, Value
    <3> QED
      BY <2>2, <3>1
  <2>5. ASSUME NEW s \in Up(k + 1) PROVE more[s] \in Nat /\ more[s] = Value(more, s)
    <3>1. CASE s = {}
      BY <2>5, <3>1
    <3>2. CASE s # {}
      <4> DEFINE c == CHOOSE x \in s : TRUE
                 r == Rest(s)
      <4>1. r \in Up(k) /\ r \in Up(k + 1) /\ c \in S
        BY <2>3, <3>2
      <4>2. more[s] = w[c] + iter[r]
        BY <2>5, <3>2
      <4>3. w[c] \in Nat /\ iter[r] \in Nat
        <5> HIDE DEF c, r, Up, Solves
        <5> QED
          BY <2>2, <4>1
      <4>4. more[r] = iter[r]
        <5>1. more[r] = Value(iter, r)
          BY <4>1
        <5> HIDE DEF more, Value, r, Up
        <5> QED
          BY <2>4, <4>1, <5>1
      <4>5. Value(more, s) = w[c] + more[r]
        BY <3>2
      <4> HIDE DEF more, Value, c, r
      <4> QED
        BY <4>2, <4>3, <4>4, <4>5
    <3> QED
      BY <3>1, <3>2
  <2>6. more \in [Up(k + 1) -> Nat] /\ Solves(more, k + 1)
    <3>1. DOMAIN more = Up(k + 1) /\ more = [s \in Up(k + 1) |-> more[s]]
      OBVIOUS
    <3>2. \A s \in Up(k + 1) : more[s] \in Nat /\ more[s] = Value(more, s)
      BY <2>5
    <3> HIDE DEF more, Up, Value
    <3> QED
      BY <3>1, <3>2
  <2> HIDE DEF more, Up, Solves, n
  <2> QED
    BY <2>1, <2>6
<1>4. 0..n \subseteq K
  <2> HIDE DEF K, n
  <2> QED
    BY <1>1, <1>2, <1>3, CountingUp
<1>5. n \in 0..n
  BY <1>1
<1>6. PICK iter \in [Up(n) -> Nat] : Solves(iter, n)
  BY <1>4, <1>5
<1>7. Up(n) = SUBSET S
  BY OneLess
<1> HIDE DEF Up
<1> QED
  BY <1>6, <1>7 DEF Sums

\* Any solution has numbers for values.
LEMMA SumsAreNumbers ==
  ASSUME NEW S, IsFiniteSet(S), NEW w \in [S -> Nat], NEW iter, Sums(iter, S, w)
  PROVE  iter[S] \in Nat
<1> DEFINE T == {s \in SUBSET S : iter[s] \in Nat}
<1>1. {} \in T
  BY DEF Sums
<1>2. ASSUME NEW s \in SUBSET S, s # {}, Rest(s) \in T PROVE s \in T
  <2>1. w[CHOOSE x \in s : TRUE] \in Nat
    BY <1>2, OneLess
  <2>2. iter[s] = w[CHOOSE x \in s : TRUE] + iter[Rest(s)]
    BY <1>2 DEF Sums
  <2> QED
    BY <1>2, <2>1, <2>2
<1>3. S \in T
  <2> HIDE DEF T
  <2> QED
    BY <1>1, <1>2, SubsetsGrow
<1> QED
  BY <1>3

\* What v counts is no more than factor times what w counts, and falls short by gap
\* where x is.
FallsShort(S, v, w, factor, x, gap) ==
  /\ \A y \in S : v[y] <= factor * w[y]
  /\ v[x] + gap <= factor * w[x]

LEMMA SumsFallShort ==
  ASSUME NEW S, IsFiniteSet(S), NEW v \in [S -> Nat], NEW w \in [S -> Nat],
         NEW iv \in [SUBSET S -> Nat], NEW iw \in [SUBSET S -> Nat],
         Sums(iv, S, v), Sums(iw, S, w),
         NEW x \in S, NEW gap \in Nat, FallsShort(S, v, w, 60, x, gap)
  PROVE  iv[S] + gap <= 60 * iw[S]
<1> DEFINE T == {s \in SUBSET S : /\ iv[s] <= 60 * iw[s]
                                  /\ x \in s => iv[s] + gap <= 60 * iw[s]}
<1>1. {} \in T
  BY DEF Sums
<1>2. ASSUME NEW s \in SUBSET S, s # {}, Rest(s) \in T PROVE s \in T
  <2> DEFINE c == CHOOSE y \in s : TRUE
             r == Rest(s)
  <2>1. c \in s /\ c \in S /\ r \in SUBSET S
    BY <1>2, OneLess
  <2>2. iv[s] = v[c] + iv[r] /\ iw[s] = w[c] + iw[r]
    BY <1>2 DEF Sums
  <2>3. x \in s => x = c \/ x \in r
    BY DEF Rest
  <2>4. iv[r] <= 60 * iw[r] /\ (x \in r => iv[r] + gap <= 60 * iw[r])
    BY <1>2
  <2>5. v[c] <= 60 * w[c] /\ (x = c => v[c] + gap <= 60 * w[c])
    BY <2>1 DEF FallsShort
  <2> HIDE DEF c, r
  <2>6. {v[c], w[c], iv[r], iw[r]} \subseteq Nat
    BY <2>1
  <2>7. iv[s] <= 60 * iw[s]
    BY <2>2, <2>4, <2>5, <2>6
  <2>8. ASSUME x \in s PROVE iv[s] + gap <= 60 * iw[s]
    BY <2>2, <2>3, <2>4, <2>5, <2>6, <2>8
  <2> QED
    BY <2>7, <2>8
<1>3. S \in T
  <2> HIDE DEF T
  <2> QED
    BY <1>1, <1>2, SubsetsGrow
<1> QED
  BY <1>3

-----------------------------------------------------------------------------
(* Scores.  ScoresAreTheirOwn and ChoicesStayOpen say something when the    *)
(* lines are matched.  ScoringInv carries to there that what is answered    *)
(* was noted of the line it numbers (Assessing), and leaves behind that the *)
(* candidates of a line were scored from one list of assessments (Scored).  *)

\* The values of a function over a finite set are finitely many.
LEMMA FinitelyMany ==
  ASSUME NEW S, IsFiniteSet(S), NEW f, DOMAIN f = S
  PROVE  IsFiniteSet({f[x] : x \in S})
<1> DEFINE g == [x \in S |-> f[x]]
<1>1. g \in Surjection(S, {f[x] : x \in S})
  BY DEF Surjection
<1> QED
  BY <1>1, FS_Surjection

\* The number a choice is credited with: of so many values, at least one.
LEMMA OneAtLeast ==
  ASSUME NEW c \in Nat
  PROVE  Max({1, c}) \in Nat \ {0} /\ c <= Max({1, c})
<1>1. Max({1, c}) = CHOOSE x \in {1, c} : \A y \in {1, c} : x >= y
  BY DEF Max
<1>2. \E x \in {1, c} : \A y \in {1, c} : x >= y
  OBVIOUS
<1>3. Max({1, c}) \in {1, c} /\ \A y \in {1, c} : Max({1, c}) >= y
  BY <1>1, <1>2
<1> QED
  BY <1>3

\* Assessments that are finitely many, each of finitely many properties.
Finite(assessments) ==
  /\ IsFiniteSet(Range(assessments))
  /\ \A a \in Range(assessments) : IsFiniteSet(a.sees)

\* What an assessment offers for a property the line leaves open, and what those
\* still in the running do.
NotSaidBy(a, name) ==
  {p.item : p \in {q \in Attributes(a) : q.name = name /\ Agreement(q) = "unstated"}}

Running(assessments) == {b \in Range(assessments) : Viable(b)}

Offers(assessments, name) == UNION {NotSaidBy(a, name) : a \in Running(assessments)}

LEMMA VariantsSay ==
  ASSUME NEW assessments, Finite(assessments), NEW name
  PROVE  /\ Variants(assessments, name) \in Nat \ {0}
         /\ \A x, y \in Offers(assessments, name) : x # y => Variants(assessments, name) >= 2
<1> DEFINE offers == Offers(assessments, name)
           c == Cardinality(offers)
<1>1. ASSUME NEW a \in Running(assessments) PROVE IsFiniteSet(NotSaidBy(a, name))
  <2> DEFINE left == {q \in Attributes(a) : q.name = name /\ Agreement(q) = "unstated"}
             f == [p \in left |-> p.item]
  <2>1. IsFiniteSet(a.sees)
    BY DEF Running, Finite
  <2>2. left \in SUBSET a.sees
    BY DEF Attributes
  <2>3. IsFiniteSet(left)
    BY <2>1, <2>2, FS_Subset
  <2>4. IsFiniteSet({f[p] : p \in left})
    <3> HIDE DEF left
    <3> QED
      BY <2>3, FinitelyMany
  <2>5. {f[p] : p \in left} = NotSaidBy(a, name)
    BY DEF NotSaidBy
  <2> QED
    BY <2>4, <2>5
<1>2. IsFiniteSet(offers)
  <2> DEFINE run == Running(assessments)
             f == [a \in run |-> NotSaidBy(a, name)]
  <2>1. run \in SUBSET Range(assessments)
    BY DEF Running
  <2>2. IsFiniteSet(run)
    BY <2>1, FS_Subset DEF Finite
  <2>3. IsFiniteSet({f[a] : a \in run})
    <3> HIDE DEF run
    <3> QED
      BY <2>2, FinitelyMany
  <2>4. \A T \in {f[a] : a \in run} : IsFiniteSet(T)
    BY <1>1
  <2>5. offers = UNION {f[a] : a \in run}
    BY DEF Offers
  <2> HIDE DEF f, run, offers
  <2> QED
    BY <2>3, <2>4, <2>5, FS_UNION
<1>3. c \in Nat
  BY <1>2, FS_CardinalityType
<1>4. Variants(assessments, name) = Max({1, c})
  BY DEF Variants, Offers, NotSaidBy, Running
<1>5. ASSUME NEW x \in offers, NEW y \in offers, x # y PROVE c >= 2
  <2>1. {x, y} \in SUBSET offers /\ x \notin {y}
    BY <1>5
  <2>2. IsFiniteSet({y}) /\ Cardinality({y}) = 1
    BY FS_Singleton
  <2>3. Cardinality({y} \cup {x}) = 2
    BY <2>1, <2>2, FS_AddElement
  <2>4. {y} \cup {x} \in SUBSET offers
    BY <2>1
  <2>5. Cardinality({y} \cup {x}) <= c
    BY <1>2, <2>4, FS_Subset
  <2> QED
    BY <2>3, <2>5
<1> HIDE DEF offers, c
<1> QED
  BY <1>3, <1>4, <1>5, OneAtLeast DEF offers

\* What a property is credited with, in sixtieths.
LEMMA CreditSays ==
  ASSUME NEW assessments, Finite(assessments), NEW p
  PROVE  /\ Credit(p, assessments) \in 0..60
         /\ (Agreement(p) = "unstated" /\ Variants(assessments, p.name) >= 2)
              => Credit(p, assessments) <= 30
<1> DEFINE v == Variants(assessments, p.name)
<1>1. v \in Nat \ {0}
  BY VariantsSay
<1>2. \A n \in Nat \ {0} : 60 \div n \in 0..60 /\ (n >= 2 => 60 \div n <= 30)
  OBVIOUS
<1>3. 60 \div v \in 0..60 /\ (v >= 2 => 60 \div v <= 30)
  <2> HIDE DEF v
  <2> QED
    BY <1>1, <1>2
<1>4. 60 \div 2 = 30
  OBVIOUS
<1> DEFINE open == 60 \div v
<1>5. Credit(p, assessments) = CASE Agreement(p) = "match" -> 60
                               [] Agreement(p) = "unstated" -> open
                               [] Agreement(p) = "unconfirmed" -> 30
                               [] OTHER -> 0
  BY <1>4 DEF Credit, Whole
<1>6. Agreement(p) \in {"match", "conflict", "unstated", "unconfirmed"}
  BY DEF Agreement
<1>7. open \in 0..60 /\ (v >= 2 => open <= 30)
  BY <1>3
<1> HIDE DEF open, v
<1> QED
  BY <1>5, <1>6, <1>7 DEF v

\* What the properties of an assessment weigh, and what they have earned.
TotalWeight(a) == MapThenSumSet(Weight, Attributes(a))

Earned(a, assessments) ==
  MapThenSumSet(LAMBDA p : Weight(p) * Credit(p, assessments), Attributes(a))

LEMMA TotalWeightSums ==
  ASSUME NEW a, IsFiniteSet(a.sees)
  PROVE  \E iter \in [SUBSET Attributes(a) -> Nat] :
           /\ Sums(iter, Attributes(a), [p \in Attributes(a) |-> Weight(p)])
           /\ TotalWeight(a) = iter[Attributes(a)]
<1> DEFINE S == Attributes(a)
           w == [p \in S |-> Weight(p)]
           next(f) == [s \in SUBSET S |->
                            IF s = {} THEN 0
                            ELSE Weight(CHOOSE x \in s : TRUE) + f[s \ {CHOOSE x \in s : TRUE}]]
           iter == CHOOSE f : f = next(f)
<1>1. IsFiniteSet(S)
  BY FS_Subset DEF Attributes
<1>2. w \in [S -> Nat] /\ \A p \in S : w[p] = Weight(p)
  BY DEF Weight, KeyWeight, MinorWeight
<1>3. PICK good \in [SUBSET S -> Nat] : Sums(good, S, w)
  <2> HIDE DEF S, w
  <2> QED
    BY <1>1, <1>2, SumsExist
<1>4. \A s \in SUBSET S : s # {} => (CHOOSE x \in s : TRUE) \in S
  OBVIOUS
<1>5. good = next(good)
  <2>1. \A s \in SUBSET S : good[s] = next(good)[s]
    <3> HIDE DEF S, w
    <3> QED
      BY <1>2, <1>3, <1>4 DEF Sums, Rest
  <2>2. DOMAIN good = SUBSET S /\ DOMAIN next(good) = SUBSET S
    OBVIOUS
  <2>3. good = [s \in SUBSET S |-> good[s]] /\ next(good) = [s \in SUBSET S |-> next(good)[s]]
    BY <2>2
  <2> HIDE DEF next, S
  <2> QED
    BY <2>1, <2>3
<1>6. iter = next(iter)
  <2> HIDE DEF next, S
  <2> QED
    BY <1>5
<1> HIDE DEF iter
<1>7. DOMAIN iter = SUBSET S /\ Sums(iter, S, w)
  <2>1. DOMAIN next(iter) = SUBSET S /\ \A s \in SUBSET S : next(iter)[s] =
          IF s = {} THEN 0 ELSE Weight(CHOOSE x \in s : TRUE) + iter[s \ {CHOOSE x \in s : TRUE}]
    OBVIOUS
  <2> HIDE DEF next, S, w
  <2> QED
    BY <1>2, <1>4, <1>6, <2>1 DEF Sums, Rest
<1>8. TotalWeight(a) = iter[S]
  BY DEF TotalWeight, MapThenSumSet, MapThenFoldSet, iter
<1>9. \A s \in SUBSET S : iter[s] \in Nat
  <2> SUFFICES ASSUME NEW s \in SUBSET S PROVE iter[s] \in Nat
    OBVIOUS
  <2> DEFINE v == [p \in s |-> w[p]]
  <2>1. IsFiniteSet(s) /\ v \in [s -> Nat]
    BY <1>1, <1>2, FS_Subset
  <2>2. Sums(iter, s, v)
    <3>1. \A t \in SUBSET s : t \in SUBSET S /\ (t # {} => v[CHOOSE x \in t : TRUE] = w[CHOOSE x \in t : TRUE])
      OBVIOUS
    <3> HIDE DEF v, w, S
    <3> QED
      BY <1>7, <3>1 DEF Sums
  <2> HIDE DEF v, w, S
  <2> QED
    BY <2>1, <2>2, SumsAreNumbers
<1>10. iter \in [SUBSET S -> Nat]
  <2>1. iter = [s \in SUBSET S |-> iter[s]]
    BY <1>6, <1>7 DEF next
  <2> HIDE DEF S
  <2> QED
    BY <1>9, <2>1
<1> QED
  BY <1>7, <1>8, <1>10

LEMMA EarnedSums ==
  ASSUME NEW assessments, Finite(assessments), NEW a, IsFiniteSet(a.sees)
  PROVE  \E iter \in [SUBSET Attributes(a) -> Nat] :
           /\ Sums(iter, Attributes(a), [p \in Attributes(a) |-> Weight(p) * Credit(p, assessments)])
           /\ Earned(a, assessments) = iter[Attributes(a)]
<1> DEFINE S == Attributes(a)
           worth(p) == Weight(p) * Credit(p, assessments)
           w == [p \in S |-> worth(p)]
           next(f) == [s \in SUBSET S |->
                            IF s = {} THEN 0
                            ELSE worth(CHOOSE x \in s : TRUE) + f[s \ {CHOOSE x \in s : TRUE}]]
           iter == CHOOSE f : f = next(f)
<1>1. IsFiniteSet(S)
  BY FS_Subset DEF Attributes
<1>2. w \in [S -> Nat] /\ \A p \in S : w[p] = worth(p)
  <2>1. \A p \in S : Weight(p) \in Nat /\ Credit(p, assessments) \in Nat
    BY CreditSays DEF Weight, KeyWeight, MinorWeight
  <2>2. \A m, n \in Nat : m * n \in Nat
    OBVIOUS
  <2>3. \A p \in S : worth(p) \in Nat
    BY <2>1, <2>2
  <2> HIDE DEF worth, S
  <2> QED
    BY <2>3
<1>3. PICK good \in [SUBSET S -> Nat] : Sums(good, S, w)
  <2> HIDE DEF S, w, worth
  <2> QED
    BY <1>1, <1>2, SumsExist
<1>4. \A s \in SUBSET S : s # {} => (CHOOSE x \in s : TRUE) \in S
  OBVIOUS
<1>5. good = next(good)
  <2>1. \A s \in SUBSET S : good[s] = next(good)[s]
    <3> HIDE DEF S, w, worth
    <3> QED
      BY <1>2, <1>3, <1>4 DEF Sums, Rest
  <2>2. DOMAIN good = SUBSET S /\ DOMAIN next(good) = SUBSET S
    OBVIOUS
  <2>3. good = [s \in SUBSET S |-> good[s]] /\ next(good) = [s \in SUBSET S |-> next(good)[s]]
    BY <2>2
  <2> HIDE DEF next, S, worth
  <2> QED
    BY <2>1, <2>3
<1>6. iter = next(iter)
  <2> HIDE DEF next, S, worth
  <2> QED
    BY <1>5
<1> HIDE DEF iter, worth
<1>7. DOMAIN iter = SUBSET S /\ Sums(iter, S, w)
  <2>1. DOMAIN next(iter) = SUBSET S /\ \A s \in SUBSET S : next(iter)[s] =
          IF s = {} THEN 0 ELSE worth(CHOOSE x \in s : TRUE) + iter[s \ {CHOOSE x \in s : TRUE}]
    OBVIOUS
  <2> HIDE DEF next, S, w, worth
  <2> QED
    BY <1>2, <1>4, <1>6, <2>1 DEF Sums, Rest
<1>8. Earned(a, assessments) = iter[S]
  BY DEF Earned, MapThenSumSet, MapThenFoldSet, iter, worth
<1>9. \A s \in SUBSET S : iter[s] \in Nat
  <2> SUFFICES ASSUME NEW s \in SUBSET S PROVE iter[s] \in Nat
    OBVIOUS
  <2> DEFINE v == [p \in s |-> w[p]]
  <2>1. IsFiniteSet(s) /\ v \in [s -> Nat]
    BY <1>1, <1>2, FS_Subset
  <2>2. Sums(iter, s, v)
    <3>1. \A t \in SUBSET s : t \in SUBSET S /\ (t # {} => v[CHOOSE x \in t : TRUE] = w[CHOOSE x \in t : TRUE])
      OBVIOUS
    <3> HIDE DEF v, w, S, worth
    <3> QED
      BY <1>7, <3>1 DEF Sums
  <2> HIDE DEF v, w, S, worth
  <2> QED
    BY <2>1, <2>2, SumsAreNumbers
<1>10. iter \in [SUBSET S -> Nat]
  <2>1. iter = [s \in SUBSET S |-> iter[s]]
    BY <1>6, <1>7 DEF next
  <2> HIDE DEF S
  <2> QED
    BY <1>9, <2>1
<1>11. w = [p \in S |-> Weight(p) * Credit(p, assessments)]
  BY DEF worth
<1> HIDE DEF w
<1> QED
  BY <1>7, <1>8, <1>10, <1>11

\* How often one number is in another, between bounds.
LEMMA HowOften ==
  ASSUME NEW n \in Nat, NEW d \in Nat \ {0}, NEW low \in Nat, NEW high \in Nat,
         low * d <= n, n < (high + 1) * d
  PROVE  n \div d \in low..high
<1> DEFINE q == n \div d
<1>1. \A m \in Nat, c \in Nat \ {0} :
        m \div c \in Nat /\ (m \div c) * c <= m /\ m < ((m \div c) + 1) * c
  OBVIOUS
<1>2. q \in Nat /\ q * d <= n /\ n < (q + 1) * d
  BY <1>1
<1>3. \A a, b, c \in Nat : a <= b => a * c <= b * c
  OBVIOUS
<1>4. \A a, b \in Nat : a * b \in Nat
  OBVIOUS
<1> HIDE DEF q
<1>5. ~(q + 1 <= low)
  <2>1. q + 1 <= low => (q + 1) * d <= low * d
    BY <1>2, <1>3
  <2>2. (q + 1) * d \in Nat /\ low * d \in Nat
    BY <1>2, <1>4
  <2> QED
    BY <1>2, <2>1, <2>2
<1>6. ~(high + 1 <= q)
  <2>1. high + 1 <= q => (high + 1) * d <= q * d
    BY <1>2, <1>3
  <2>2. (high + 1) * d \in Nat /\ q * d \in Nat
    BY <1>2, <1>4
  <2> QED
    BY <1>2, <2>1, <2>2
<1>7. low <= q /\ q <= high
  BY <1>2, <1>5, <1>6
<1> QED
  BY <1>2, <1>7 DEF q

\* What the properties of an assessment weigh and have earned: a share of it, and
\* half of what it weighs is missing where one of several values was left open.
EarnsAtMost(a, assessments) ==
  /\ TotalWeight(a) \in Nat \ {0}
  /\ Earned(a, assessments) \in Nat
  /\ Earned(a, assessments) <= 60 * TotalWeight(a)
  /\ \A p \in Attributes(a) :
       (Agreement(p) = "unstated" /\ Variants(assessments, p.name) >= 2)
         => Earned(a, assessments) + 30 <= 60 * TotalWeight(a)

LEMMA EarnsSays ==
  ASSUME NEW assessments, Finite(assessments), NEW a, IsFiniteSet(a.sees), Attributes(a) # {}
  PROVE  EarnsAtMost(a, assessments)
<1> DEFINE S == Attributes(a)
           w == [p \in S |-> Weight(p)]
           v == [p \in S |-> Weight(p) * Credit(p, assessments)]
           LeftOpen(p) == Agreement(p) = "unstated" /\ Variants(assessments, p.name) >= 2
<1>1. PICK iw \in [SUBSET S -> Nat] : Sums(iw, S, w) /\ TotalWeight(a) = iw[S]
  BY TotalWeightSums
<1>2. PICK iv \in [SUBSET S -> Nat] : Sums(iv, S, v) /\ Earned(a, assessments) = iv[S]
  BY EarnedSums
<1>3. IsFiniteSet(S)
  BY FS_Subset DEF Attributes
<1>4. ASSUME NEW p \in S
      PROVE  /\ w[p] \in {1, 3} /\ v[p] \in Nat /\ v[p] <= 60 * w[p]
             /\ LeftOpen(p) => v[p] + 30 <= 60 * w[p]
  <2> DEFINE m == Weight(p)
             c == Credit(p, assessments)
  <2>1. m \in {1, 3}
    BY DEF Weight, KeyWeight, MinorWeight
  <2>2. c \in 0..60 /\ (LeftOpen(p) => c <= 30)
    BY CreditSays
  <2>3. w[p] = m /\ v[p] = m * c
    OBVIOUS
  <2> HIDE DEF m, c, w, v, LeftOpen
  <2>4. CASE m = 1
    BY <2>2, <2>3, <2>4
  <2>5. CASE m = 3
    BY <2>2, <2>3, <2>5
  <2> QED
    BY <2>1, <2>4, <2>5
<1>5. w \in [S -> Nat] /\ v \in [S -> Nat]
  <2>1. w = [p \in S |-> w[p]] /\ v = [p \in S |-> v[p]]
    OBVIOUS
  <2>2. \A p \in S : w[p] \in Nat /\ v[p] \in Nat
    <3> HIDE DEF w, v, S, LeftOpen
    <3> QED
      BY <1>4
  <2> HIDE DEF w, v, S
  <2> QED
    BY <2>1, <2>2
<1> HIDE DEF w, v, S, LeftOpen
<1>6. PICK x \in S : TRUE
  BY DEF S
<1>7. iw[S] \in Nat /\ iv[S] \in Nat
  OBVIOUS
<1>8. iw[S] + 59 <= 60 * iw[S]
  <2>1. FallsShort(S, w, w, 60, x, 59)
    BY <1>4 DEF FallsShort
  <2> QED
    BY <1>1, <1>3, <1>5, <2>1, SumsFallShort
<1>9. iv[S] + 0 <= 60 * iw[S]
  <2>1. FallsShort(S, v, w, 60, x, 0)
    BY <1>4 DEF FallsShort
  <2> QED
    BY <1>1, <1>2, <1>3, <1>5, <2>1, SumsFallShort
<1>10. ASSUME NEW p \in S, LeftOpen(p) PROVE iv[S] + 30 <= 60 * iw[S]
  <2>1. FallsShort(S, v, w, 60, p, 30)
    BY <1>4, <1>10 DEF FallsShort
  <2> QED
    BY <1>1, <1>2, <1>3, <1>5, <2>1, SumsFallShort
<1>11. iw[S] # 0
  BY <1>7, <1>8
<1>12. iv[S] <= 60 * iw[S]
  BY <1>7, <1>9
<1> QED
  BY <1>1, <1>2, <1>7, <1>10, <1>11, <1>12 DEF EarnsAtMost, S, LeftOpen

\* The formula, over what was weighed and earned.
LEMMA ScoreIs ==
  ASSUME NEW assessments, NEW a
  PROVE  Score(a, assessments) =
           IF ~Viable(a) THEN 0
           ELSE IF Attributes(a) = {} THEN 100
           ELSE (2 * (50 * TotalWeight(a) * 60 + 50 * Earned(a, assessments)) + TotalWeight(a) * 60)
                  \div (2 * TotalWeight(a) * 60)
BY DEF Score, Whole, TotalWeight, Earned

\* A score: nothing for a product that contradicts the line, half or more for one
\* that does not.
LEMMA ScoreSays ==
  ASSUME NEW assessments, Finite(assessments), NEW a, IsFiniteSet(a.sees)
  PROVE  IF Viable(a) THEN Score(a, assessments) \in 50..100 ELSE Score(a, assessments) = 0
<1>1. CASE ~Viable(a)
  BY <1>1, ScoreIs
<1>2. CASE Viable(a) /\ Attributes(a) = {}
  BY <1>2, ScoreIs
<1>3. CASE Viable(a) /\ Attributes(a) # {}
  <2> DEFINE t == TotalWeight(a)
             e == Earned(a, assessments)
  <2>1. t \in Nat \ {0} /\ e \in Nat /\ e <= 60 * t
    BY <1>3, EarnsSays DEF EarnsAtMost
  <2>2. Score(a, assessments) = (2 * (50 * t * 60 + 50 * e) + t * 60) \div (2 * t * 60)
    BY <1>3, ScoreIs
  <2> HIDE DEF t, e
  <2> DEFINE n == 2 * (50 * t * 60 + 50 * e) + t * 60
             d == 2 * t * 60
  <2>3. n = 6060 * t + 100 * e /\ d = 120 * t /\ n \in Nat /\ d \in Nat \ {0}
    BY <2>1
  <2> DEFINE low == 50
             high == 100
  <2>4. low \in Nat /\ high \in Nat /\ low * d <= n /\ n < (high + 1) * d
    BY <2>1, <2>3
  <2>5. Score(a, assessments) = n \div d
    BY <2>2
  <2> HIDE DEF n, d, low, high
  <2>6. n \in Nat /\ d \in Nat \ {0}
    BY <2>3
  <2>7. n \div d \in low..high
    BY <2>4, <2>6, HowOften
  <2> QED
    BY <1>3, <2>5, <2>7 DEF low, high
<1> QED
  BY <1>1, <1>2, <1>3

\* One of several values left open, and few enough properties for the missing share
\* not to be rounded away.
LEMMA OpenIsNotWhole ==
  ASSUME NEW assessments, Finite(assessments), NEW a, IsFiniteSet(a.sees),
         TotalWeight(a) < 50, NEW p \in Attributes(a), Agreement(p) = "unstated",
         Variants(assessments, p.name) >= 2
  PROVE  Score(a, assessments) # 100
<1>1. CASE ~Viable(a)
  BY <1>1, ScoreIs
<1>2. CASE Viable(a)
  <2> DEFINE t == TotalWeight(a)
             e == Earned(a, assessments)
  <2>1. t \in Nat \ {0} /\ e \in Nat /\ e + 30 <= 60 * t /\ t < 50
    BY EarnsSays DEF EarnsAtMost
  <2>2. Score(a, assessments) = (2 * (50 * t * 60 + 50 * e) + t * 60) \div (2 * t * 60)
    BY <1>2, ScoreIs
  <2> HIDE DEF t, e
  <2> DEFINE n == 2 * (50 * t * 60 + 50 * e) + t * 60
             d == 2 * t * 60
  <2>3. n = 6060 * t + 100 * e /\ d = 120 * t /\ n \in Nat /\ d \in Nat \ {0}
    BY <2>1
  <2> DEFINE low == 0
             high == 99
  <2>4. low \in Nat /\ high \in Nat /\ low * d <= n /\ n < (high + 1) * d
    BY <2>1, <2>3
  <2>5. Score(a, assessments) = n \div d
    BY <2>2
  <2> HIDE DEF n, d, low, high
  <2>6. n \in Nat /\ d \in Nat \ {0}
    BY <2>3
  <2>7. n \div d \in low..high
    BY <2>4, <2>6, HowOften
  <2> QED
    BY <2>5, <2>7 DEF low, high
<1> QED
  BY <1>1, <1>2

\* Candidates by score: the candidates there were.
LEMMA ByScoreSays ==
  ASSUME NEW n \in Nat, NEW candidates, DOMAIN candidates = 1..n,
         \A c \in 1..n : candidates[c].confidence \in Int \/ candidates[c].confidence = NoScore
  PROVE  /\ DOMAIN ByScore(candidates) = 1..n
         /\ \A k \in 1..n : \E c \in 1..n : ByScore(candidates)[k] = candidates[c]
<1> DEFINE S == 1..n
           scoreOf(c) == candidates[c].confidence
           before(c, d) ==
             \/ scoreOf(c) # NoScore /\ scoreOf(d) = NoScore
             \/ scoreOf(c) # NoScore /\ scoreOf(d) # NoScore /\ scoreOf(c) > scoreOf(d)
             \/ scoreOf(c) = scoreOf(d) /\ c < d
           R == {p \in S \X S : before(p[1], p[2])}
           place(c) == Cardinality(Ahead(S, R, c))
           order == Ranked(DOMAIN candidates, before)
<1>1. IsFiniteSet(S) /\ Cardinality(S) = n
  BY FS_Interval
<1>2. \A x, y \in S : <<x, y>> \in R <=> before(x, y)
  <2> HIDE DEF before, S
  <2> QED
    OBVIOUS
<1>3. \A x \in S : x \in Int /\ (scoreOf(x) \in Int \/ scoreOf(x) = NoScore)
  OBVIOUS
<1> HIDE DEF scoreOf
<1>4. \A x \in S : ~before(x, x)
  BY <1>3
<1>5. ASSUME NEW x \in S, NEW y \in S PROVE x = y \/ before(x, y) \/ before(y, x)
  <2>1. x = y \/ x < y \/ y < x
    BY <1>3
  <2>2. CASE scoreOf(x) = NoScore \/ scoreOf(y) = NoScore
    BY <2>1, <2>2
  <2>3. CASE scoreOf(x) # NoScore /\ scoreOf(y) # NoScore
    <3>1. scoreOf(x) \in Int /\ scoreOf(y) \in Int
      BY <1>3, <2>3
    <3>2. scoreOf(x) = scoreOf(y) \/ scoreOf(x) > scoreOf(y) \/ scoreOf(y) > scoreOf(x)
      BY <3>1
    <3> QED
      BY <2>1, <2>3, <3>2
  <2> QED
    BY <2>2, <2>3
<1>6. ASSUME NEW x \in S, NEW y \in S, NEW z \in S, before(x, y), before(y, z)
      PROVE  before(x, z)
  <2>1. x < y /\ y < z => x < z
    BY <1>3
  <2>2. CASE scoreOf(x) = NoScore \/ scoreOf(y) = NoScore \/ scoreOf(z) = NoScore
    BY <1>6, <2>1, <2>2
  <2>3. CASE scoreOf(x) # NoScore /\ scoreOf(y) # NoScore /\ scoreOf(z) # NoScore
    <3>1. scoreOf(x) \in Int /\ scoreOf(y) \in Int /\ scoreOf(z) \in Int
      BY <1>3, <2>3
    <3>2. scoreOf(x) >= scoreOf(y) /\ scoreOf(y) >= scoreOf(z)
      BY <1>6, <2>3, <3>1
    <3>3. scoreOf(x) > scoreOf(z) \/ (scoreOf(x) = scoreOf(y) /\ scoreOf(y) = scoreOf(z))
      BY <3>1, <3>2
    <3>4. scoreOf(x) = scoreOf(y) /\ scoreOf(y) = scoreOf(z) => x < z
      BY <1>3, <1>6, <2>1, <3>1
    <3> QED
      BY <2>3, <3>3, <3>4
  <2> QED
    BY <2>2, <2>3
<1>7. Ordered(S, R)
  <2> HIDE DEF R, before, S
  <2> QED
    BY <1>2, <1>4, <1>5, <1>6 DEF Ordered
<1>8. \A k \in 1..n : \E x \in S : place(x) = k - 1
  <2> HIDE DEF R, S, before
  <2>1. InPlaces(S, R)
    BY <1>1, <1>7, PlacesAreTaken
  <2> QED
    BY <1>1, <2>1 DEF InPlaces, place
<1>9. \A x \in S : {y \in S : before(y, x)} = Ahead(S, R, x)
  <2> HIDE DEF R, before, S
  <2> QED
    BY <1>2 DEF Ahead
<1>10. order = [k \in 1..n |-> CHOOSE x \in S : Cardinality({y \in S : before(y, x)}) = k - 1]
  <2> HIDE DEF before
  <2> QED
    BY <1>1 DEF Ranked
<1>11. ASSUME NEW k \in 1..n PROVE order[k] \in S
  <2>1. order[k] = CHOOSE x \in S : Cardinality({y \in S : before(y, x)}) = k - 1
    <3> HIDE DEF order, before, S
    <3> QED
      BY <1>10
  <2>2. \E x \in S : Cardinality({y \in S : before(y, x)}) = k - 1
    <3> HIDE DEF R, before, S
    <3> QED
      BY <1>8, <1>9
  <2> HIDE DEF order, before, S
  <2> QED
    BY <2>1, <2>2
<1>12. DOMAIN order = 1..n
  <2> HIDE DEF order
  <2> QED
    BY <1>10
<1>13. ByScore(candidates) = [k \in DOMAIN order |-> candidates[order[k]]]
  BY DEF ByScore, scoreOf
<1> HIDE DEF order
<1> QED
  BY <1>11, <1>12, <1>13

\* A list with so many places.
Enumerated(s) == \E n \in Nat : DOMAIN s = 1..n

LEMMA LengthOf ==
  ASSUME NEW s, NEW n \in Nat, DOMAIN s = 1..n
  PROVE  Len(s) = n
BY \A m \in Nat : 1..m = 1..n => m = n

\* A search finds a list of products.
LEMMA SearchIsAList == \A text : Enumerated(Search(text))
<1> SUFFICES ASSUME NEW text PROVE Enumerated(Search(text))
  OBVIOUS
<1> DEFINE hit == {r \in DOMAIN Sheet : Worth(text, Sheet[r]) > 0}
           before(r, s) == \/ Worth(text, Sheet[r]) > Worth(text, Sheet[s])
                           \/ Worth(text, Sheet[r]) = Worth(text, Sheet[s]) /\ r < s
           ranked == Ranked(hit, before)
           best == {i \in DOMAIN ranked :
                      \A j \in 1..i - 1 : Sheet[ranked[j]].code # Sheet[ranked[i]].code}
           first == InOrder(best)
           n == Min({Shortlisted, Len(first)})
<1>1. IsFiniteSet(DOMAIN Sheet)
  <2>1. DOMAIN Sheet = 1..Len(Sheet) /\ Len(Sheet) \in Int
    BY SheetIsAList
  <2> QED
    BY <2>1, FS_Interval
<1>2. IsFiniteSet(hit)
  <2>1. hit \in SUBSET DOMAIN Sheet
    OBVIOUS
  <2> HIDE DEF hit
  <2> QED
    BY <1>1, <2>1, FS_Subset
<1>3. Cardinality(hit) \in Nat
  BY <1>2, FS_CardinalityType
<1>4. DOMAIN ranked = 1..Cardinality(hit)
  <2> HIDE DEF hit, before
  <2> QED
    BY DEF Ranked
<1>5. IsFiniteSet(best) /\ best \subseteq Int
  <2>1. best \in SUBSET (1..Cardinality(hit))
    <3> HIDE DEF hit, ranked
    <3> QED
      BY <1>4
  <2>2. IsFiniteSet(1..Cardinality(hit))
    BY <1>3, FS_Interval
  <2>3. 1..Cardinality(hit) \subseteq Int
    OBVIOUS
  <2> HIDE DEF best, hit
  <2>4. IsFiniteSet(best)
    BY <2>1, <2>2, FS_Subset
  <2> QED
    BY <2>1, <2>3, <2>4
<1>6. Cardinality(best) \in Nat /\ DOMAIN first = 1..Cardinality(best)
  <2> HIDE DEF best
  <2> QED
    BY <1>5, InOrderSays
<1>7. Len(first) = Cardinality(best)
  <2> HIDE DEF first, best
  <2> QED
    BY <1>6, LengthOf
<1>8. Shortlisted \in Nat
  BY BatchesArePositive
<1>9. n \in Nat
  <2> HIDE DEF first, best
  <2> QED
    BY <1>6, <1>7, <1>8, LeastOfTwo
<1>10. Search(text) = [k \in 1..n |-> Sheet[ranked[first[k]]]]
  BY DEF Search
<1> HIDE DEF n
<1> QED
  BY <1>9, <1>10 DEF Enumerated

\* Shortlists are lists of products and what they score.
Shortlists ==
  /\ Enumerated(matched)
  /\ \A i \in DOMAIN matched :
       /\ Enumerated(matched[i].candidates)
       /\ \A c \in DOMAIN matched[i].candidates :
            DOMAIN matched[i].candidates[c] = {"product", "confidence"}

LEMMA UnscoredSays ==
  ASSUME NEW products, Enumerated(products)
  PROVE  /\ Enumerated(Unscored(products))
         /\ \A c \in DOMAIN Unscored(products) :
              DOMAIN Unscored(products)[c] = {"product", "confidence"}
BY DEF Unscored, Enumerated

LEMMA ShortlistsChosen ==
  ASSUME MatchingInv, Choose PROVE Shortlists'
<1>1. lines \in Seq(Range(lines))
  BY RequestsAreLists DEF MatchingInv
<1>2. DOMAIN matched' = DOMAIN lines
  BY DEF Choose
<1>3. Enumerated(matched')
  <2>1. DOMAIN lines = 1..Len(lines) /\ Len(lines) \in Nat
    BY <1>1
  <2> QED
    BY <1>2, <2>1 DEF Enumerated
<1>4. Enumerated(<<>>) /\ \A x : Enumerated(<<x>>)
  <2>1. DOMAIN <<>> = 1..0 /\ \A x : DOMAIN <<x>> = 1..1
    OBVIOUS
  <2> QED
    BY <2>1 DEF Enumerated
<1>5. \A code : Enumerated(ByCode(code))
  BY <1>4 DEF ByCode
<1>6. ASSUME NEW i \in DOMAIN matched'
      PROVE  \E products : Enumerated(products) /\ matched'[i].candidates = Unscored(products)
  <2>1. CASE Sheet = <<>>
    <3>1. matched'[i] = [how |-> "none", candidates |-> <<>>]
      BY <1>2, <2>1 DEF Choose
    <3>2. Unscored(<<>>) = <<>>
      BY DEF Unscored
    <3> QED
      BY <1>4, <3>1, <3>2
  <2>2. CASE Sheet # <<>>
    <3>1. matched'[i] = One(lines[i])
      BY <1>2, <2>2 DEF Choose
    <3> DEFINE named == ByCode(lines[i].code)
               found == Search(lines[i].text)
               agreed == named # <<>> /\ \E k \in DOMAIN Pairs :
                           Pairs[k] = Pair(lines[i]) /\ Verdict(k, Len(Pairs))
    <3>2. CASE agreed
      <4>1. One(lines[i]) = [how |-> "code_confirmed", candidates |-> Unscored(named)]
        BY <3>2, Zenon DEF One
      <4>2. Enumerated(named)
        BY <1>5
      <4> HIDE DEF named
      <4> QED
        BY <3>1, <4>1, <4>2
    <3>3. CASE ~agreed
      <4> DEFINE how == IF found = <<>> THEN "none"
                        ELSE IF named # <<>> THEN "code_rejected" ELSE "search"
      <4>1. One(lines[i]) = [how |-> how, candidates |-> Unscored(found)]
        BY <3>3, Zenon DEF One
      <4>2. Enumerated(found)
        BY SearchIsAList
      <4> HIDE DEF found, how
      <4> QED
        BY <3>1, <4>1, <4>2
    <3> QED
      BY <3>2, <3>3
  <2> QED
    BY <2>1, <2>2
<1>7. ASSUME NEW i \in DOMAIN matched'
      PROVE  /\ Enumerated(matched'[i].candidates)
             /\ \A c \in DOMAIN matched'[i].candidates :
                  DOMAIN matched'[i].candidates[c] = {"product", "confidence"}
  BY <1>6, UnscoredSays
<1> QED
  BY <1>3, <1>7 DEF Shortlists, Enumerated

\* What the assessor may say of a product.
Assessable ==
  {d.assessment : d \in UNION {Range(e.checks) : e \in UNION {Range(reply) : reply \in Checks}}}

LEMMA AssessableSays ==
  /\ \A reply \in Checks :
       /\ reply \in Seq(Range(reply))
       /\ \A e \in Range(reply) :
            /\ e.checks \in Seq(Range(e.checks))
            /\ \A d \in Range(e.checks) : d.assessment \in Assessable
  /\ \A a \in Assessable : IsFiniteSet(a.sees)
BY ChecksAreEntries DEF Assessable

\* Question k of n, asked in that call under that index.
AskedIn(k, n, size, call, index) ==
  /\ call \in Nat \ {0}
  /\ call \in Calls(n, size)
  /\ index \in 0..Min({size, n - (call - 1) * size}) - 1
  /\ (call - 1) * size + index + 1 = k

\* Where a question stands among the calls.
LEMMA CallOf ==
  ASSUME NEW size \in Nat \ {0}, NEW n \in Nat, NEW k \in 1..n
  PROVE  AskedIn(k, n, size, (k - 1) \div size + 1, (k - 1) % size)
<1> DEFINE q == (k - 1) \div size
           r == (k - 1) % size
           last == (n + size - 1) \div size
           below == q * size
<1>1. \A m \in Nat, c \in Nat \ {0} :
        /\ m \div c \in Nat /\ m % c \in 0..c - 1
        /\ m = (m \div c) * c + (m % c)
  <2>1. \A m \in Nat, c \in Nat \ {0} : m \div c \in Nat /\ m % c \in 0..c - 1
    OBVIOUS
  <2>2. \A m, c \in Nat : c > 0 => (m % c) + c * (m \div c) = m
    OBVIOUS
  <2>3. \A m, c, a \in Nat : m + c * a = a * c + m
    OBVIOUS
  <2>4. \A c \in Nat \ {0} : c \in Nat /\ c > 0
    OBVIOUS
  <2>5. ASSUME NEW m \in Nat, NEW c \in Nat \ {0} PROVE m = (m \div c) * c + (m % c)
    <3> DEFINE often == m \div c
               left == m % c
    <3>1. often \in Nat /\ left \in Nat /\ left + c * often = m /\ c \in Nat
      BY <2>1, <2>2, <2>4
    <3> HIDE DEF often, left
    <3>2. m = often * c + left
      BY <2>3, <3>1
    <3> QED
      BY <3>2 DEF often, left
  <2> QED
    BY <2>1, <2>5
<1>2. \A m \in Nat, c \in Nat \ {0} : m < (m \div c + 1) * c
  OBVIOUS
<1>3. k - 1 \in Nat /\ n + size - 1 \in Nat
  OBVIOUS
<1>4. q \in Nat /\ r \in 0..size - 1 /\ k - 1 = below + r
  BY <1>1, <1>3
<1>5. last \in Nat /\ n + size - 1 < (last + 1) * size
  BY <1>1, <1>2, <1>3
<1>6. \A a, b, c \in Nat : a <= b => a * c <= b * c
  OBVIOUS
<1>7. \A a \in Nat : (a + 1) * size = a * size + size /\ a * size \in Nat
  OBVIOUS
<1>8. q + 1 - 1 = q
  BY <1>4
<1> HIDE DEF q, r, last
<1>9. q + 1 <= last
  <2>1. (q + 1) * size = below + size /\ below \in Nat
    BY <1>4, <1>7
  <2>2. (q + 1) * size < (last + 1) * size
    <3> HIDE DEF below
    <3> QED
      BY <1>4, <1>5, <2>1
  <2>3. last + 1 <= q + 1 => (last + 1) * size <= (q + 1) * size
    BY <1>4, <1>5, <1>6
  <2>4. (q + 1) * size \in Nat /\ (last + 1) * size \in Nat
    BY <1>4, <1>5, <1>7
  <2>5. ~(last + 1 <= q + 1)
    BY <2>2, <2>3, <2>4
  <2> QED
    BY <1>4, <1>5, <2>5
<1>10. r \in 0..Min({size, n - below}) - 1
  <2>1. below \in Nat
    BY <1>4, <1>7
  <2> HIDE DEF below
  <2>2. Min({size, n - below}) = IF size <= n - below THEN size ELSE n - below
    BY <2>1, LeastOfTwo
  <2> QED
    BY <1>4, <2>1, <2>2
<1>11. q + 1 \in 1..last
  BY <1>4, <1>5, <1>9
<1>12. below + r + 1 = k
  <2>1. below \in Nat
    BY <1>4, <1>7
  <2> HIDE DEF below
  <2> QED
    BY <1>4, <2>1
<1>13. q + 1 \in Nat \ {0}
  BY <1>4
<1>14. Calls(n, size) = 1..last
  BY DEF Calls, last
<1> DEFINE call == q + 1
<1>15. (call - 1) * size = below
  <2>1. call - 1 = q
    <3>1. q \in Nat
      BY <1>4
    <3> QED
      BY <3>1
  <2> HIDE DEF call
  <2> QED
    BY <2>1, Zenon
<1>16. /\ call \in Nat \ {0} /\ call \in Calls(n, size)
       /\ r \in 0..Min({size, n - below}) - 1
       /\ below + r + 1 = k
  BY <1>10, <1>11, <1>12, <1>13, <1>14
<1> HIDE DEF below, call
<1>17. AskedIn(k, n, size, call, r)
  BY <1>15, <1>16 DEF AskedIn
<1> QED
  BY <1>17 DEF call, q, r

\* A complete list of checks has one of each candidate.
LEMMA CompleteSays ==
  ASSUME NEW C, NEW checks \in Seq(C), NEW count \in Nat, Complete(checks, count) # <<>>
  PROVE  /\ DOMAIN Complete(checks, count) = 1..count
         /\ Complete(checks, count) = [n \in 1..count |-> Complete(checks, count)[n]]
         /\ \A n \in 1..count : \E d \in Range(checks) :
              d.candidate = n /\ Complete(checks, count)[n] = d.assessment
<1> DEFINE of(n) == {i \in DOMAIN checks : checks[i].candidate = n}
<1>1. /\ \A n \in 1..count : of(n) # {}
      /\ Complete(checks, count) = [n \in 1..count |-> checks[Min(of(n))].assessment]
  BY Zenon DEF Complete
<1>2. ASSUME NEW n \in 1..count
      PROVE  \E d \in Range(checks) : d.candidate = n /\ Complete(checks, count)[n] = d.assessment
  <2>1. of(n) \in SUBSET (1..Len(checks)) /\ Len(checks) \in Nat /\ of(n) # {}
    BY <1>1
  <2>2. Min(of(n)) \in of(n)
    <3> HIDE DEF of
    <3> QED
      BY <2>1, LeastPosition
  <2>3. checks[Min(of(n))] \in Range(checks) /\ checks[Min(of(n))].candidate = n
    BY <2>2 DEF Range
  <2>4. Complete(checks, count)[n] = checks[Min(of(n))].assessment
    BY <1>1
  <2> HIDE DEF of
  <2> QED
    BY <2>3, <2>4
<1>3. /\ DOMAIN Complete(checks, count) = 1..count
      /\ Complete(checks, count) = [n \in 1..count |-> Complete(checks, count)[n]]
  <2> HIDE DEF of
  <2> QED
    BY <1>1
<1> QED
  BY <1>2, <1>3

\* The lines the assessor is asked about.
ToAsk == {i \in DOMAIN matched : matched[i].candidates # <<>> /\ ~Settled(i)}

LEMMA ToAssessSays ==
  ASSUME Enumerated(matched)
  PROVE  /\ ToAssess \in Seq(Int)
         /\ \A i \in ToAsk : \E k \in DOMAIN ToAssess : ToAssess[k] = i
<1>1. IsFiniteSet(ToAsk) /\ ToAsk \subseteq Int
  <2>1. PICK n \in Nat : DOMAIN matched = 1..n
    BY DEF Enumerated
  <2>2. IsFiniteSet(1..n) /\ 1..n \subseteq Int
    BY FS_Interval
  <2>3. ToAsk \in SUBSET (1..n)
    BY <2>1 DEF ToAsk
  <2>4. IsFiniteSet(ToAsk)
    BY <2>2, <2>3, FS_Subset
  <2> QED
    BY <2>2, <2>3, <2>4
<1>2. ToAssess = InOrder(ToAsk)
  BY DEF ToAssess, ToAsk
<1>3. /\ Cardinality(ToAsk) \in Nat
      /\ ToAssess \in [1..Cardinality(ToAsk) -> ToAsk]
      /\ \A x \in ToAsk : \E k \in 1..Cardinality(ToAsk) : ToAssess[k] = x
  BY <1>1, <1>2, InOrderSays
<1>4. ToAssess \in Seq(ToAsk)
  BY <1>3
<1>5. ToAssess \in Seq(Int)
  <2>1. ToAssess \in [1..Cardinality(ToAsk) -> Int]
    BY <1>1, <1>3
  <2> QED
    BY <1>3, <2>1
<1> QED
  BY <1>3, <1>5

\* What entries of an answer observe of what the call was shown.
Noted(call, reply) ==
  \A e \in Range(reply) : Observed(Batched(ToAssess, call, Assessed), e) \subseteq observed

Assessing ==
  stage = "assessing" =>
    \A call \in DOMAIN answers : answers[call] \in Checks /\ Noted(call, answers[call])

\* What was observed of a product for a line.
Seen(i, scored) == {o[3] : o \in {p \in observed : p[1] = i /\ p[2] = scored.product.text}}

\* A candidate's score, the assessments of its line being these.
ScoredBy(i, scored, assessments) ==
  \/ scored.confidence = NoScore
  \/ SameWords(i, scored) /\ scored.confidence = 100
  \/ \E a \in Seen(i, scored) : a \in Range(assessments) /\ scored.confidence = Score(a, assessments)

Scored ==
  stage = "matched" =>
    \A i \in DOMAIN matched : \E assessments \in Seq(Assessable) :
      \A scored \in Range(matched[i].candidates) : ScoredBy(i, scored, assessments)

ScoringInv == MatchingInv /\ Shortlists /\ Assessing /\ Scored

\* The assessments of a line are what was observed of its products, one for each.
LEMMA AssessmentsAreObserved ==
  ASSUME Shortlists, Assessing, stage = "assessing",
         DOMAIN answers = Calls(Len(ToAssess), Assessed),
         NEW i \in ToAsk, AssessmentsOf(i) # <<>>
  PROVE  /\ AssessmentsOf(i) \in Seq(Assessable)
         /\ DOMAIN AssessmentsOf(i) = DOMAIN matched[i].candidates
         /\ \A c \in DOMAIN matched[i].candidates :
              <<i, matched[i].candidates[c].product.text, AssessmentsOf(i)[c]>> \in observed
<1> DEFINE wanted == ToAssess
           k == CHOOSE k \in DOMAIN wanted : wanted[k] = i
           call == (k - 1) \div Assessed + 1
           index == (k - 1) % Assessed
           count == Len(matched[i].candidates)
           about == {j \in DOMAIN answers[call] :
                       /\ answers[call][j].index = index
                       /\ Complete(answers[call][j].checks, count) # <<>>}
           e == answers[call][Min(about)]
           list == Complete(e.checks, count)
           shown == Batched(wanted, call, Assessed)
<1>1. wanted \in Seq(Int) /\ k \in DOMAIN wanted /\ wanted[k] = i
  BY ToAssessSays DEF Shortlists
<1>2. Assessed \in Nat \ {0} /\ Len(wanted) \in Nat /\ k \in 1..Len(wanted)
  BY <1>1, BatchesArePositive
<1>3. /\ call \in Nat \ {0} /\ call \in Calls(Len(wanted), Assessed)
      /\ index \in 0..Min({Assessed, Len(wanted) - (call - 1) * Assessed}) - 1
      /\ (call - 1) * Assessed + index + 1 = k
  <2>1. AskedIn(k, Len(wanted), Assessed, call, index)
    <3> HIDE DEF wanted, k
    <3> QED
      BY <1>2, CallOf
  <2> HIDE DEF wanted, k, call, index
  <2> QED
    BY <2>1 DEF AskedIn
<1>4. about # {} /\ AssessmentsOf(i) = list
  <2>1. AssessmentsOf(i) = IF about = {} THEN <<>> ELSE list
    BY Zenon DEF AssessmentsOf
  <2> QED
    BY <2>1
<1> HIDE DEF k
<1>5. /\ index + 1 \in DOMAIN shown
      /\ shown[index + 1] = i
  <2>1. /\ index + 1 \in DOMAIN shown
        /\ shown[index + 1] = wanted[(call - 1) * Assessed + index + 1]
    <3>1. call \in Nat \ {0} /\ index \in 0..Min({Assessed, Len(wanted) - (call - 1) * Assessed}) - 1
      BY <1>3
    <3>2. wanted \in Seq(Int) /\ Assessed \in Nat \ {0}
      BY <1>1, <1>2
    <3> HIDE DEF index, call, wanted
    <3> QED
      BY <3>1, <3>2, WithinTheBatch
  <2> QED
    BY <1>1, <1>3, <2>1
<1> HIDE DEF index, call, wanted, shown
<1>6. answers[call] \in Checks /\ Noted(call, answers[call])
  BY <1>3 DEF Assessing, wanted
<1>7. Min(about) \in about
  <2>1. Len(answers[call]) \in Nat /\ about \in SUBSET (1..Len(answers[call]))
    BY <1>6, AssessableSays
  <2> HIDE DEF about
  <2> QED
    BY <1>4, <2>1, LeastPosition
<1>8. /\ e \in Range(answers[call])
      /\ e.index = index
      /\ list # <<>>
  BY <1>7 DEF Range
<1> HIDE DEF about, e
<1>9. /\ e.checks \in Seq(Range(e.checks))
      /\ \A d \in Range(e.checks) : d.assessment \in Assessable
  BY <1>6, <1>8, AssessableSays
<1>10. PICK n \in Nat : DOMAIN matched[i].candidates = 1..n
  BY DEF Shortlists, Enumerated, ToAsk
<1>11. count = n
  BY <1>10, LengthOf
<1>12. /\ DOMAIN list = 1..n
       /\ list = [c \in 1..n |-> list[c]]
       /\ \A c \in 1..n : \E d \in Range(e.checks) :
            d.candidate = c /\ list[c] = d.assessment
  <2> DEFINE s == e.checks
  <2>1. Complete(s, n) # <<>> /\ s \in Seq(Range(s)) /\ n \in Nat
    BY <1>8, <1>9, <1>11
  <2>2. list = Complete(s, n)
    BY <1>11
  <2> HIDE DEF s, list, count
  <2>3. /\ DOMAIN Complete(s, n) = 1..n
        /\ Complete(s, n) = [c \in 1..n |-> Complete(s, n)[c]]
        /\ \A c \in 1..n : \E d \in Range(s) :
             d.candidate = c /\ Complete(s, n)[c] = d.assessment
    BY <2>1, CompleteSays
  <2> QED
    BY <2>2, <2>3 DEF s
<1> HIDE DEF list, count
<1>13. list \in Seq(Assessable)
  <2>1. \A c \in 1..n : list[c] \in Assessable
    BY <1>9, <1>12
  <2>2. list = [c \in 1..n |-> list[c]]
    BY <1>12
  <2>3. list \in [1..n -> Assessable]
    BY <2>1, <2>2
  <2> QED
    BY <2>3
<1>14. ASSUME NEW c \in 1..n
       PROVE  <<i, matched[i].candidates[c].product.text, list[c]>> \in observed
  <2>1. PICK d \in Range(e.checks) : d.candidate = c /\ list[c] = d.assessment
    BY <1>12
  <2>2. <<i, matched[i].candidates[c].product.text, list[c]>> \in Observed(shown, e)
    BY <1>5, <1>8, <1>10, <2>1 DEF Observed
  <2>3. Observed(shown, e) \subseteq observed
    BY <1>6, <1>8 DEF Noted, shown, wanted
  <2> QED
    BY <2>2, <2>3
<1> QED
  BY <1>4, <1>10, <1>12, <1>13, <1>14

LEMMA AssessableAreFinite ==
  ASSUME NEW assessments \in Seq(Assessable)
  PROVE  Finite(assessments)
<1>1. DOMAIN assessments = 1..Len(assessments) /\ Len(assessments) \in Nat
  OBVIOUS
<1>2. IsFiniteSet(DOMAIN assessments)
  BY <1>1, FS_Interval
<1>3. IsFiniteSet({assessments[k] : k \in DOMAIN assessments})
  BY <1>2, FinitelyMany
<1>4. Range(assessments) = {assessments[k] : k \in DOMAIN assessments}
  BY DEF Range
<1>5. Range(assessments) \subseteq Assessable
  BY <1>1 DEF Range
<1> QED
  BY <1>3, <1>4, <1>5, AssessableSays DEF Finite

\* What a candidate scored is a number, if it scored.
LEMMA ScoredIsANumber ==
  ASSUME NEW i, NEW scored, NEW assessments \in Seq(Assessable), ScoredBy(i, scored, assessments)
  PROVE  scored.confidence \in Int \/ scored.confidence = NoScore
<1>1. ASSUME NEW a \in Range(assessments) PROVE Score(a, assessments) \in Int
  <2>1. Finite(assessments) /\ IsFiniteSet(a.sees)
    BY <1>1, AssessableAreFinite DEF Finite
  <2> DEFINE score == Score(a, assessments)
  <2>2. score \in 50..100 \/ score = 0
    BY <2>1, ScoreSays
  <2> HIDE DEF score
  <2>3. 0 \in Int /\ \A n \in 50..100 : n \in Int
    OBVIOUS
  <2>4. score \in Int
    BY <2>2, <2>3
  <2> QED
    BY <2>4 DEF score
<1> QED
  BY <1>1 DEF ScoredBy

\* The candidates of one line, scored.
LEMMA ScoresSay ==
  ASSUME Shortlists, Assessing, stage = "assessing",
         DOMAIN answers = Calls(Len(ToAssess), Assessed), NEW i \in DOMAIN matched
  PROVE  /\ Enumerated(Scores(i))
         /\ \A c \in DOMAIN Scores(i) : DOMAIN Scores(i)[c] = {"product", "confidence"}
         /\ \E assessments \in Seq(Assessable) : \A c \in DOMAIN Scores(i) :
              ScoredBy(i, Scores(i)[c], assessments)
<1> DEFINE candidates == matched[i].candidates
           given == AssessmentsOf(i)
           scores == Confidences(given)
           score(c) == IF Settled(i) THEN IF SameWords(i, candidates[c]) THEN 100 ELSE NoScore
                       ELSE IF given = <<>> THEN NoScore ELSE scores[c]
<1>1. /\ Enumerated(candidates)
      /\ \A c \in DOMAIN candidates : DOMAIN candidates[c] = {"product", "confidence"}
  BY DEF Shortlists
<1>2. Scores(i) = [c \in DOMAIN candidates |-> [candidates[c] EXCEPT !.confidence = score(c)]]
  BY DEF Scores
<1> HIDE DEF candidates, score
<1>3. /\ DOMAIN Scores(i) = DOMAIN candidates
      /\ \A c \in DOMAIN candidates :
           /\ DOMAIN Scores(i)[c] = {"product", "confidence"}
           /\ Scores(i)[c].confidence = score(c)
           /\ Scores(i)[c].product = candidates[c].product
  BY <1>1, <1>2
<1>4. Enumerated(Scores(i))
  BY <1>1, <1>3 DEF Enumerated
<1>5. \A c \in DOMAIN candidates : SameWords(i, Scores(i)[c]) <=> SameWords(i, candidates[c])
  BY <1>3 DEF SameWords
<1>6. CASE Settled(i) \/ given = <<>> \/ candidates = <<>>
  <2>1. <<>> \in Seq(Assessable)
    OBVIOUS
  <2>2. ASSUME NEW c \in DOMAIN Scores(i) PROVE ScoredBy(i, Scores(i)[c], <<>>)
    <3>1. c \in DOMAIN candidates /\ candidates # <<>>
      BY <1>3, <2>2
    <3>2. \/ score(c) = NoScore
          \/ SameWords(i, candidates[c]) /\ score(c) = 100
      <4> HIDE DEF given, scores
      <4> QED
        BY <1>6, <3>1 DEF score
    <3> QED
      BY <1>3, <1>5, <3>1, <3>2 DEF ScoredBy
  <2> QED
    BY <1>3, <1>4, <2>1, <2>2
<1>7. CASE ~Settled(i) /\ given # <<>> /\ candidates # <<>>
  <2>1. i \in ToAsk
    BY <1>7 DEF ToAsk, candidates
  <2>2. /\ given \in Seq(Assessable)
        /\ DOMAIN given = DOMAIN candidates
        /\ \A c \in DOMAIN candidates : <<i, candidates[c].product.text, given[c]>> \in observed
    BY <1>7, <2>1, AssessmentsAreObserved DEF candidates
  <2>3. ASSUME NEW c \in DOMAIN Scores(i) PROVE ScoredBy(i, Scores(i)[c], given)
    <3>1. c \in DOMAIN candidates
      BY <1>3, <2>3
    <3>2. score(c) = Score(given[c], given)
      <4>1. scores[c] = Score(given[c], given)
        BY <2>2, <3>1 DEF Confidences
      <4> HIDE DEF given, scores
      <4> QED
        BY <1>7, <4>1 DEF score
    <3> HIDE DEF given, scores
    <3>3. given[c] \in Range(given)
      BY <2>2, <3>1 DEF Range
    <3>4. given[c] \in Seen(i, Scores(i)[c])
      <4> DEFINE o == <<i, candidates[c].product.text, given[c]>>
      <4>1. o \in observed /\ o[1] = i /\ o[2] = Scores(i)[c].product.text /\ o[3] = given[c]
        BY <1>3, <2>2, <3>1
      <4> HIDE DEF o
      <4> QED
        BY <4>1 DEF Seen
    <3> QED
      BY <1>3, <3>1, <3>2, <3>3, <3>4 DEF ScoredBy
  <2> QED
    BY <1>3, <1>4, <2>2, <2>3
<1> QED
  BY <1>6, <1>7

LEMMA ScoringStarts == MatchingInit => ScoringInv
<1> SUFFICES ASSUME MatchingInit PROVE ScoringInv
  OBVIOUS
<1>1. matched = <<>> /\ stage = "judging"
  BY DEF MatchingInit
<1>2. Shortlists
  <2>1. DOMAIN <<>> = 1..0
    OBVIOUS
  <2> QED
    BY <1>1, <2>1 DEF Shortlists, Enumerated
<1> QED
  BY <1>1, <1>2, MatchingStarts DEF ScoringInv, Assessing, Scored

\* An answer of the assessor.
LEMMA AssessKept == ScoringInv /\ Assess => Shortlists' /\ Assessing' /\ Scored'
<1> SUFFICES ASSUME ScoringInv, Assess PROVE Shortlists' /\ Assessing' /\ Scored'
  OBVIOUS
<1>1. stage = "assessing" /\ UNCHANGED <<lines, stage, matched>>
  BY DEF Assess
<1>2. PICK call \in Calls(Len(ToAssess), Assessed) \ DOMAIN answers : \E reply \in Checks :
        /\ Put(call, reply)
        /\ observed' = observed \cup
             UNION {Observed(Batched(ToAssess, call, Assessed), e) : e \in Range(reply)}
  BY DEF Assess
<1>3. PICK reply \in Checks :
        /\ Put(call, reply)
        /\ observed' = observed \cup
             UNION {Observed(Batched(ToAssess, call, Assessed), e) : e \in Range(reply)}
  BY <1>2
<1>4. ToAssess' = ToAssess
  BY <1>1 DEF ToAssess, Settled, SameWords, InOrder, Ranked
<1>5. /\ DOMAIN answers' = DOMAIN answers \cup {call}
      /\ answers'[call] = reply
      /\ \A c \in DOMAIN answers \ {call} : answers'[c] = answers[c]
  BY <1>3 DEF Put
<1>6. Shortlists'
  BY <1>1 DEF ScoringInv, Shortlists, Enumerated
<1>7. ASSUME NEW c \in DOMAIN answers'
      PROVE  answers'[c] \in Checks /\ Noted(c, answers[c])'
  <2> DEFINE shown == Batched(ToAssess, c, Assessed)
  <2>1. \A e : Observed(shown, e)' = Observed(shown, e)
    BY <1>1, <1>4 DEF Observed, Batched
  <2>2. Noted(c, answers[c])' <=> \A e \in Range(answers'[c]) : Observed(shown, e) \subseteq observed'
    <3> HIDE DEF shown
    <3> QED
      BY <2>1, <1>4 DEF Noted, shown
  <2>3. CASE c = call
    <3>1. \A e \in Range(reply) : Observed(shown, e) \subseteq observed'
      BY <1>3, <2>3
    <3> HIDE DEF shown
    <3> QED
      BY <1>5, <2>2, <2>3, <3>1
  <2>4. CASE c # call
    <3>1. answers'[c] = answers[c] /\ c \in DOMAIN answers
      BY <1>5, <2>4
    <3>2. answers[c] \in Checks /\ Noted(c, answers[c])
      BY <1>1, <3>1 DEF ScoringInv, Assessing
    <3>3. observed \subseteq observed'
      BY <1>3
    <3>4. \A e \in Range(answers[c]) : Observed(shown, e) \subseteq observed
      BY <3>2 DEF Noted
    <3> HIDE DEF shown
    <3> QED
      BY <2>2, <3>1, <3>2, <3>3, <3>4
  <2> QED
    BY <2>3, <2>4
<1>8. Assessing' /\ Scored'
  BY <1>1, <1>7 DEF Assessing, Scored
<1> QED
  BY <1>6, <1>8

\* The lines scored.
LEMMA ScoreLinesKept == ScoringInv /\ ScoreLines => Shortlists' /\ Assessing' /\ Scored'
<1> SUFFICES ASSUME ScoringInv, ScoreLines PROVE Shortlists' /\ Assessing' /\ Scored'
  OBVIOUS
<1>1. /\ stage = "assessing" /\ stage' = "matched" /\ UNCHANGED <<lines, observed>>
      /\ DOMAIN answers = Calls(Len(ToAssess), Assessed)
      /\ matched' = [i \in DOMAIN matched |->
                       [matched[i] EXCEPT !.candidates = ByScore(Scores(i))]]
  BY DEF ScoreLines
<1>2. Shortlists /\ Assessing
  BY DEF ScoringInv
<1>3. Enumerated(matched) /\ DOMAIN matched' = DOMAIN matched
  BY <1>1, <1>2 DEF Shortlists
<1>4. ASSUME NEW i \in DOMAIN matched
      PROVE  /\ matched'[i].candidates = ByScore(Scores(i))
             /\ Enumerated(ByScore(Scores(i)))
             /\ \A k \in DOMAIN ByScore(Scores(i)) : \E c \in DOMAIN Scores(i) :
                  ByScore(Scores(i))[k] = Scores(i)[c]
  <2>1. matched'[i].candidates = ByScore(Scores(i))
    <3>1. DOMAIN matched[i] = {"how", "candidates"}
      BY DEF ScoringInv, MatchingInv, MatchedOnes
    <3> QED
      BY <1>1, <3>1
  <2>2. PICK n \in Nat : DOMAIN Scores(i) = 1..n
    BY <1>1, <1>2, ScoresSay DEF Enumerated
  <2>3. PICK assessments \in Seq(Assessable) :
          \A c \in DOMAIN Scores(i) : ScoredBy(i, Scores(i)[c], assessments)
    BY <1>1, <1>2, ScoresSay
  <2>4. \A c \in 1..n : Scores(i)[c].confidence \in Int \/ Scores(i)[c].confidence = NoScore
    BY <2>2, <2>3, ScoredIsANumber
  <2>5. /\ DOMAIN ByScore(Scores(i)) = 1..n
        /\ \A k \in 1..n : \E c \in 1..n : ByScore(Scores(i))[k] = Scores(i)[c]
    BY <2>2, <2>4, ByScoreSays
  <2> QED
    BY <2>1, <2>2, <2>5 DEF Enumerated
<1>5. Shortlists'
  <2>1. ASSUME NEW i \in DOMAIN matched, NEW k \in DOMAIN ByScore(Scores(i))
        PROVE  DOMAIN ByScore(Scores(i))[k] = {"product", "confidence"}
    BY <1>1, <1>2, <1>4, ScoresSay
  <2> QED
    BY <1>3, <1>4, <2>1 DEF Shortlists, Enumerated
<1>6. ASSUME NEW i \in DOMAIN matched
      PROVE  \E assessments \in Seq(Assessable) :
               \A scored \in Range(matched'[i].candidates) : ScoredBy(i, scored, assessments)'
  <2>1. PICK assessments \in Seq(Assessable) :
          \A c \in DOMAIN Scores(i) : ScoredBy(i, Scores(i)[c], assessments)
    BY <1>1, <1>2, ScoresSay
  <2>2. ASSUME NEW scored \in Range(ByScore(Scores(i))) PROVE ScoredBy(i, scored, assessments)
    BY <1>4, <2>1, <2>2 DEF Range
  <2>3. \A scored : ScoredBy(i, scored, assessments)' <=> ScoredBy(i, scored, assessments)
    BY <1>1 DEF ScoredBy, SameWords, Seen
  <2> QED
    BY <1>4, <2>2, <2>3
<1>7. Assessing' /\ Scored'
  <2>1. Assessing'
    BY <1>1 DEF Assessing
  <2> QED
    BY <1>1, <1>3, <1>6, <2>1 DEF Scored
<1> QED
  BY <1>5, <1>7

LEMMA ScoringKept == ScoringInv /\ [Match]_matching => ScoringInv'
<1> SUFFICES ASSUME ScoringInv, [Match]_matching PROVE ScoringInv'
  OBVIOUS
<1>1. MatchingInv'
  BY MatchingKept DEF ScoringInv
<1>2. CASE Judge
  <2>1. stage = "judging" /\ UNCHANGED <<stage, matched>>
    BY <1>2 DEF Judge
  <2> QED
    BY <1>1, <2>1 DEF ScoringInv, Shortlists, Enumerated, Assessing, Scored
<1>3. CASE Choose
  <2>1. stage' = "assessing" /\ answers' = <<>>
    BY <1>3 DEF Choose
  <2>2. Shortlists'
    BY <1>3, ShortlistsChosen DEF ScoringInv
  <2> QED
    BY <1>1, <2>1, <2>2 DEF ScoringInv, Assessing, Scored
<1>4. CASE Assess
  BY <1>1, <1>4, AssessKept DEF ScoringInv
<1>5. CASE ScoreLines
  BY <1>1, <1>5, ScoreLinesKept DEF ScoringInv
<1>6. CASE UNCHANGED matching
  <2>1. UNCHANGED <<lines, stage, answers, matched, observed>>
    BY <1>6 DEF matching
  <2>2. ToAssess' = ToAssess
    BY <2>1 DEF ToAssess, Settled, SameWords, InOrder, Ranked
  <2>3. Shortlists'
    BY <2>1 DEF ScoringInv, Shortlists, Enumerated
  <2>4. Assessing'
    <3>1. ASSUME NEW call \in DOMAIN answers
          PROVE  Noted(call, answers[call])' <=> Noted(call, answers[call])
      <4> DEFINE shown == Batched(ToAssess, call, Assessed)
      <4>1. \A e : Observed(shown, e)' = Observed(shown, e)
        BY <2>1, <2>2 DEF Observed, Batched
      <4> HIDE DEF shown
      <4> QED
        BY <2>1, <2>2, <4>1 DEF Noted, shown
    <3> QED
      BY <2>1, <3>1 DEF ScoringInv, Assessing
  <2>5. Scored'
    BY <2>1 DEF ScoringInv, Scored, ScoredBy, SameWords, Seen
  <2> QED
    BY <1>1, <2>3, <2>4, <2>5 DEF ScoringInv
<1> QED
  BY <1>2, <1>3, <1>4, <1>5, <1>6 DEF Match

\* "A number nobody worked out" is never shown: whatever the sheet, the lines and
\* the answers of the two models, in whatever order they come, a candidate scores
\* what the assessor observed of that product for that line, and one that
\* contradicts the line scores nothing.
THEOREM ScoresAreOwn == MatchingSpec => []ScoresAreTheirOwn
<1>1. ASSUME ScoringInv PROVE ScoresAreTheirOwn
  <2> SUFFICES ASSUME stage = "matched", NEW i \in DOMAIN matched,
                      NEW scored \in Range(matched[i].candidates)
               PROVE  \/ scored.confidence = NoScore
                      \/ SameWords(i, scored) /\ scored.confidence = 100
                      \/ \E a \in Seen(i, scored) :
                           IF Viable(a) THEN scored.confidence \in 50..100
                           ELSE scored.confidence = 0
    BY DEF ScoresAreTheirOwn, Seen
  <2>1. PICK assessments \in Seq(Assessable) : ScoredBy(i, scored, assessments)
    BY <1>1 DEF ScoringInv, Scored
  <2>2. ASSUME NEW a \in Range(assessments)
        PROVE  IF Viable(a) THEN Score(a, assessments) \in 50..100 ELSE Score(a, assessments) = 0
    BY <2>2, AssessableAreFinite, ScoreSays DEF Finite
  <2> QED
    BY <2>1, <2>2 DEF ScoredBy
<1> QED
  BY ScoringStarts, ScoringKept, <1>1, PTL DEF MatchingSpec

\* What the properties of an assessment weigh stays below what the rounding of a
\* score can hide.
FewProperties == \A a \in Assessable : TotalWeight(a) < 50

\* A candidate at 100 that is not the line's own words was observed to fit.
LEMMA WholeScores ==
  ASSUME ScoringInv, stage = "matched", NEW i \in DOMAIN matched
  PROVE  \E assessments \in Seq(Assessable) :
           \A scored \in Range(matched[i].candidates) : \A a \in Seen(i, scored) :
             (Seen(i, scored) = {a} /\ scored.confidence = 100 /\ ~SameWords(i, scored))
               => a \in Running(assessments) /\ Score(a, assessments) = 100
<1>1. PICK assessments \in Seq(Assessable) :
        \A scored \in Range(matched[i].candidates) : ScoredBy(i, scored, assessments)
  BY DEF ScoringInv, Scored
<1>2. ASSUME NEW scored \in Range(matched[i].candidates), NEW a \in Seen(i, scored),
             Seen(i, scored) = {a}, scored.confidence = 100, ~SameWords(i, scored)
      PROVE  a \in Running(assessments) /\ Score(a, assessments) = 100
  <2>1. scored.confidence # NoScore
    BY <1>2, NoScoreIsNoNumber
  <2>2. PICK x \in Seen(i, scored) : x \in Range(assessments) /\ Score(x, assessments) = 100
    BY <1>1, <1>2, <2>1 DEF ScoredBy
  <2>3. a \in Range(assessments) /\ Score(a, assessments) = 100
    BY <1>2, <2>2
  <2>4. ASSUME ~Viable(a) PROVE Score(a, assessments) = 0
    BY <2>3, <2>4, AssessableAreFinite, ScoreSays DEF Finite
  <2>5. Viable(a)
    BY <2>3, <2>4
  <2> QED
    BY <2>3, <2>5 DEF Running
<1> QED
  BY <1>2

\* One that left open what another in the running has another value for does not
\* stand at 100.
LEMMA TwoLeaveItOpen ==
  ASSUME FewProperties, NEW assessments \in Seq(Assessable),
         NEW a \in Running(assessments), NEW b \in Running(assessments),
         NEW p \in Attributes(a), NEW q \in Attributes(b),
         Agreement(p) = "unstated", Agreement(q) = "unstated",
         p.name = q.name, p.item # q.item
  PROVE  Score(a, assessments) # 100
<1> DEFINE name == p.name
           x == p.item
           y == q.item
<1>1. Finite(assessments)
  BY AssessableAreFinite
<1>2. x \in NotSaidBy(a, name) /\ y \in NotSaidBy(b, name)
  BY DEF NotSaidBy
<1>3. x \in Offers(assessments, name) /\ y \in Offers(assessments, name)
  <2> HIDE DEF x, y, name
  <2> QED
    BY <1>2 DEF Offers
<1>4. Variants(assessments, p.name) >= 2
  BY <1>1, <1>3, VariantsSay
<1>5. a \in Assessable
  <2>1. Range(assessments) \subseteq Assessable
    BY DEF Range
  <2> QED
    BY <2>1 DEF Running
<1>6. IsFiniteSet(a.sees) /\ TotalWeight(a) < 50
  BY <1>5, AssessableSays DEF FewProperties
<1> QED
  BY <1>1, <1>4, <1>6, OpenIsNotWhole

\* "One line may not have two products that are each the only one that fits": of two
\* products that differ in a property the line leaves open neither stands at 100.
\* With seventeen decisive properties the missing share would be rounded away, which
\* is what FewProperties excludes and the code does not.
THEOREM ChoicesAreOpen ==
  ASSUME FewProperties
  PROVE  MatchingSpec => []ChoicesStayOpen
<1>1. ASSUME ScoringInv PROVE ChoicesStayOpen
  <2> SUFFICES ASSUME stage = "matched", NEW i \in DOMAIN matched,
                      NEW c \in Range(matched[i].candidates),
                      NEW d \in Range(matched[i].candidates),
                      NEW a \in Seen(i, c), NEW b \in Seen(i, d),
                      /\ Seen(i, c) = {a} /\ Seen(i, d) = {b}
                      /\ c.confidence = 100 /\ d.confidence = 100
                      /\ ~SameWords(i, c) /\ ~SameWords(i, d),
                      NEW p \in Attributes(a), NEW q \in Attributes(b),
                      p.name = q.name /\ p.line = "" /\ q.line = ""
               PROVE  p.item = q.item
    BY DEF ChoicesStayOpen, Seen
  <2>1. PICK assessments \in Seq(Assessable) :
          \A scored \in Range(matched[i].candidates) : \A x \in Seen(i, scored) :
            (Seen(i, scored) = {x} /\ scored.confidence = 100 /\ ~SameWords(i, scored))
              => x \in Running(assessments) /\ Score(x, assessments) = 100
    BY <1>1, WholeScores
  <2>2. /\ a \in Running(assessments) /\ Score(a, assessments) = 100
        /\ b \in Running(assessments)
    BY <2>1
  <2>3. Agreement(p) = "unstated" /\ Agreement(q) = "unstated"
    BY DEF Attributes, Agreement
  <2> QED
    BY <2>2, <2>3, TwoLeaveItOpen
<1> QED
  BY ScoringStarts, ScoringKept, <1>1, PTL DEF MatchingSpec

-----------------------------------------------------------------------------
(* The header, field by field.  What is kept of the first k fields of an    *)
(* answer is shown by induction on k, along the fold that _accept is; what  *)
(* holds of the form follows for every answer a model can give.             *)

\* A found field that is a value for a cell, said to come from somewhere.
Stands(found) ==
  /\ found.field \notin Derived
  /\ found.value.is # "placeholder"
  /\ found.source # "none"

\* What stands at i is the first of its field that does.
FirstOf(q, i) ==
  /\ i \in DOMAIN q
  /\ Stands(q[i])
  /\ \A j \in 1..(i - 1) : Stands(q[j]) => q[j].field # q[i].field

\* The reasons a field is refused for; none at all is "".
Whys == {"", "not for a model to fill", "claimed twice", "placeholder", "no source"}

\* What is kept of the first k fields of an answer.
KeptOf(q, k, kept) ==
  /\ DOMAIN kept = {"fields", "refused", "warnings"}
  /\ kept.refused \in Seq([found : Range(q), why : Whys])
  /\ \A f \in DOMAIN kept.fields :
       \E i \in 1..k : /\ FirstOf(q, i) /\ q[i].field = f
                       /\ kept.fields[f] = [value |-> q[i].value, source |-> q[i].source]
  /\ \A i \in 1..k : Stands(q[i]) => q[i].field \in DOMAIN kept.fields
  /\ \A i \in 1..k : ~Stands(q[i]) =>
       \E j \in DOMAIN kept.refused : kept.refused[j].found = q[i] /\ kept.refused[j].why # ""

LEMMA ProblemSays ==
  ASSUME NEW found, NEW taken
  PROVE  /\ Problem(found, taken) \in Whys
         /\ Problem(found, taken) = "" <=> Stands(found) /\ found.field \notin DOMAIN taken
<1>1. Problem(found, taken) \in Whys
  BY DEF Problem, Whys
<1>2. Problem(found, taken) = "" <=>
        found.field \notin Derived /\ found.field \notin DOMAIN taken
          /\ found.value.is # "placeholder" /\ found.source # "none"
  BY DEF Problem, Whys
<1> QED
  BY <1>1, <1>2 DEF Stands

\* One field more.
LEMMA TookSays ==
  ASSUME NEW q, NEW k \in Nat, k + 1 \in DOMAIN q, NEW kept, KeptOf(q, k, kept)
  PROVE  KeptOf(q, k + 1, Took(kept, q[k + 1]))
<1> DEFINE found == q[k + 1]
           problem == Problem(found, kept.fields)
           took == Took(kept, found)
           n == k + 1
<1>0. n \in Nat /\ 1..n = 1..k \cup {n} /\ n \notin 1..k /\ 1..(n - 1) = 1..k
  OBVIOUS
<1>1. found \in Range(q) /\ n \in DOMAIN q
  BY DEF Range
<1>2. CASE problem # ""
  <2> DEFINE told == [found |-> found, why |-> problem]
  <2>1. told \in [found : Range(q), why : Whys]
    <3>1. problem \in Whys
      BY ProblemSays
    <3> HIDE DEF found, problem
    <3> QED
      BY <1>1, <3>1
  <2>2. /\ DOMAIN took = {"fields", "refused", "warnings"}
        /\ took.fields = kept.fields
        /\ took.refused = Append(kept.refused, told)
    <3>1. took = [kept EXCEPT !.refused = Append(@, told), !.warnings = @ \cup {problem}]
      BY <1>2 DEF Took
    <3> HIDE DEF took, told, problem
    <3> QED
      BY <3>1 DEF KeptOf
  <2> DEFINE S == [found : Range(q), why : Whys]
  <2>3. /\ took.refused \in Seq(S)
        /\ Len(took.refused) = Len(kept.refused) + 1
        /\ took.refused[Len(took.refused)] = told
        /\ \A j \in DOMAIN kept.refused : j \in DOMAIN took.refused /\ took.refused[j] = kept.refused[j]
        /\ Len(took.refused) \in DOMAIN took.refused
    <3>1. kept.refused \in Seq(S)
      BY DEF KeptOf
    <3> HIDE DEF S, took, told
    <3> QED
      BY <2>1, <2>2, <3>1 DEF S
  <2>4. Stands(found) => found.field \in DOMAIN kept.fields
    BY <1>2, ProblemSays
  <2>5. told.found = found /\ told.why # ""
    BY <1>2
  <2>6. ASSUME NEW i \in 1..n, ~Stands(q[i])
        PROVE  \E j \in DOMAIN took.refused :
                 took.refused[j].found = q[i] /\ took.refused[j].why # ""
    <3>1. CASE i = n
      <4> HIDE DEF took, told, S
      <4> QED
        BY <2>3, <2>5, <3>1
    <3>2. CASE i \in 1..k
      <4>1. PICK j \in DOMAIN kept.refused :
               kept.refused[j].found = q[i] /\ kept.refused[j].why # ""
        BY <2>6, <3>2 DEF KeptOf
      <4> HIDE DEF took, told, S
      <4> QED
        BY <2>3, <4>1
    <3> HIDE DEF n
    <3> QED
      BY <1>0, <3>1, <3>2
  <2>7. \A i \in 1..n : Stands(q[i]) => q[i].field \in DOMAIN took.fields
    <3> HIDE DEF n, took
    <3> QED
      BY <1>0, <2>2, <2>4 DEF KeptOf, n
  <2>8. \A f \in DOMAIN took.fields :
          \E i \in 1..n : /\ FirstOf(q, i) /\ q[i].field = f
                          /\ took.fields[f] = [value |-> q[i].value, source |-> q[i].source]
    <3>1. ASSUME NEW f \in DOMAIN kept.fields
          PROVE  \E i \in 1..n : /\ FirstOf(q, i) /\ q[i].field = f
                                 /\ kept.fields[f] = [value |-> q[i].value, source |-> q[i].source]
      <4>1. PICK i \in 1..k : /\ FirstOf(q, i) /\ q[i].field = f
                              /\ kept.fields[f] = [value |-> q[i].value, source |-> q[i].source]
        BY DEF KeptOf
      <4>2. i \in 1..n
        OBVIOUS
      <4> QED
        BY <4>1, <4>2
    <3> HIDE DEF n, took
    <3> QED
      BY <2>2, <3>1
  <2> HIDE DEF took, n, S, told
  <2> QED
    BY <2>2, <2>3, <2>6, <2>7, <2>8 DEF KeptOf, S, n, took
<1>3. CASE problem = ""
  <2> DEFINE held == [value |-> found.value, source |-> found.source]
             fields == [f \in DOMAIN kept.fields \cup {found.field} |->
                          IF f = found.field THEN held ELSE kept.fields[f]]
  <2>1. Stands(found) /\ found.field \notin DOMAIN kept.fields
    BY <1>3, ProblemSays
  <2>2. /\ DOMAIN took = {"fields", "refused", "warnings"}
        /\ took.fields = fields
        /\ took.refused = kept.refused
    <3> DEFINE warnings == kept.warnings \cup {"unknown source" : s \in {found.source} \cap {"strange"}}
    <3>1. took = [kept EXCEPT !.fields = fields, !.warnings = warnings]
      BY <1>3 DEF Took
    <3> HIDE DEF took, fields, warnings
    <3> QED
      BY <3>1 DEF KeptOf
  <2>3. /\ DOMAIN fields = DOMAIN kept.fields \cup {found.field}
        /\ fields[found.field] = held
        /\ \A f \in DOMAIN kept.fields : fields[f] = kept.fields[f]
    <3> HIDE DEF held, found
    <3> QED
      BY <2>1
  <2>4. FirstOf(q, n)
    <3>1. \A j \in 1..k : Stands(q[j]) => q[j].field # found.field
      BY <2>1 DEF KeptOf
    <3> QED
      BY <1>0, <1>1, <2>1, <3>1 DEF FirstOf
  <2>5. \A f \in DOMAIN took.fields :
          \E i \in 1..n : /\ FirstOf(q, i) /\ q[i].field = f
                          /\ took.fields[f] = [value |-> q[i].value, source |-> q[i].source]
    <3>1. ASSUME NEW f \in DOMAIN kept.fields
          PROVE \E i \in 1..n : /\ FirstOf(q, i) /\ q[i].field = f
                          /\ fields[f] = [value |-> q[i].value, source |-> q[i].source]
      <4>1. PICK i \in 1..k : /\ FirstOf(q, i) /\ q[i].field = f
                              /\ kept.fields[f] = [value |-> q[i].value, source |-> q[i].source]
        BY DEF KeptOf
      <4>2. i \in 1..n
        OBVIOUS
      <4> HIDE DEF n, fields
      <4> QED
        BY <2>3, <4>1, <4>2
    <3>2. /\ FirstOf(q, n) /\ q[n].field = found.field
          /\ fields[found.field] = [value |-> q[n].value, source |-> q[n].source]
      BY <2>3, <2>4
    <3>3. n \in 1..n
      OBVIOUS
    <3> HIDE DEF n, took, fields, found
    <3> QED
      BY <2>2, <2>3, <3>1, <3>2, <3>3
  <2>6. \A i \in 1..n : Stands(q[i]) => q[i].field \in DOMAIN took.fields
    <3> HIDE DEF n, took, fields
    <3> QED
      BY <1>0, <2>2, <2>3 DEF KeptOf, n
  <2>7. \A i \in 1..n : ~Stands(q[i]) =>
          \E j \in DOMAIN took.refused : took.refused[j].found = q[i] /\ took.refused[j].why # ""
    <3>1. ASSUME NEW i \in 1..n, ~Stands(q[i]) PROVE i \in 1..k
      <4>1. i # n
        BY <2>1, <3>1
      <4> QED
        BY <4>1
    <3>2. \A i \in 1..k : ~Stands(q[i]) =>
            \E j \in DOMAIN kept.refused : kept.refused[j].found = q[i] /\ kept.refused[j].why # ""
      BY DEF KeptOf
    <3>3. ASSUME NEW i \in 1..n, ~Stands(q[i])
          PROVE  \E j \in DOMAIN took.refused :
                   took.refused[j].found = q[i] /\ took.refused[j].why # ""
      <4>1. PICK j \in DOMAIN kept.refused :
              kept.refused[j].found = q[i] /\ kept.refused[j].why # ""
        BY <3>1, <3>2, <3>3
      <4> HIDE DEF n, took
      <4> QED
        BY <2>2, <4>1
    <3> HIDE DEF n, took
    <3> QED
      BY <3>3
  <2>8. took.refused \in Seq([found : Range(q), why : Whys])
    <3> HIDE DEF took
    <3> QED
      BY <2>2 DEF KeptOf
  <2> HIDE DEF took, n
  <2> QED
    BY <2>2, <2>5, <2>6, <2>7, <2>8 DEF KeptOf, n, took
<1> QED
  BY <1>2, <1>3

NothingKept == [fields |-> <<>>, refused |-> <<>>, warnings |-> {}]

\* The recursion the fold over an answer's fields is defined by.
TakesBy(f, n, q) ==
  \A s \in SUBSET (1..n) :
    f[s] = IF s = {} THEN NothingKept ELSE Took(f[s \ {Max(s)}], q[Max(s)])

\* That recursion has a solution.
LEMMA TakingExists ==
  ASSUME NEW n \in Nat, NEW q
  PROVE  \E f : DOMAIN f = SUBSET (1..n) /\ f = [s \in SUBSET (1..n) |-> f[s]] /\ TakesBy(f, n, q)
<1> DEFINE Solves(f, k) == DOMAIN f = SUBSET (1..k) /\ f = [s \in SUBSET (1..k) |-> f[s]] /\ TakesBy(f, k, q)
           T == {k \in 0..n : \E f : Solves(f, k)}
<1>1. 0 \in T
  <2> DEFINE f == [s \in SUBSET (1..0) |-> NothingKept]
  <2>1. 1..0 = {} /\ 0 \in 0..n
    OBVIOUS
  <2>2. DOMAIN f = SUBSET (1..0) /\ f = [s \in SUBSET (1..0) |-> f[s]]
    OBVIOUS
  <2>3. TakesBy(f, 0, q)
    BY <2>1 DEF TakesBy
  <2>4. Solves(f, 0)
    BY <2>2, <2>3
  <2> HIDE DEF f, Solves
  <2> QED
    BY <2>1, <2>4
<1>2. ASSUME NEW k \in 0..n, k \in T, k < n PROVE k + 1 \in T
  <2>1. PICK f : Solves(f, k)
    BY <1>2
  <2> DEFINE m == k + 1
             g == [s \in SUBSET (1..m) |-> IF m \in s THEN Took(f[s \ {m}], q[m]) ELSE f[s]]
  <2>2. \A s \in SUBSET (1..m) : s \ {m} \in SUBSET (1..k) /\ (m \notin s => s \in SUBSET (1..k))
    OBVIOUS
  <2>3. DOMAIN g = SUBSET (1..m) /\ g = [s \in SUBSET (1..m) |-> g[s]]
    OBVIOUS
  <2>4. ASSUME NEW s \in SUBSET (1..m)
        PROVE  g[s] = IF s = {} THEN NothingKept ELSE Took(g[s \ {Max(s)}], q[Max(s)])
    <3>1. CASE m \in s
      <4>1. Max(s) = m
        <5>1. m \in Nat
          BY <1>2
        <5> HIDE DEF T, g, m
        <5> QED
          BY <3>1, <5>1, TopOf
      <4>2. s \ {m} \in SUBSET (1..m) /\ m \notin s \ {m}
        OBVIOUS
      <4>3. g[s \ {m}] = f[s \ {m}] /\ g[s] = Took(f[s \ {m}], q[m])
        BY <3>1, <4>2
      <4> HIDE DEF g, m
      <4> QED
        BY <3>1, <4>1, <4>3
    <3>2. CASE m \notin s
      <4>1. s \in SUBSET (1..k) /\ g[s] = f[s]
        BY <2>2, <3>2
      <4>2. f[s] = IF s = {} THEN NothingKept ELSE Took(f[s \ {Max(s)}], q[Max(s)])
        <5> HIDE DEF m, g
        <5> QED
          BY <2>1, <4>1 DEF TakesBy
      <4>3. CASE s # {}
        <5>1. Max(s) \in s
          <6>1. k \in Nat
            BY <1>2
          <6> HIDE DEF T, g, m
          <6> QED
            BY <4>1, <4>3, <6>1, Greatest
        <5>2. s \ {Max(s)} \in SUBSET (1..m) /\ m \notin s \ {Max(s)}
          BY <3>2
        <5>3. g[s \ {Max(s)}] = f[s \ {Max(s)}]
          BY <5>2
        <5> HIDE DEF g, m
        <5> QED
          BY <4>1, <4>2, <4>3, <5>3
      <4>4. CASE s = {}
        <5> HIDE DEF g, m
        <5> QED
          BY <4>1, <4>2, <4>4
      <4> QED
        BY <4>3, <4>4
    <3> QED
      BY <3>1, <3>2
  <2>5. TakesBy(g, m, q)
    <3> HIDE DEF g
    <3> QED
      BY <2>4 DEF TakesBy
  <2>6. Solves(g, m) /\ m \in 0..n
    BY <1>2, <2>3, <2>5
  <2> HIDE DEF g, Solves, m
  <2> QED
    BY <2>6 DEF m
<1>3. 0..n \subseteq T
  <2> HIDE DEF T
  <2> QED
    BY <1>1, <1>2, CountingUp
<1>4. n \in 0..n
  OBVIOUS
<1>5. n \in T
  <2> HIDE DEF T
  <2> QED
    BY <1>3, <1>4
<1> QED
  BY <1>5

\* What _accept keeps of an answer.
LEMMA AcceptedSays ==
  ASSUME NEW given \in Replies
  PROVE  \E kept : /\ KeptOf(given.fields, Len(given.fields), kept)
                   /\ Accepted(given).fields = kept.fields
                   /\ Accepted(given).refused = kept.refused
                   /\ Accepted(given).not_found = Explanations(given.not_found, kept.fields)
<1> DEFINE q == given.fields
           n == Len(q)
           Folds(f) == f = [s \in SUBSET (1..n) |->
                         IF s = {} THEN NothingKept ELSE Took(f[s \ {Max(s)}], q[Max(s)])]
           f == CHOOSE f : Folds(f)
<1>1. n \in Nat /\ DOMAIN q = 1..n
  BY RepliesAreLists
<1>2. PICK g : DOMAIN g = SUBSET (1..n) /\ g = [s \in SUBSET (1..n) |-> g[s]] /\ TakesBy(g, n, q)
  <2> HIDE DEF n, q
  <2> QED
    BY <1>1, TakingExists
<1>3. Folds(g)
  <2> HIDE DEF n, q
  <2> QED
    BY <1>2 DEF TakesBy
<1>4. Folds(f)
  <2> HIDE DEF Folds
  <2> QED
    BY <1>3
<1> DEFINE kept == FoldLeft(Took, NothingKept, q)
<1>5. kept = f[1..n]
  BY <1>1 DEF FoldLeft, MapThenFoldSet
<1>6. /\ Accepted(given).fields = kept.fields
      /\ Accepted(given).refused = kept.refused
      /\ Accepted(given).not_found = Explanations(given.not_found, kept.fields)
  BY DEF Accepted, NothingKept
<1> DEFINE T == {k \in 0..n : KeptOf(q, k, f[1..k])}
<1>7. 0 \in T
  <2>1. f[{}] = NothingKept
    <3> HIDE DEF f, n, q
    <3> QED
      BY <1>4
  <2>2. 1..0 = {} /\ 0 \in 0..n
    BY <1>1
  <2>3. KeptOf(q, 0, NothingKept)
    BY <2>2 DEF KeptOf, NothingKept
  <2> HIDE DEF f, n, q
  <2> QED
    BY <2>1, <2>2, <2>3
<1>8. ASSUME NEW k \in 0..n, k \in T, k < n PROVE k + 1 \in T
  <2> DEFINE m == k + 1
  <2>1. m \in 1..n /\ m \in 0..n /\ 1..m \in SUBSET (1..n) /\ 1..m # {} /\ 1..m \ {m} = 1..k
    <3>1. n \in Nat /\ k \in Nat /\ m <= n
      BY <1>1, <1>8
    <3> HIDE DEF n, T
    <3> QED
      BY <3>1
  <2>2. Max(1..m) = m
    <3> DEFINE s == 1..m
    <3>1. m \in Nat /\ s \in SUBSET (1..m) /\ m \in s
      OBVIOUS
    <3>2. Max(s) = m
      <4> HIDE DEF s, m, f, T, n, q
      <4> QED
        BY <3>1, TopOf
    <3> QED
      BY <3>2
  <2>3. f[1..m] = Took(f[1..k], q[m])
    <3> HIDE DEF f, n, q, m
    <3> QED
      BY <1>4, <2>1, <2>2
  <2>4. KeptOf(q, k, f[1..k]) /\ k \in Nat /\ k + 1 \in DOMAIN q
    BY <1>1, <1>8
  <2>5. KeptOf(q, k + 1, Took(f[1..k], q[k + 1]))
    <3> HIDE DEF f, n, q
    <3> QED
      BY <2>4, TookSays
  <2> HIDE DEF f, n, q
  <2> QED
    BY <2>1, <2>3, <2>5
<1>9. 0..n \subseteq T
  <2> HIDE DEF T, n
  <2> QED
    BY <1>1, <1>7, <1>8, CountingUp
<1>10. n \in 0..n
  BY <1>1
<1>11. KeptOf(q, n, kept)
  <2> HIDE DEF n, q, f
  <2> QED
    BY <1>5, <1>9, <1>10
<1> HIDE DEF kept
<1> QED
  BY <1>6, <1>11

-----------------------------------------------------------------------------
(* The form.  What is in its cells and what is said of the others are two   *)
(* readings of the same header, taken at different steps: the invariant is  *)
(* that both are still of the header that was read.                         *)

ReadOrNot ==
  \/ answer = NoAnswer /\ header = NoHeader
  \/ answer \in Replies /\ header = Accepted(answer)

Extracted ==
  /\ today \in Todays
  /\ step \in {"ask", "normalise", "done", "filled"}
  /\ step = "ask" => answer = NoAnswer
  /\ step # "ask" => ReadOrNot
  /\ step \in {"done", "filled"} => form = Normalised(header.fields, today)
  /\ step = "filled" => \E remarks \in Remarks : book = Built(header, form, filed, remarks)

LEMMA FormStarts == FormInit => Extracted
BY DEF FormInit, HeaderInit, Extracted

LEMMA FormKept == Extracted /\ [FormNext]_fvars => Extracted'
<1> SUFFICES ASSUME Extracted, [FormNext]_fvars PROVE Extracted'
  OBVIOUS
<1>1. CASE ReadHeader
  <2>1. PICK given \in Replies : answer' = given /\ header' = Accepted(given)
    BY <1>1 DEF ReadHeader
  <2>2. answer' \in Replies /\ header' = Accepted(answer')
    BY <2>1
  <2>3. step' = "normalise" /\ today' = today
    BY <1>1 DEF ReadHeader
  <2>4. ReadOrNot'
    BY <2>2 DEF ReadOrNot
  <2> QED
    BY <2>3, <2>4 DEF Extracted
<1>2. CASE FailToReadHeader /\ UNCHANGED <<filed, book>>
  BY <1>2 DEF FailToReadHeader, Extracted, ReadOrNot
<1>3. CASE NormaliseHeader
  BY <1>3 DEF NormaliseHeader, Extracted, ReadOrNot
<1>4. CASE FillForm
  BY <1>4 DEF FillForm, Extracted, ReadOrNot
<1>5. CASE UNCHANGED fvars
  BY <1>5 DEF fvars, Extracted, ReadOrNot
<1> QED
  BY <1>1, <1>2, <1>3, <1>4, <1>5 DEF FormNext, HeaderNext

\* The cells and what is said of them are of the one answer that was read.
THEOREM FormIsOfWhatWasRead == FormSpec => []Extracted
BY FormStarts, FormKept, PTL DEF FormSpec

\* A date that is not read is not read for a reason a person is told.
LEMMA UnreadHasAReason ==
  ASSUME NEW written, NEW now, ParseDate(written, now).day = <<>>
  PROVE  ParseDate(written, now).problem \in {"ambiguous", "not understood", "not a real day"}
<1>1. ASSUME NEW day PROVE Real(day).day = <<>> => Real(day).problem = "not a real day"
  BY DEF Real, Parsed, Unread
<1>2. ASSUME NEW month, NEW day
      PROVE  WithYear(month, day, now).day = <<>>
               => WithYear(month, day, now).problem = "not a real day"
  BY <1>1 DEF WithYear
<1>3. ASSUME NEW month, NEW day
      PROVE  Dated(written, month, day, now).day = <<>>
               => Dated(written, month, day, now).problem = "not a real day"
  BY <1>1, <1>2 DEF Dated
<1>4. Unread("ambiguous").problem = "ambiguous" /\ Unread("not understood").problem = "not understood"
  BY DEF Unread
<1> DEFINE a == written.first
           b == written.second
<1>5. CASE written.is = "iso"
  BY <1>1, <1>5 DEF ParseDate
<1>6. CASE written.is = "named"
  BY <1>3, <1>6 DEF ParseDate
<1>7. CASE written.is = "numeric"
  BY <1>3, <1>4, <1>7 DEF ParseDate
<1>8. CASE written.is \notin {"iso", "named", "numeric"}
  BY <1>4, <1>8 DEF ParseDate
<1> QED
  BY <1>5, <1>6, <1>7, <1>8

\* Whatever the header holds is in a cell or blank with a reason.
LEMMA WrittenOrExplained ==
  ASSUME NEW found, NEW now, NEW given, given.fields = found, NEW all,
         NEW f \in DOMAIN found, NEW remarks
  PROVE  LET normalized == Normalised(found, now)
             built == Built(given, normalized, all, remarks)
         IN f \in built.cells \/ (f \in DOMAIN built.blank /\ built.blank[f] # "")
<1> DEFINE normalized == Normalised(found, now)
           parsed(g) == ParseDate(found[g].value, now)
           built == Built(given, normalized, all, remarks)
<1>1. /\ DOMAIN normalized.text = DOMAIN found \ Dates
      /\ DOMAIN normalized.dates = {g \in DOMAIN found \cap Dates : parsed(g).day # <<>>}
      /\ DOMAIN normalized.dropped = {g \in DOMAIN found \cap Dates : parsed(g).day = <<>>}
      /\ \A g \in DOMAIN normalized.dropped : normalized.dropped[g] = parsed(g).problem
  BY DEF Normalised
<1>2. /\ built.cells = DOMAIN normalized.text \cup DOMAIN normalized.dates \cup {"rfq_reference"}
      /\ built.blank = WhyBlank(given, normalized)
  BY DEF Built
<1> HIDE DEF normalized, built
<1>3. CASE f \notin DOMAIN normalized.dropped
  BY <1>1, <1>2, <1>3 DEF built, normalized
<1>4. CASE f \in DOMAIN normalized.dropped
  <2>1. parsed(f).day = <<>>
    BY <1>1, <1>4
  <2>2. normalized.dropped[f] \in {"ambiguous", "not understood", "not a real day"}
    BY <1>1, <1>4, <2>1, UnreadHasAReason
  <2>3. f \in DOMAIN built.blank /\ built.blank[f] = Reason(normalized.dropped[f])
    BY <1>2, <1>4, <2>2 DEF WhyBlank, Reason
  <2> QED
    BY <2>2, <2>3 DEF Reason, built, normalized
<1> QED
  BY <1>3, <1>4

\* A list short enough is listed whole.
LEMMA ShortListsAreWhole ==
  ASSUME NEW entries, NEW most, Cardinality(entries) <= most
  PROVE  AtMost(entries, most) = entries
BY DEF AtMost

LEMMA FewAreChecked ==
  ASSUME NEW found, NEW now
  PROVE  AtMost(Normalised(found, now).checked, MaxRemarks) = Normalised(found, now).checked
<1> DEFINE checked == Normalised(found, now).checked
<1>1. checked = {} \/ checked = {"imo"}
  BY DEF Normalised
<1> HIDE DEF checked
<1>6. Cardinality({}) = 0 /\ Cardinality({"imo"}) = 1
  BY FS_EmptySet, FS_Singleton
<1>2. Cardinality(checked) <= 1
  BY <1>1, <1>6
<1>3. Cardinality(checked) \in Nat
  BY <1>1, <1>6
<1>4. MaxRemarks \in Nat \ {0}
  BY ListsAreCapped
<1>5. Cardinality(checked) <= MaxRemarks
  BY <1>2, <1>3, <1>4
<1> QED
  BY <1>5, ShortListsAreWhole DEF checked

LEMMA TheFormSays ==
  ASSUME NEW normalized, NEW blank, NEW unread, NEW count
  PROVE  LET block == UnderTheForm(normalized, blank, unread, count)
         IN /\ block.blank = AtMost(blank, MaxRemarks)
            /\ block.check = AtMost(normalized.checked, MaxRemarks)
            /\ block.unread = AtMost(unread, MaxRemarks)
BY DEF UnderTheForm

LEMMA TheFormNotes ==
  ASSUME NEW normalized, NEW blank, NEW unread, NEW count
  PROVE  Saying(count = 0, "nothing read")
           \subseteq UnderTheForm(normalized, blank, unread, count).notes
BY DEF UnderTheForm

\* "A silently dropped requisition is the worst thing this agent can do": whatever was
\* answered, refused, left out or not read, what the customer wrote is in a cell or named
\* with its reason, and so is every starred cell left empty, on the form or in the email
\* when either lists that many; a file that was not read is named in the email, and so
\* are it and a number worth checking on a form with remarks, up to its limit - for any
\* limits and either setting of the remarks.
THEOREM EverythingIsSaid == FormSpec => []NothingLeftUnsaid
<1>2. ASSUME Extracted, step = "filled" PROVE NothingLeftUnsaid
  <2>1. PICK remarks \in Remarks : book = Built(header, form, filed, remarks)
    BY <1>2 DEF Extracted
  <2>0. form = Normalised(header.fields, today)
    BY <1>2 DEF Extracted
  <2> DEFINE told == book.form.blank \cup book.email.blank
             named == DOMAIN book.blank
  <2>7. /\ remarks \in BOOLEAN /\ book.remarks = remarks
        /\ book.unread = UnreadFiles(filed) /\ book.check = form.checked
        /\ book.email = InTheEmail(named, book.unread, ItemsOf(filed))
        /\ remarks => book.form = UnderTheForm(form, named, book.unread, ItemsOf(filed))
    BY <2>1, ListsAreCapped DEF Built
  <2>8. /\ book.email.blank = AtMost(named, MaxBlanks) /\ book.email.unread = book.unread
        /\ book.email.notes = Saying(ItemsOf(filed) = 0, "nothing read")
    BY <2>7 DEF InTheEmail, NothingSaid
  <2>9. remarks =>
          /\ book.form.blank = AtMost(named, MaxRemarks)
          /\ book.form.check = AtMost(form.checked, MaxRemarks)
          /\ book.form.unread = AtMost(book.unread, MaxRemarks)
    <3> HIDE DEF named
    <3> QED
      BY <2>7, TheFormSays
  <2>10. remarks => Saying(ItemsOf(filed) = 0, "nothing read") \subseteq book.form.notes
    <3> HIDE DEF named
    <3> DEFINE noted == Saying(ItemsOf(filed) = 0, "nothing read")
               full == UnderTheForm(form, named, book.unread, ItemsOf(filed))
    <3>1. noted \subseteq full.notes
      BY TheFormNotes, Zenon
    <3>2. remarks => book.form = full
      BY <2>7
    <3> HIDE DEF noted, full
    <3> QED
      BY <3>1, <3>2, Zenon DEF noted
  <2>2. ASSUME BlanksFit
        PROVE  /\ \A f \in DOMAIN header.fields :
                    f \in book.cells \/ (f \in told /\ book.blank[f] # "")
               /\ Required \ told \subseteq book.cells
    <3>1. named \subseteq told
      <4> HIDE DEF named
      <4> QED
        BY <2>2, <2>7, <2>8, <2>9, ShortListsAreWhole DEF BlanksFit, named
    <3>2. \A f \in DOMAIN header.fields : f \in book.cells \/ (f \in named /\ book.blank[f] # "")
      BY <2>0, <2>1, WrittenOrExplained
    <3>3. Required \ named \subseteq book.cells
      <4>1. named = MissingRequired(form) \cup DOMAIN form.dropped
        BY <2>1 DEF Built, WhyBlank
      <4>2. book.cells = DOMAIN form.text \cup DOMAIN form.dates \cup {"rfq_reference"}
        BY <2>1 DEF Built
      <4> QED
        BY <4>1, <4>2 DEF MissingRequired
    <3> HIDE DEF told, named
    <3> QED
      BY <3>1, <3>2, <3>3
  <2>4. \A f \in DOMAIN header.fields :
          (f = "imo" /\ ~ChecksOut(header.fields[f].value.digits) /\ book.remarks) =>
            f \in book.form.check
    <3>1. form.checked = {f \in DOMAIN header.fields \cap {"imo"} :
                            ~ChecksOut(header.fields[f].value.digits)}
      BY <2>0 DEF Normalised
    <3>2. book.remarks => book.form.check = form.checked
      BY <2>0, <2>7, <2>9, FewAreChecked
    <3> QED
      BY <3>1, <3>2
  <2>5. \A i \in DOMAIN filed :
          filed[i].codes \cap FileReasons # {} /\ ~HoldsItems(filed[i]) /\ ~filed[i].facts =>
            /\ i \in book.email.unread
            /\ book.remarks /\ Cardinality(book.unread) <= MaxRemarks => i \in book.form.unread
    <3>1. \A i \in DOMAIN filed :
            filed[i].codes \cap FileReasons # {} /\ ~HoldsItems(filed[i]) /\ ~filed[i].facts
              => i \in book.unread
      BY <2>7 DEF UnreadFiles
    <3>2. book.remarks /\ Cardinality(book.unread) <= MaxRemarks => book.form.unread = book.unread
      BY <2>7, <2>9, ShortListsAreWhole
    <3> QED
      BY <2>8, <3>1, <3>2
  <2>6. ItemsOf(filed) = 0 =>
          /\ "nothing read" \in book.email.notes
          /\ book.remarks => "nothing read" \in book.form.notes
    BY <2>7, <2>8, <2>10 DEF Saying
  <2> QED
    BY <2>2, <2>4, <2>5, <2>6 DEF NothingLeftUnsaid
<1>3. Extracted => NothingLeftUnsaid
  BY <1>2 DEF NothingLeftUnsaid
<1> QED
  BY FormIsOfWhatWasRead, <1>3, PTL

\* The parts of a normalised header.
LEMMA NormalisedParts ==
  ASSUME NEW found, NEW now
  PROVE  LET normalized == Normalised(found, now)
             parsed(g) == ParseDate(found[g].value, now)
         IN /\ DOMAIN normalized.text = DOMAIN found \ Dates
            /\ DOMAIN normalized.dates = {g \in DOMAIN found \cap Dates : parsed(g).day # <<>>}
            /\ DOMAIN normalized.dropped = {g \in DOMAIN found \cap Dates : parsed(g).day = <<>>}
            /\ \A g \in DOMAIN normalized.dates : normalized.dates[g] = parsed(g).day[1]
            /\ \A g \in DOMAIN normalized.dropped : normalized.dropped[g] = parsed(g).problem
BY DEF Normalised

\* What was read is what was kept of the answer's fields.
LEMMA ReadAsKept ==
  ASSUME Extracted, step # "ask"
  PROVE  /\ Len(answer.fields) \in Nat /\ DOMAIN answer.fields = 1..Len(answer.fields)
         /\ \E kept : /\ KeptOf(answer.fields, Len(answer.fields), kept)
                      /\ header.fields = kept.fields
                      /\ header.refused = kept.refused
                      /\ header.not_found \cap DOMAIN kept.fields = {}
<1>1. CASE answer = NoAnswer /\ header = NoHeader
  <2>1. answer.fields = <<>> /\ header.fields = <<>> /\ header.refused = <<>> /\ header.not_found = {}
    BY <1>1 DEF NoAnswer, NoHeader
  <2> DEFINE none == <<>>
  <2>2. Len(none) = 0 /\ DOMAIN none = 1..0 /\ 1..0 = {}
    OBVIOUS
  <2>3. KeptOf(none, 0, NothingKept)
    BY <2>2 DEF KeptOf, NothingKept
  <2>4. NothingKept.fields = <<>> /\ NothingKept.refused = <<>>
    BY DEF NothingKept
  <2> HIDE DEF none
  <2> QED
    BY <2>1, <2>2, <2>3, <2>4 DEF none
<1>2. CASE answer \in Replies /\ header = Accepted(answer)
  <2>1. Len(answer.fields) \in Nat /\ DOMAIN answer.fields = 1..Len(answer.fields)
    BY <1>2, RepliesAreLists
  <2>2. PICK kept : /\ KeptOf(answer.fields, Len(answer.fields), kept)
                    /\ header.fields = kept.fields
                    /\ header.refused = kept.refused
                    /\ header.not_found = Explanations(answer.not_found, kept.fields)
    BY <1>2, AcceptedSays
  <2> QED
    BY <2>1, <2>2 DEF Explanations
<1> QED
  BY <1>1, <1>2 DEF Extracted, ReadOrNot

\* "Every blank cell owes an explanation", and the first answer for a field stands.
THEOREM CellsAreExplained == FormSpec => []EveryCellIsExplained
<1>1. ASSUME Extracted, step \in {"done", "filled"} PROVE EveryCellIsExplained
  <2> DEFINE q == answer.fields
             n == Len(q)
             filled == DOMAIN form.text \cup DOMAIN form.dates
             firsts(f) == {i \in DOMAIN q : q[i].field = f /\ Stands(q[i])}
  <2>1. n \in Nat /\ DOMAIN q = 1..n
    BY <1>1, ReadAsKept
  <2>2. PICK kept : /\ KeptOf(q, n, kept)
                    /\ header.fields = kept.fields
                    /\ header.refused = kept.refused
                    /\ header.not_found \cap DOMAIN kept.fields = {}
    BY <1>1, ReadAsKept
  <2>3. /\ filled \cap DOMAIN form.dropped = {}
        /\ filled \cup DOMAIN form.dropped = DOMAIN header.fields
        /\ \A f \in DOMAIN form.dropped : form.dropped[f] # ""
    <3>1. form = Normalised(header.fields, today)
      BY <1>1 DEF Extracted
    <3>2. /\ DOMAIN form.text = DOMAIN header.fields \ Dates
          /\ DOMAIN form.dates = {g \in DOMAIN header.fields \cap Dates :
                                    ParseDate(header.fields[g].value, today).day # <<>>}
          /\ DOMAIN form.dropped = {g \in DOMAIN header.fields \cap Dates :
                                      ParseDate(header.fields[g].value, today).day = <<>>}
          /\ \A g \in DOMAIN form.dropped :
               form.dropped[g] = ParseDate(header.fields[g].value, today).problem
      BY <3>1, NormalisedParts
    <3>3. ASSUME NEW f \in DOMAIN form.dropped PROVE form.dropped[f] # ""
      BY <3>2, UnreadHasAReason
    <3>4. \A g \in DOMAIN header.fields :
            \/ g \notin Dates /\ g \in DOMAIN form.text
            \/ g \in DOMAIN form.dates
            \/ g \in DOMAIN form.dropped
      BY <3>2
    <3>5. filled \cup DOMAIN form.dropped \subseteq DOMAIN header.fields
      BY <3>2
    <3>6. filled \cap DOMAIN form.dropped = {}
      BY <3>2
    <3> QED
      BY <3>3, <3>4, <3>5, <3>6
  <2>4. ASSUME NEW f, firsts(f) = {} PROVE f \notin DOMAIN header.fields
    <3> SUFFICES ASSUME f \in DOMAIN header.fields PROVE FALSE
      OBVIOUS
    <3>1. PICK i \in 1..n : FirstOf(q, i) /\ q[i].field = f
      BY <2>2 DEF KeptOf
    <3> QED
      BY <2>4, <3>1 DEF FirstOf
  <2>5. ASSUME NEW f, firsts(f) # {}
        PROVE  f \in DOMAIN header.fields /\ header.fields[f].value = q[Min(firsts(f))].value
    <3>1. PICK j \in firsts(f) : TRUE
      BY <2>5
    <3>2. f \in DOMAIN kept.fields
      <4>1. j \in 1..n /\ Stands(q[j]) /\ q[j].field = f
        BY <2>1, <3>1
      <4>2. \A k \in 1..n : Stands(q[k]) => q[k].field \in DOMAIN kept.fields
        BY <2>2 DEF KeptOf
      <4> QED
        BY <4>1, <4>2
    <3>3. PICK i \in 1..n : /\ FirstOf(q, i) /\ q[i].field = f
                            /\ kept.fields[f] = [value |-> q[i].value, source |-> q[i].source]
      BY <2>2, <3>2 DEF KeptOf
    <3>4. i \in firsts(f)
      BY <2>1, <3>3 DEF FirstOf
    <3>5. ASSUME NEW k \in firsts(f) PROVE i <= k
      <4>1. k \in 1..n /\ Stands(q[k]) /\ q[k].field = f
        BY <2>1
      <4>2. k \notin 1..(i - 1)
        <5> SUFFICES ASSUME k \in 1..(i - 1) PROVE FALSE
          OBVIOUS
        <5>1. q[k].field # q[i].field
          BY <3>3, <4>1 DEF FirstOf
        <5> QED
          BY <3>3, <4>1, <5>1
      <4> QED
        BY <2>1, <4>1, <4>2
    <3>6. firsts(f) \subseteq Int
      BY <2>1
    <3> DEFINE S == firsts(f)
    <3>7. Min(S) = i
      <4>1. i \in S /\ S \subseteq Int /\ \A k \in S : i <= k
        BY <3>4, <3>5, <3>6
      <4>2. Min(S) = CHOOSE x \in S : \A y \in S : x <= y
        BY DEF Min
      <4>3. Min(S) \in S /\ \A y \in S : Min(S) <= y
        <5> HIDE DEF S
        <5> QED
          BY <4>1, <4>2
      <4>4. Min(S) \in Int /\ i \in Int /\ Min(S) <= i /\ i <= Min(S)
        <5> HIDE DEF S
        <5> QED
          BY <4>1, <4>3
      <4> HIDE DEF S
      <4> QED
        BY <4>4
    <3>8. header.fields[f].value = q[i].value
      <4> DEFINE held == [value |-> q[i].value, source |-> q[i].source]
      <4>1. held.value = q[i].value
        OBVIOUS
      <4>2. header.fields[f] = held
        BY <2>2, <3>3
      <4> HIDE DEF held
      <4> QED
        BY <4>1, <4>2
    <3>9. f \in DOMAIN header.fields
      BY <2>2, <3>2
    <3> HIDE DEF S
    <3>10. header.fields[f].value = q[Min(S)].value
      BY <3>7, <3>8
    <3> QED
      BY <3>9, <3>10 DEF S
  <2>6. ASSUME NEW i \in DOMAIN q, ~Stands(q[i])
        PROVE  \E r \in Range(header.refused) : r.found = q[i] /\ r.why # ""
    <3>1. PICK j \in DOMAIN kept.refused : kept.refused[j].found = q[i] /\ kept.refused[j].why # ""
      BY <2>1, <2>2, <2>6 DEF KeptOf
    <3> QED
      BY <2>2, <3>1 DEF Range
  <2>7. filled \cap header.not_found = {}
    BY <2>2, <2>3
  <2> HIDE DEF filled
  <2> QED
    BY <2>3, <2>4, <2>5, <2>6, <2>7 DEF EveryCellIsExplained, Stands, filled
<1>2. Extracted => EveryCellIsExplained
  BY <1>1 DEF EveryCellIsExplained
<1> QED
  BY FormIsOfWhatWasRead, <1>2, PTL

-----------------------------------------------------------------------------
(* Dates.  A calendar counted in days: a day of the next year is later than *)
(* any day of this one, so that the year left off is settled by one test.   *)

LEMMA LeapYearsGrow ==
  ASSUME NEW y \in Nat, y >= 1
  PROVE  LeapYears(y - 1) \in Int /\ LeapYears(y) \in Int /\ LeapYears(y - 1) <= LeapYears(y)
BY DEF LeapYears

LEMMA BeforeIsInAYear ==
  ASSUME NEW month \in 1..12
  PROVE  Before(month) \in 0..334
BY DEF Before

\* What the parts of a day on which an RFQ is read are.
LEMMA TodayIsADay ==
  ASSUME NEW now \in Todays
  PROVE  now.year \in 1..MaxYear /\ now.month \in 1..12 /\ now.day \in 1..31
BY TodaysAreDays

\* The same day is later a year later, and any day of the next year is later than one
\* of this year.
LEMMA NextYearIsLater ==
  ASSUME NEW now \in Todays, NEW month \in 1..12, NEW day \in 1..31
  PROVE  /\ Ordinal(now) \in Int
         /\ Ordinal(Day(now.year, month, day)) \in Int
         /\ Ordinal(Day(now.year + 1, month, day)) \in Int
         /\ Ordinal(now) <= Ordinal(Day(now.year + 1, month, day))
         /\ Ordinal(Day(now.year, month, day)) <= Ordinal(Day(now.year + 1, month, day))
<1>1. PICK y \in 1..MaxYear : now.year = y
  <2>1. now.year \in 1..MaxYear
    BY TodayIsADay
  <2> QED
    BY ONLY <2>1
<1>2. now.month \in 1..12 /\ now.day \in 1..31
  BY TodayIsADay
<1> DEFINE a == Before(now.month)
           b == Before(month)
           l == LeapYears(y - 1)
           m == LeapYears(y)
           extra == IF now.month > 2 /\ Leap(now.year) THEN 1 ELSE 0
           this == IF month > 2 /\ Leap(y) THEN 1 ELSE 0
           next == IF month > 2 /\ Leap(y + 1) THEN 1 ELSE 0
<1>3. a \in 0..334 /\ b \in 0..334
  BY <1>2, BeforeIsInAYear
<1>4. l \in Int /\ m \in Int /\ l <= m
  BY LeapYearsGrow
<1>5. extra \in 0..1 /\ this \in 0..1 /\ next \in 0..1
  OBVIOUS
<1>6. Ordinal(now) = 365 * (y - 1) + l + a + extra + now.day
  BY <1>1 DEF Ordinal
<1>7. Ordinal(Day(y, month, day)) = 365 * (y - 1) + l + b + this + day
  BY DEF Ordinal, Day
<1>8. Ordinal(Day(y + 1, month, day)) = 365 * y + m + b + next + day
  <2>1. (y + 1) - 1 = y
    OBVIOUS
  <2> QED
    BY <2>1 DEF Ordinal, Day
<1> HIDE DEF a, b, l, m, extra, this, next
<1> QED
  BY <1>1, <1>3, <1>4, <1>5, <1>6, <1>7, <1>8, <1>2

\* A day of the calendar is one of a month of at most 31.
LEMMA DaysAreFew ==
  ASSUME NEW y, NEW month, NEW day, IsDay(Day(y, month, day))
  PROVE  month \in 1..12 /\ day \in 1..31 /\ y \in 1..MaxYear
<1> DEFINE d == Day(y, month, day)
<1>1. d.month = month /\ d.day = day /\ d.year = y
  BY DEF Day
<1>2. DaysIn(y, month) \in 28..31
  BY DEF DaysIn
<1> HIDE DEF d
<1>3. month \in 1..12 /\ day \in 1..DaysIn(y, month) /\ y \in 1..MaxYear
  BY <1>1 DEF IsDay, d
<1> QED
  BY <1>2, <1>3

\* A date is the day, when there is one.
LEMMA RealSays ==
  ASSUME NEW d
  PROVE  /\ IsDay(d) => Real(d).day[1] = d
         /\ Real(d).day # <<>> <=> IsDay(d)
<1>1. CASE IsDay(d)
  <2> DEFINE one == <<d>>
  <2>1. one # <<>> /\ one[1] = d
    OBVIOUS
  <2>2. Real(d).day = one
    BY <1>1 DEF Real, Parsed
  <2> HIDE DEF one
  <2> QED
    BY <1>1, <2>1, <2>2
<1>2. CASE ~IsDay(d)
  BY <1>2 DEF Real, Unread
<1> QED
  BY <1>1, <1>2

\* What the year left off is filled in with: of this year and the next the first that
\* makes a day not further back than an RFQ looks.
LEMMA WithYearSays ==
  ASSUME NEW now \in Todays, NEW month \in Nat, NEW day \in Nat,
         WithYear(month, day, now).day # <<>>
  PROVE  LET taken == WithYear(month, day, now).day[1]
         IN /\ \E y \in {now.year, now.year + 1} : taken = Day(y, month, day)
            /\ IsDay(taken)
            /\ Ordinal(now) - Ordinal(taken) <= Tolerance
            /\ \A y \in {now.year, now.year + 1} :
                 Ordinal(now) - Ordinal(Day(y, month, day)) <= Tolerance
                   => Ordinal(taken) <= Ordinal(Day(y, month, day))
<1>1. ASSUME month \in 1..12, day \in 1..31
      PROVE  /\ Ordinal(now) \in Int
             /\ Ordinal(Day(now.year, month, day)) \in Int
             /\ Ordinal(Day(now.year + 1, month, day)) \in Int
             /\ Ordinal(now) <= Ordinal(Day(now.year + 1, month, day))
             /\ Ordinal(Day(now.year, month, day)) <= Ordinal(Day(now.year + 1, month, day))
  BY <1>1, NextYearIsLater
<1>2. ASSUME NEW z, IsDay(Day(z, month, day)) PROVE month \in 1..12 /\ day \in 1..31
  BY ONLY <1>2, DaysAreFew
<1>3. PICK y \in 1..MaxYear : now.year = y
  <2>1. now.year \in 1..MaxYear
    BY TodayIsADay
  <2> QED
    BY ONLY <2>1
<1> DEFINE this == Day(y, month, day)
           next == Day(y + 1, month, day)
           taken == WithYear(month, day, now)
<1>4. taken = IF IsDay(this) /\ Ordinal(now) - Ordinal(this) > Tolerance THEN Real(next) ELSE Real(this)
  BY <1>3 DEF WithYear
<1>5. CASE IsDay(this) /\ Ordinal(now) - Ordinal(this) > Tolerance
  <2>1. IsDay(next) /\ taken.day[1] = next
    <3>1. taken = Real(next) /\ taken.day # <<>>
      BY <1>4, <1>5
    <3> HIDE DEF this, next, taken
    <3> QED
      BY <3>1, RealSays
  <2>2. month \in 1..12 /\ day \in 1..31
    BY <1>5, <1>2
  <2>3. /\ Ordinal(now) \in Int /\ Ordinal(this) \in Int /\ Ordinal(next) \in Int
        /\ Ordinal(now) <= Ordinal(next) /\ Ordinal(this) <= Ordinal(next)
    BY <1>1, <1>3, <2>2
  <2> HIDE DEF taken, this, next
  <2>4. Ordinal(now) - Ordinal(next) <= Tolerance
    BY <2>3, ToleranceIsANumber
  <2>5. ~(Ordinal(now) - Ordinal(this) <= Tolerance) /\ Ordinal(next) <= Ordinal(next)
    BY <1>5, <2>3, ToleranceIsANumber
  <2> QED
    BY <1>3, <2>1, <2>4, <2>5 DEF taken, this, next
<1>6. CASE ~(IsDay(this) /\ Ordinal(now) - Ordinal(this) > Tolerance)
  <2>1. IsDay(this)
    <3>1. taken = Real(this) /\ taken.day # <<>>
      BY <1>4, <1>6
    <3> HIDE DEF this, next, taken
    <3> QED
      BY <3>1, RealSays
  <2>2. IsDay(this) /\ taken.day[1] = this
    <3>1. taken = Real(this)
      BY <1>4, <1>6
    <3> HIDE DEF this, next, taken
    <3> QED
      BY <2>1, <3>1, RealSays
  <2>3. month \in 1..12 /\ day \in 1..31
    BY <2>1, <1>2
  <2>4. /\ Ordinal(now) \in Int /\ Ordinal(this) \in Int /\ Ordinal(next) \in Int
        /\ Ordinal(now) <= Ordinal(next) /\ Ordinal(this) <= Ordinal(next)
    BY <1>1, <1>3, <2>3
  <2> HIDE DEF taken, this, next
  <2>5. Ordinal(now) - Ordinal(this) <= Tolerance
    BY <1>6, <2>2, <2>4, ToleranceIsANumber
  <2>6. Ordinal(this) <= Ordinal(this) /\ Ordinal(this) <= Ordinal(next)
    BY <2>4
  <2> QED
    BY <1>3, <2>2, <2>5, <2>6 DEF taken, this, next
<1> QED
  BY <1>5, <1>6

\* A month and a day a text gives in the order it is read in, which is the only order
\* that can make a day.
MeantAs(written, now, month, day) ==
  /\ month \in Nat /\ day \in Nat
  /\ <<month, day>> \in Orders(written)
  /\ \A o \in Orders(written) : o[1] \in 1..12 /\ o[2] \in 1..31 /\ o # <<month, day>> => FALSE
  /\ ParseDate(written, now) = IF written.is = "iso" THEN Real(Day(written.year, month, day))
                               ELSE Dated(written, month, day, now)

LEMMA ReadOneWay ==
  ASSUME NEW written, NEW now, written.first \in Nat, written.second \in Nat,
         ParseDate(written, now).day # <<>>
  PROVE  \E month, day : MeantAs(written, now, month, day)
<1> DEFINE parsed == ParseDate(written, now)
<1>0. PICK a \in Nat, b \in Nat : a = written.first /\ b = written.second
  OBVIOUS
<1>1. Unread("ambiguous").day = <<>> /\ Unread("not understood").day = <<>>
  BY DEF Unread
<1>2. CASE written.is = "iso"
  <2>1. parsed = Real(Day(written.year, a, b))
    BY <1>0, <1>2 DEF ParseDate
  <2>2. Orders(written) = {<<a, b>>}
    BY <1>0, <1>2 DEF Orders
  <2>3. MeantAs(written, now, a, b)
    BY <1>0, <1>2, <2>1, <2>2 DEF MeantAs
  <2> QED
    BY <2>3
<1>3. CASE written.is = "named"
  <2>1. parsed = Dated(written, b, a, now)
    BY <1>0, <1>3 DEF ParseDate
  <2>2. Orders(written) = {<<b, a>>}
    BY <1>0, <1>3 DEF Orders
  <2>3. MeantAs(written, now, b, a)
    BY <1>0, <1>3, <2>1, <2>2 DEF MeantAs
  <2> QED
    BY <2>3
<1>4. CASE written.is = "numeric"
  <2>1. Orders(written) = {<<a, b>>, <<b, a>>}
    BY <1>0, <1>4 DEF Orders
  <2>2. parsed = IF a > 12 /\ b <= 12 THEN Dated(written, b, a, now)
                 ELSE IF (b > 12 /\ a <= 12) \/ (a = b /\ written.year # 0)
                      THEN Dated(written, a, b, now)
                      ELSE Unread("ambiguous")
    BY <1>0, <1>4 DEF ParseDate
  <2>3. CASE a > 12 /\ b <= 12
    <3>1. parsed = Dated(written, b, a, now)
      BY <2>2, <2>3
    <3>2. \A o \in Orders(written) : o[1] \in 1..12 /\ o[2] \in 1..31 /\ o # <<b, a>> => FALSE
      BY <2>1, <2>3
    <3>3. <<b, a>> \in Orders(written)
      BY <2>1
    <3> HIDE DEF parsed
    <3>4. MeantAs(written, now, b, a)
      BY <1>4, <3>1, <3>2, <3>3 DEF MeantAs, parsed
    <3> QED
      BY <3>4
  <2>4. CASE ~(a > 12 /\ b <= 12) /\ ((b > 12 /\ a <= 12) \/ (a = b /\ written.year # 0))
    <3>1. parsed = Dated(written, a, b, now)
      BY <2>2, <2>4
    <3>2. \A o \in Orders(written) : o[1] \in 1..12 /\ o[2] \in 1..31 /\ o # <<a, b>> => FALSE
      BY <2>1, <2>4
    <3>3. <<a, b>> \in Orders(written)
      BY <2>1
    <3> HIDE DEF parsed
    <3>4. MeantAs(written, now, a, b)
      BY <1>4, <3>1, <3>2, <3>3 DEF MeantAs, parsed
    <3> QED
      BY <3>4
  <2> QED
    BY <1>1, <2>2, <2>3, <2>4
<1>5. written.is \in {"iso", "named", "numeric"}
  <2> SUFFICES ASSUME written.is \notin {"iso", "named", "numeric"} PROVE FALSE
    OBVIOUS
  <2>1. parsed = Unread("not understood")
    BY DEF ParseDate
  <2> QED
    BY <1>1, <2>1
<1> QED
  BY <1>2, <1>3, <1>4, <1>5

LEMMA MeaningsSay ==
  ASSUME NEW written, NEW now, NEW d
  PROVE  d \in Meanings(written, now) <=>
           IsDay(d) /\ \E y \in Years(written, now), o \in Orders(written) : d = Day(y, o[1], o[2])
BY DEF Meanings

\* A date that is read is a day the text can mean, in the only order it can be read in.
LEMMA DateIsMeant ==
  ASSUME NEW written, NEW now \in Todays,
         written.first \in Nat, written.second \in Nat, written.year \in Nat,
         ParseDate(written, now).day # <<>>
  PROVE  LET taken == ParseDate(written, now).day[1]
             ahead(d) == Ordinal(now) - Ordinal(d) <= Tolerance
         IN /\ taken \in Meanings(written, now)
            /\ written.year = 0 => ahead(taken)
            /\ \A other \in Meanings(written, now) :
                 /\ other.month = taken.month /\ other.day = taken.day
                 /\ written.year = 0 /\ ahead(other) => Ordinal(taken) <= Ordinal(other)
<1> DEFINE parsed == ParseDate(written, now)
           taken == parsed.day[1]
           ahead(d) == Ordinal(now) - Ordinal(d) <= Tolerance
           means == Meanings(written, now)
<1>1. PICK month, day : MeantAs(written, now, month, day)
  BY ReadOneWay
<1>2. /\ month \in Nat /\ day \in Nat /\ <<month, day>> \in Orders(written)
      /\ parsed = IF written.is = "iso" THEN Real(Day(written.year, month, day))
                  ELSE Dated(written, month, day, now)
  BY <1>1 DEF MeantAs
<1>3. ASSUME NEW other \in means
      PROVE  \E y \in Years(written, now) : other = Day(y, month, day)
  <2>1. PICK y \in Years(written, now), o \in Orders(written) : other = Day(y, o[1], o[2])
    BY MeaningsSay
  <2>2. IsDay(other)
    BY MeaningsSay
  <2>3. o[1] \in 1..12 /\ o[2] \in 1..31
    <3>1. IsDay(Day(y, o[1], o[2]))
      BY <2>1, <2>2
    <3> HIDE DEF means, parsed, taken
    <3> QED
      BY <3>1, DaysAreFew
  <2>4. o = <<month, day>>
    BY <1>1, <2>3 DEF MeantAs
  <2>5. o[1] = month /\ o[2] = day
    BY <2>4
  <2> QED
    BY <2>1, <2>5
<1>4. ASSUME NEW y \in Years(written, now), IsDay(Day(y, month, day))
      PROVE  Day(y, month, day) \in means
  <2> DEFINE o == <<month, day>>
  <2>1. o[1] = month /\ o[2] = day /\ o \in Orders(written)
    BY <1>2
  <2> HIDE DEF o, means
  <2> QED
    BY <1>4, <2>1, MeaningsSay DEF means
<1>5. \A y : Day(y, month, day).month = month /\ Day(y, month, day).day = day
  BY DEF Day
<1>6. ASSUME NEW y \in Years(written, now), taken = Day(y, month, day)
      PROVE  \A other \in means : other.month = taken.month /\ other.day = taken.day
  <2> HIDE DEF means, taken
  <2> QED
    BY <1>3, <1>5, <1>6
<1>7. CASE written.is = "iso" \/ written.year # 0
  <2>1. PICK y : y \in Years(written, now) /\ parsed = Real(Day(y, month, day))
    <3>1. CASE written.is = "iso"
      BY <1>2, <3>1 DEF Years
    <3>2. CASE written.is # "iso" /\ written.year # 0
      <4>1. parsed = Real(Day(Century(written.year), month, day))
        BY <1>2, <3>2 DEF Dated
      <4>2. Century(written.year) \in Years(written, now)
        BY <3>2 DEF Years
      <4> QED
        BY <4>1, <4>2
    <3> QED
      BY <1>7, <3>1, <3>2
  <2>2. IsDay(Day(y, month, day)) /\ taken = Day(y, month, day)
    <3>1. Real(Day(y, month, day)).day # <<>>
      BY <2>1
    <3>2. IsDay(Day(y, month, day)) /\ Real(Day(y, month, day)).day[1] = Day(y, month, day)
      <4> HIDE DEF parsed, taken, means
      <4> QED
        BY <3>1, RealSays
    <3> QED
      BY <2>1, <3>2
  <2>3. written.year # 0
    <3>1. CASE written.is = "iso"
      <4>1. written.year = y
        BY <2>1, <3>1 DEF Years
      <4>2. y \in 1..MaxYear
        <5>1. IsDay(Day(y, month, day))
          BY <2>2
        <5> QED
          BY ONLY <5>1, DaysAreFew
      <4>3. y # 0
        BY ONLY <4>2
      <4> QED
        BY ONLY <4>1, <4>3
    <3> QED
      BY <1>7, <3>1
  <2>4. taken \in means
    BY <1>4, <2>1, <2>2
  <2>5. \A other \in means : other.month = taken.month /\ other.day = taken.day
    BY <1>6, <2>1, <2>2
  <2> HIDE DEF means, taken, ahead
  <2> QED
    BY <2>3, <2>4, <2>5 DEF means, taken
<1>8. CASE written.is # "iso" /\ written.year = 0
  <2>1. parsed = WithYear(month, day, now)
    BY <1>2, <1>8 DEF Dated
  <2>2. Years(written, now) = {now.year, now.year + 1}
    BY <1>8 DEF Years
  <2>3. /\ \E y \in {now.year, now.year + 1} : taken = Day(y, month, day)
        /\ IsDay(taken)
        /\ ahead(taken)
        /\ \A y \in {now.year, now.year + 1} :
             ahead(Day(y, month, day)) => Ordinal(taken) <= Ordinal(Day(y, month, day))
    <3>1. month \in Nat /\ day \in Nat /\ WithYear(month, day, now).day # <<>>
      BY <1>2, <2>1
    <3>2. taken = WithYear(month, day, now).day[1]
      BY <2>1
    <3> HIDE DEF taken, parsed, means
    <3> QED
      BY <3>1, <3>2, WithYearSays
  <2>4. PICK y \in Years(written, now) : taken = Day(y, month, day)
    BY <2>2, <2>3
  <2>5. taken \in means
    BY <1>4, <2>3, <2>4
  <2>6. \A other \in means : other.month = taken.month /\ other.day = taken.day
    BY <1>6, <2>4
  <2>7. ASSUME NEW other \in means, ahead(other) PROVE Ordinal(taken) <= Ordinal(other)
    <3>1. PICK z \in {now.year, now.year + 1} : other = Day(z, month, day)
      BY <1>3, <2>2
    <3> HIDE DEF taken, means
    <3> QED
      BY <2>3, <2>7, <3>1
  <2>8. ahead(taken)
    BY <2>3
  <2> HIDE DEF means, taken, ahead
  <2> QED
    BY <2>5, <2>6, <2>7, <2>8 DEF means, taken, ahead
<1> QED
  BY <1>7, <1>8

\* "A wrong one costs a delivery": the date in a cell is the only day the customer's text
\* can mean and, when it names no year, the first such day that is not further back
\* than an RFQ looks.
THEOREM DatesAreRead == FormSpec => []DatesAreNotGuessed
<1>1. ASSUME Extracted, step \in {"done", "filled"}, NEW f \in DOMAIN form.dates
      PROVE  LET meant == Meanings(header.fields[f].value, today)
                 ahead == {d \in meant : Ordinal(today) - Ordinal(d) <= Tolerance}
                 day == form.dates[f]
             IN /\ day \in ahead \/ (day \in meant /\ header.fields[f].value.year # 0)
                /\ \A other \in meant : <<other.month, other.day>> = <<day.month, day.day>>
                /\ header.fields[f].value.year = 0 =>
                     \A other \in ahead : Ordinal(day) <= Ordinal(other)
  <2> DEFINE written == header.fields[f].value
             day == form.dates[f]
  <2>1. form = Normalised(header.fields, today) /\ today \in Todays
    BY <1>1 DEF Extracted
  <2>2. /\ f \in DOMAIN header.fields
        /\ ParseDate(written, today).day # <<>>
        /\ day = ParseDate(written, today).day[1]
    BY <2>1, NormalisedParts
  <2>3. PICK i \in DOMAIN answer.fields : written = answer.fields[i].value
    <3>1. PICK kept : KeptOf(answer.fields, Len(answer.fields), kept) /\ header.fields = kept.fields
      BY <1>1, ReadAsKept
    <3>2. PICK i \in 1..Len(answer.fields) :
            kept.fields[f] = [value |-> answer.fields[i].value, source |-> answer.fields[i].source]
      <4>1. f \in DOMAIN kept.fields
        BY <2>2, <3>1
      <4>2. \A g \in DOMAIN kept.fields : \E i \in 1..Len(answer.fields) :
              kept.fields[g] = [value |-> answer.fields[i].value, source |-> answer.fields[i].source]
        BY <3>1 DEF KeptOf
      <4> QED
        BY <4>1, <4>2
    <3>3. i \in DOMAIN answer.fields
      BY <1>1, ReadAsKept
    <3>4. [value |-> answer.fields[i].value, source |-> answer.fields[i].source].value
            = answer.fields[i].value
      OBVIOUS
    <3>5. written = answer.fields[i].value
      BY <3>1, <3>2, <3>4
    <3> QED
      BY <3>3, <3>5
  <2>4. written.first \in Nat /\ written.second \in Nat /\ written.year \in Nat
    <3>1. answer.fields # <<>>
      BY <2>3
    <3>2. answer \in Replies
      BY <1>1, <3>1 DEF Extracted, ReadOrNot, NoAnswer
    <3> QED
      BY <2>3, <3>2, RepliesAreLists
  <2> HIDE DEF written, day
  <2>5. /\ day \in Meanings(written, today)
        /\ written.year = 0 => Ordinal(today) - Ordinal(day) <= Tolerance
        /\ \A other \in Meanings(written, today) :
             /\ other.month = day.month /\ other.day = day.day
             /\ written.year = 0 /\ Ordinal(today) - Ordinal(other) <= Tolerance
                  => Ordinal(day) <= Ordinal(other)
    BY <2>1, <2>2, <2>4, DateIsMeant
  <2> QED
    BY <2>5 DEF written, day
<1>2. Extracted => DatesAreNotGuessed
  BY <1>1 DEF DatesAreNotGuessed
<1> QED
  BY FormIsOfWhatWasRead, <1>2, PTL

-----------------------------------------------------------------------------
(* The tables of a grid.  Nothing moves: what is to be shown is what        *)
(* find_blocks makes of any grid.  Its tables are put together from those   *)
(* under the headers, in their order (StandsAt), and a header's table       *)
(* spans the rows before the next one (Spans).                              *)

\* The sequences of f one after the other, as they are put together.
Flattens(g, n, f) ==
  \A i \in 1..n : g[i] = IF i = 1 THEN f[i] ELSE g[i - 1] \o f[i]

LEMMA FlattensExist ==
  ASSUME NEW T, NEW n \in Nat, NEW f \in [1..n -> Seq(T)]
  PROVE  \E g \in [1..n -> Seq(T)] : Flattens(g, n, f)
<1> DEFINE K == {k \in 0..n : \E g \in [1..k -> Seq(T)] : Flattens(g, k, f)}
<1>1. 0 \in K
  <2> DEFINE g == [i \in 1..0 |-> <<>>]
  <2>1. g \in [1..0 -> Seq(T)] /\ Flattens(g, 0, f)
    BY DEF Flattens
  <2> HIDE DEF g
  <2>2. 0 \in 0..n
    OBVIOUS
  <2> QED
    BY <2>1, <2>2
<1>2. ASSUME NEW k \in 0..n, k \in K, k < n PROVE k + 1 \in K
  <2>1. PICK g \in [1..k -> Seq(T)] : Flattens(g, k, f)
    BY <1>2
  <2> DEFINE more == [i \in 1..(k + 1) |-> IF i <= k THEN g[i] ELSE
                                          IF i = 1 THEN f[i] ELSE g[i - 1] \o f[i]]
  <2>2. k + 1 \in 1..n /\ k + 1 \in 0..n /\ \A i \in 1..(k + 1) : i <= k \/ i = k + 1
    BY <1>2
  <2>3. ASSUME NEW i \in 1..(k + 1)
        PROVE  /\ more[i] \in Seq(T)
               /\ more[i] = IF i = 1 THEN f[i] ELSE more[i - 1] \o f[i]
    <3>1. CASE i <= k
      <4>1. i \in 1..k /\ (i # 1 => i - 1 \in 1..k /\ i - 1 \in 1..(k + 1) /\ i - 1 <= k)
        BY <3>1
      <4>2. more[i] = g[i] /\ (i # 1 => more[i - 1] = g[i - 1])
        BY <4>1
      <4> HIDE DEF more
      <4> QED
        BY <2>1, <4>1, <4>2 DEF Flattens
    <3>2. CASE i = k + 1
      <4>1. i \in 1..n /\ (i # 1 => i - 1 \in 1..k /\ i - 1 \in 1..(k + 1) /\ i - 1 <= k)
        BY <3>2, <2>2
      <4>2. more[i] = (IF i = 1 THEN f[i] ELSE g[i - 1] \o f[i])
            /\ (i # 1 => more[i - 1] = g[i - 1])
        BY <3>2, <4>1
      <4>3. f[i] \in Seq(T) /\ (i # 1 => g[i - 1] \in Seq(T))
        BY <4>1
      <4> HIDE DEF more
      <4> QED
        BY <4>2, <4>3
    <3> QED
      BY <2>2, <3>1, <3>2
  <2>4. more \in [1..(k + 1) -> Seq(T)] /\ Flattens(more, k + 1, f)
    <3>1. more = [i \in 1..(k + 1) |-> more[i]]
      OBVIOUS
    <3> HIDE DEF more
    <3> QED
      BY <2>3, <3>1 DEF Flattens
  <2> HIDE DEF more
  <2> QED
    BY <2>2, <2>4
<1>3. 0..n \subseteq K
  <2> HIDE DEF K
  <2> QED
    BY <1>1, <1>2, CountingUp
<1> QED
  BY <1>3

\* What a sequence is put together from: where each element stands in the first k
\* sequences of f, in their order, and that it has all of theirs.
StandsAt(s, k, f, part, place) ==
  /\ part \in [DOMAIN s -> 1..k]
  /\ place \in [DOMAIN s -> Nat \ {0}]
  /\ \A i \in DOMAIN s : place[i] \in DOMAIN f[part[i]] /\ s[i] = f[part[i]][place[i]]
  /\ \A i, j \in DOMAIN s : i < j =>
       part[i] < part[j] \/ (part[i] = part[j] /\ place[i] < place[j])
  /\ \A l \in 1..k : \A p \in DOMAIN f[l] : \E i \in DOMAIN s : part[i] = l /\ place[i] = p

PutTogether(s, k, f) == \E part, place : StandsAt(s, k, f, part, place)

LEMMA FlattenSays ==
  ASSUME NEW T, NEW n \in Nat, NEW f \in [1..n -> Seq(T)]
  PROVE  FlattenSeq(f) \in Seq(T) /\ PutTogether(FlattenSeq(f), n, f)
<1>1. Len(f) = n
  OBVIOUS
<1>2. CASE n = 0
  <2>1. FlattenSeq(f) = f /\ f = <<>>
    BY <1>1, <1>2 DEF FlattenSeq
  <2>2. <<>> \in [DOMAIN <<>> -> 1..n] /\ <<>> \in [DOMAIN <<>> -> Nat \ {0}]
    OBVIOUS
  <2>3. PutTogether(<<>>, n, f)
    <3>1. DOMAIN <<>> = {}
      OBVIOUS
    <3>2. \A l \in 1..n : FALSE
      BY <1>2
    <3> QED
      BY <2>2, <3>1, <3>2 DEF PutTogether, StandsAt
  <2> QED
    BY <2>1, <2>3
<1>3. CASE n # 0
  <2> DEFINE next(g) == [i \in 1..n |-> IF i = 1 THEN f[i] ELSE g[i - 1] \o f[i]]
             flat == CHOOSE g : g = next(g)
  <2>1. PICK good \in [1..n -> Seq(T)] : Flattens(good, n, f)
    BY FlattensExist
  <2>2. good = next(good)
    <3>1. \A i \in 1..n : good[i] = next(good)[i]
      BY <2>1 DEF Flattens
    <3>2. good = [i \in 1..n |-> good[i]] /\ next(good) = [i \in 1..n |-> next(good)[i]]
      OBVIOUS
    <3> HIDE DEF next
    <3> QED
      BY <3>1, <3>2
  <2>3. flat = next(flat)
    <3> HIDE DEF next
    <3> QED
      BY <2>2
  <2>4. FlattenSeq(f) = flat[n]
    BY <1>1, <1>3 DEF FlattenSeq
  <2> HIDE DEF flat
  <2>5. \A i \in 1..n : flat[i] = IF i = 1 THEN f[i] ELSE flat[i - 1] \o f[i]
    BY <2>3
  <2> DEFINE K == {k \in 0..n : k # 0 => flat[k] \in Seq(T) /\ PutTogether(flat[k], k, f)}
  <2>6. 0 \in K
    OBVIOUS
  <2>7. ASSUME NEW k \in 0..n, k \in K, k < n PROVE k + 1 \in K
    <3>1. k + 1 \in 1..n /\ f[k + 1] \in Seq(T)
      BY <2>7
    <3>2. CASE k = 0
      <4>1. flat[k + 1] = f[1]
        BY <2>5, <3>1, <3>2
      <4> DEFINE part == [i \in DOMAIN f[1] |-> 1]
                 place == [i \in DOMAIN f[1] |-> i]
      <4>2. /\ part \in [DOMAIN f[1] -> 1..1] /\ place \in [DOMAIN f[1] -> Nat \ {0}]
            /\ \A i \in DOMAIN f[1] : part[i] = 1 /\ place[i] = i
        BY <3>1, <3>2
      <4> HIDE DEF part, place
      <4>3. PutTogether(f[1], 1, f)
          <5>1. /\ \A i \in DOMAIN f[1] : place[i] \in DOMAIN f[part[i]] /\ f[1][i] = f[part[i]][place[i]]
                /\ \A i, j \in DOMAIN f[1] : i < j =>
                     part[i] < part[j] \/ (part[i] = part[j] /\ place[i] < place[j])
                /\ \A l \in 1..1 : \A p \in DOMAIN f[l] :
                     \E i \in DOMAIN f[1] : part[i] = l /\ place[i] = p
            BY <4>2
          <5>2. StandsAt(f[1], 1, f, part, place)
            BY <4>2, <5>1 DEF StandsAt
          <5> QED
            BY <5>2 DEF PutTogether
      <4> QED
        BY <3>1, <3>2, <4>1, <4>3
    <3>3. CASE k # 0
      <4> DEFINE s == flat[k]
                 t == f[k + 1]
                 all == s \o t
      <4>1. s \in Seq(T) /\ PutTogether(s, k, f) /\ flat[k + 1] = all /\ t \in Seq(T)
        <5>1. (k + 1) - 1 = k /\ k + 1 # 1
          BY <3>3
        <5> QED
          BY <2>5, <2>7, <3>1, <3>3, <5>1
      <4> HIDE DEF s, t
      <4>2. /\ Len(s) \in Nat /\ Len(t) \in Nat
            /\ DOMAIN s = 1..Len(s) /\ DOMAIN t = 1..Len(t) /\ DOMAIN all = 1..(Len(s) + Len(t))
            /\ \A i \in DOMAIN s : i \in DOMAIN all /\ all[i] = s[i]
            /\ \A i \in DOMAIN t : Len(s) + i \in DOMAIN all /\ all[Len(s) + i] = t[i]
            /\ all \in Seq(T)
        BY <4>1
      <4>3. PICK part, place : StandsAt(s, k, f, part, place)
        BY <4>1 DEF PutTogether
      <4> HIDE DEF all
      <4> DEFINE m == Len(s)
                 parts == [i \in DOMAIN all |-> IF i <= m THEN part[i] ELSE k + 1]
                 places == [i \in DOMAIN all |-> IF i <= m THEN place[i] ELSE i - m]
      <4>4. /\ \A i \in DOMAIN s : parts[i] = part[i] /\ places[i] = place[i]
            /\ \A i \in DOMAIN t : parts[m + i] = k + 1 /\ places[m + i] = i
            /\ \A i \in DOMAIN all : i \in DOMAIN s \/ \E j \in DOMAIN t : i = m + j
        <5>1. \A i \in DOMAIN t : m + i \in DOMAIN all /\ ~(m + i <= m) /\ (m + i) - m = i
          BY <4>2
        <5>2. \A i \in DOMAIN s : i \in DOMAIN all /\ i <= m
          BY <4>2
        <5>3. ASSUME NEW i \in DOMAIN all, i \notin DOMAIN s PROVE \E j \in DOMAIN t : i = m + j
          <6>1. i - m \in DOMAIN t /\ i = m + (i - m)
            BY <4>2, <5>3
          <6> QED
            BY <6>1
        <5> HIDE DEF m
        <5> QED
          BY <5>1, <5>2, <5>3
      <4>5. parts \in [DOMAIN all -> 1..(k + 1)] /\ places \in [DOMAIN all -> Nat \ {0}]
        <5>1. \A i \in DOMAIN all : parts[i] \in 1..(k + 1) /\ places[i] \in Nat \ {0}
          <6>1. \A i \in DOMAIN s : part[i] \in 1..(k + 1) /\ place[i] \in Nat \ {0}
            BY <2>7, <4>3 DEF StandsAt
          <6>2. \A i \in DOMAIN t : k + 1 \in 1..(k + 1) /\ i \in Nat \ {0}
            BY <4>2
          <6> HIDE DEF parts, places, m
          <6>3. TAKE i \in DOMAIN all
          <6>4. CASE i \in DOMAIN s
            BY <4>4, <6>1, <6>4
          <6>5. CASE \E j \in DOMAIN t : i = m + j
            <7>1. PICK j \in DOMAIN t : i = m + j
              BY <6>5
            <7> QED
              BY <4>4, <6>2, <7>1
          <6> QED
            BY <4>4, <6>4, <6>5
        <5>2. parts = [i \in DOMAIN all |-> parts[i]] /\ places = [i \in DOMAIN all |-> places[i]]
          OBVIOUS
        <5> HIDE DEF parts, places
        <5> QED
          BY <5>1, <5>2
      <4> HIDE DEF parts, places
      <4>6. ASSUME NEW i \in DOMAIN all
            PROVE  places[i] \in DOMAIN f[parts[i]] /\ all[i] = f[parts[i]][places[i]]
        <5>1. CASE i \in DOMAIN s
          BY <4>2, <4>3, <4>4, <5>1 DEF StandsAt
        <5>2. CASE \E j \in DOMAIN t : i = m + j
          <6>1. PICK j \in DOMAIN t : i = m + j
            BY <5>2
          <6>2. parts[i] = k + 1 /\ places[i] = j
            BY <4>4, <6>1
          <6>3. all[i] = t[j]
            BY <4>2, <6>1
          <6>4. t = f[k + 1]
            BY DEF t
          <6> QED
            BY <6>1, <6>2, <6>3, <6>4
        <5> QED
          BY <4>4, <5>1, <5>2
      <4>7. ASSUME NEW i \in DOMAIN all, NEW j \in DOMAIN all, i < j
            PROVE  parts[i] < parts[j] \/ (parts[i] = parts[j] /\ places[i] < places[j])
        <5>1. CASE j \in DOMAIN s
          <6>1. i \in DOMAIN s
            BY <4>2, <4>7, <5>1
          <6> QED
            BY <4>3, <4>4, <4>7, <5>1, <6>1 DEF StandsAt
        <5>2. CASE i \in DOMAIN s /\ j \notin DOMAIN s
          <6>1. parts[j] = k + 1 /\ parts[i] = part[i] /\ part[i] \in 1..k
            BY <4>3, <4>4, <5>2 DEF StandsAt
          <6> QED
            BY <6>1
        <5>3. CASE i \notin DOMAIN s /\ j \notin DOMAIN s
          <6>1. PICK a \in DOMAIN t : i = m + a
            BY <4>4, <5>3
          <6>2. PICK b \in DOMAIN t : j = m + b
            BY <4>4, <5>3
          <6>3. a < b
            BY <4>2, <4>7, <6>1, <6>2
          <6> QED
            BY <4>4, <6>1, <6>2, <6>3
        <5> QED
          BY <5>1, <5>2, <5>3
      <4>8. ASSUME NEW l \in 1..(k + 1), NEW p \in DOMAIN f[l]
            PROVE  \E i \in DOMAIN all : parts[i] = l /\ places[i] = p
        <5>1. CASE l = k + 1
          <6>1. p \in DOMAIN t
            BY <4>8, <5>1 DEF t
          <6> QED
            BY <4>2, <4>4, <5>1, <6>1
        <5>2. CASE l # k + 1
          <6>1. l \in 1..k
            BY <5>2
          <6>2. PICK i \in DOMAIN s : part[i] = l /\ place[i] = p
            BY <4>3, <4>8, <6>1 DEF StandsAt
          <6> QED
            BY <4>2, <4>4, <6>2
        <5> QED
          BY <5>1, <5>2
      <4>9. PutTogether(all, k + 1, f)
        <5>1. /\ \A i \in DOMAIN all : places[i] \in DOMAIN f[parts[i]] /\ all[i] = f[parts[i]][places[i]]
              /\ \A i, j \in DOMAIN all : i < j =>
                   parts[i] < parts[j] \/ (parts[i] = parts[j] /\ places[i] < places[j])
              /\ \A l \in 1..(k + 1) : \A p \in DOMAIN f[l] :
                   \E i \in DOMAIN all : parts[i] = l /\ places[i] = p
          BY <4>6, <4>7, <4>8
        <5>2. StandsAt(all, k + 1, f, parts, places)
          BY <4>5, <5>1 DEF StandsAt
        <5> QED
          BY <5>2 DEF PutTogether
      <4> QED
        BY <3>1, <4>1, <4>2, <4>9
    <3> QED
      BY <3>2, <3>3
  <2>8. 0..n \subseteq K
    <3> HIDE DEF K
    <3> QED
      BY <2>6, <2>7, CountingUp
  <2>9. n \in K
    <3>1. n \in 0..n
      OBVIOUS
    <3> HIDE DEF K
    <3> QED
      BY <2>8, <3>1
  <2> QED
    BY <1>3, <2>4, <2>9
<1> QED
  BY <1>2, <1>3

\* A table in a grid.
LiesIn(block, rows) == block.grid = rows /\ block.header \in Int /\ block.last \in Int

\* A list of elements of any set is a list.
LEMMA ListsOf ==
  ASSUME NEW T, NEW s \in Seq(T)
  PROVE  /\ IsList(s) /\ Range(s) \subseteq T
         /\ Len(s) \in Nat /\ DOMAIN s = 1..Len(s)
<1>1. Len(s) \in Nat /\ DOMAIN s = 1..Len(s) /\ s = [i \in 1..Len(s) |-> s[i]]
  OBVIOUS
<1>2. \A i \in 1..Len(s) : s[i] \in Range(s)
  BY <1>1 DEF Range
<1>3. s \in [1..Len(s) -> Range(s)]
  BY <1>1, <1>2
<1>4. s \in Seq(Range(s))
  BY <1>1, <1>3
<1>5. Range(s) \subseteq T
  BY <1>1 DEF Range
<1> QED
  BY <1>1, <1>4, <1>5 DEF IsList

\* What the table under a heading spans: every row that fills two of its columns, to
\* a last row that is not blank.
Spans(rows, heading, endsBefore, block) ==
  /\ LiesIn(block, rows)
  /\ block.header = heading
  /\ block.last \in heading + 1..endsBefore - 1
  /\ FilledIn(rows[block.last], block.columns) > 0
  /\ \A r \in heading + 1..endsBefore - 1 :
       FilledIn(rows[r], TableColumns(rows[heading])) >= 2 => r <= block.last

LEMMA BlockSays ==
  ASSUME NEW rows, IsGrid(rows), NEW heading \in DOMAIN rows, NEW endsBefore \in 1..Len(rows) + 1
  PROVE  \/ /\ Block(rows, heading, endsBefore) = <<>>
            /\ \A r \in heading + 1..endsBefore - 1 :
                 ~(FilledIn(rows[r], TableColumns(rows[heading])) >= 2)
         \/ \E block : /\ Block(rows, heading, endsBefore) = <<block>>
                       /\ Spans(rows, heading, endsBefore, block)
<1> DEFINE headed == TableColumns(rows[heading])
           under == heading + 1..endsBefore - 1
           rich == \E r \in under : FilledIn(rows[r], headed) >= 2
           kept == {r \in under : ~IsTailNoise(rows[r], headed, rich)}
           table == [grid |-> rows, header |-> heading, last |-> Max(kept), columns |-> headed]
<1>1. Len(rows) \in Nat /\ DOMAIN rows = 1..Len(rows) /\ heading \in Nat \ {0}
  BY DEF IsGrid, IsList
<1>2. Block(rows, heading, endsBefore) = IF headed = {} \/ kept = {} THEN <<>> ELSE <<table>>
  BY DEF Block
<1>3. \A r : FilledIn(rows[r], headed) \in Nat
  <2>1. rows[heading] \in Seq(Range(rows[heading]))
    BY DEF IsGrid, IsList, Range
  <2>2. Len(rows[heading]) \in Nat /\ DOMAIN rows[heading] = 1..Len(rows[heading])
    BY <2>1
  <2>3. IsFiniteSet(DOMAIN rows[heading])
    BY <2>2, FS_Interval
  <2>4. headed \subseteq DOMAIN rows[heading]
    BY DEF TableColumns
  <2> HIDE DEF headed
  <2>5. TAKE r
  <2>6. {c \in headed : IsFilled(rows[r][c])} \subseteq DOMAIN rows[heading]
    BY <2>4
  <2>7. IsFiniteSet({c \in headed : IsFilled(rows[r][c])})
    BY <2>3, <2>6, FS_Subset
  <2> QED
    BY <2>7, FS_CardinalityType DEF FilledIn
<1>4. \A r : FilledIn(rows[r], {}) = 0
  <2>1. \A r : {c \in {} : IsFilled(rows[r][c])} = {}
    OBVIOUS
  <2> QED
    BY <2>1, FS_EmptySet DEF FilledIn
<1>5. \A r \in under : FilledIn(rows[r], headed) >= 2 => headed # {} /\ r \in kept
  <2>1. ASSUME NEW r \in under, FilledIn(rows[r], headed) >= 2 PROVE headed # {}
    <3>1. ASSUME headed = {} PROVE FALSE
      <4>1. FilledIn(rows[r], headed) = 0
        BY <1>4, <3>1
      <4> HIDE DEF headed, under
      <4> QED
        BY <2>1, <4>1
    <3> QED
      BY <3>1
  <2>2. ASSUME NEW r \in under, FilledIn(rows[r], headed) >= 2 PROVE r \in kept
    <3>1. rich
      BY <2>2
    <3> HIDE DEF headed, rich, under
    <3>2. ~IsTailNoise(rows[r], headed, rich)
      BY <1>3, <2>2 DEF IsTailNoise
    <3> QED
      BY <2>2, <3>2
  <2> QED
    BY <2>1, <2>2
<1>6. CASE headed = {} \/ kept = {}
  <2>1. Block(rows, heading, endsBefore) = <<>>
    BY <1>2, <1>6
  <2>2. \A r \in under : ~(FilledIn(rows[r], headed) >= 2)
    <3> HIDE DEF headed, kept, under
    <3> QED
      BY <1>5, <1>6
  <2> QED
    BY <2>1, <2>2
<1>7. CASE ~(headed = {} \/ kept = {})
  <2>1. Block(rows, heading, endsBefore) = <<table>>
    BY <1>2, <1>7
  <2>2. kept \in SUBSET (1..Len(rows)) /\ kept # {} /\ kept \subseteq under
    <3>1. under \subseteq 1..Len(rows)
      BY <1>1
    <3> HIDE DEF under, headed, rich
    <3> QED
      BY <1>7, <3>1
  <2>3. Max(kept) \in kept /\ \A r \in kept : r <= Max(kept)
    <3> HIDE DEF kept
    <3> QED
      BY <1>1, <2>2, Greatest
  <2>4. FilledIn(rows[Max(kept)], headed) > 0
    <3>1. \A r \in kept : ~IsTailNoise(rows[r], headed, rich)
      OBVIOUS
    <3> HIDE DEF kept, headed, rich
    <3>2. FilledIn(rows[Max(kept)], headed) # 0
      BY <2>3, <3>1 DEF IsTailNoise
    <3>3. FilledIn(rows[Max(kept)], headed) \in Nat
      BY <1>3
    <3> QED
      BY <3>2, <3>3
  <2>5. /\ table.header = heading /\ table.last = Max(kept) /\ table.columns = headed
        /\ table.grid = rows
    <3> HIDE DEF headed, kept
    <3> QED
      OBVIOUS
  <2>6. Spans(rows, heading, endsBefore, table)
    <3>1. table.last \in under
      BY <2>2, <2>3, <2>5
    <3>2. FilledIn(rows[table.last], table.columns) > 0
      BY <2>4, <2>5
    <3>3. \A r \in under : FilledIn(rows[r], headed) >= 2 => r <= table.last
      <4> HIDE DEF under, headed, kept, table
      <4> QED
        BY <1>5, <2>3, <2>5
    <3>4. Max(kept) \in Int
      BY <2>2, <2>3
    <3>5. LiesIn(table, rows)
      <4> HIDE DEF table, kept
      <4> QED
        BY <1>1, <2>5, <3>4 DEF LiesIn
    <3> HIDE DEF table
    <3> QED
      BY <2>5, <3>1, <3>2, <3>3, <3>5 DEF Spans
  <2> HIDE DEF table
  <2> QED
    BY <2>1, <2>6
<1> QED
  BY <1>6, <1>7

\* No row of a customer's table is lost between the tables, and no two tables overlap.
LEMMA TablesSay ==
  ASSUME NEW rows, IsGrid(rows)
  PROVE  /\ IsWhole(rows)
         /\ IsList(FindBlocks(rows))
         /\ \A b \in Range(FindBlocks(rows)) : LiesIn(b, rows)
<1> DEFINE H == HeaderRows(rows)
           m == Cardinality(H)
           starts == InOrder(H)
           ends(k) == IF k < Len(starts) THEN starts[k + 1] ELSE Len(rows) + 1
           f == [k \in DOMAIN starts |-> Block(rows, starts[k], ends(k))]
           blocks == FlattenSeq(f)
<1>1. Len(rows) \in Nat /\ DOMAIN rows = 1..Len(rows)
  BY DEF IsGrid, IsList
<1>2. H \subseteq 1..Len(rows)
  BY <1>1 DEF HeaderRows
<1>3. IsFiniteSet(H) /\ H \subseteq Int
  <2> HIDE DEF H
  <2>1. IsFiniteSet(1..Len(rows)) /\ 1..Len(rows) \subseteq Int
    BY <1>1, FS_Interval
  <2> QED
    BY <1>2, <2>1, FS_Subset
<1>4. /\ m \in Nat
      /\ starts \in [1..m -> H]
      /\ \A x \in H : \E k \in 1..m : starts[k] = x
      /\ \A j, k \in 1..m : j < k => starts[j] < starts[k]
  <2> HIDE DEF H
  <2> QED
    BY <1>3, InOrderSays
<1>5. FindBlocks(rows) = blocks
  BY DEF FindBlocks
<1> HIDE DEF H, m, starts
<1>6. Len(starts) = m /\ DOMAIN starts = 1..m
  BY <1>4, LengthOf
<1>7. \A k \in 1..m : /\ starts[k] \in 1..Len(rows)
                      /\ ends(k) \in 1..Len(rows) + 1
                      /\ k = m => ends(k) = Len(rows) + 1
                      /\ \A l \in 1..m : k < l => ends(k) <= starts[l]
                      /\ k < m => ends(k) = starts[k + 1] /\ ends(k) \in H
  <2>1. TAKE k \in 1..m
  <2>2. starts[k] \in H /\ starts[k] \in 1..Len(rows)
    BY <1>2, <1>4
  <2>3. CASE k < m
    <3>1. k + 1 \in 1..m /\ ends(k) = starts[k + 1]
      BY <1>4, <1>6, <2>3
    <3>2. starts[k + 1] \in H /\ starts[k + 1] \in 1..Len(rows)
      BY <1>2, <1>4, <3>1
    <3>3. ASSUME NEW l \in 1..m, k < l PROVE starts[k + 1] <= starts[l]
      <4>1. starts[l] \in 1..Len(rows)
        BY <1>2, <1>4
      <4>2. k + 1 = l \/ k + 1 < l
        BY <1>4, <3>3
      <4>3. k + 1 < l => starts[k + 1] < starts[l]
        BY <1>4, <3>1
      <4> QED
        BY <1>1, <3>2, <4>1, <4>2, <4>3
    <3> HIDE DEF ends
    <3> QED
      BY <1>1, <1>4, <2>2, <2>3, <3>1, <3>2, <3>3
  <2>4. CASE ~(k < m)
    <3>1. ends(k) = Len(rows) + 1
      BY <1>6, <2>4
    <3>2. ends(k) \in 1..Len(rows) + 1
      BY <1>1, <3>1
    <3>3. \A l \in 1..m : ~(k < l)
      BY <1>4, <2>4
    <3> HIDE DEF ends
    <3> QED
      BY <2>2, <2>4, <3>1, <3>2, <3>3
  <2> QED
    BY <2>3, <2>4
<1> HIDE DEF ends
<1>8. \A k \in 1..m : f[k] = Block(rows, starts[k], ends(k))
  BY <1>6
<1>9. \A k \in 1..m :
        \/ /\ f[k] = <<>>
           /\ \A r \in starts[k] + 1..ends(k) - 1 :
                ~(FilledIn(rows[r], TableColumns(rows[starts[k]])) >= 2)
        \/ \E block : f[k] = <<block>> /\ Spans(rows, starts[k], ends(k), block)
  <2>1. TAKE k \in 1..m
  <2>2. starts[k] \in DOMAIN rows /\ ends(k) \in 1..Len(rows) + 1
    BY <1>1, <1>7
  <2> HIDE DEF f
  <2> QED
    BY <1>8, <2>2, BlockSays
<1> DEFINE T == {f[k][1] : k \in 1..m}
<1>10. f \in [1..m -> Seq(T)]
  <2>1. f = [k \in 1..m |-> f[k]]
    BY <1>6
  <2>2. ASSUME NEW k \in 1..m PROVE f[k] \in Seq(T)
    <3>1. CASE f[k] = <<>>
      <4>1. <<>> \in Seq(T)
        OBVIOUS
      <4> QED
        BY <3>1, <4>1
    <3>2. CASE \E block : f[k] = <<block>>
      <4>1. PICK block : f[k] = <<block>>
        BY <3>2
      <4>2. f[k][1] = block
        BY <4>1
      <4>3. block \in T
        BY <4>2
      <4> HIDE DEF T, f
      <4> QED
        BY <4>1, <4>3
    <3> HIDE DEF f, T
    <3> QED
      BY <1>9, <3>1, <3>2
  <2> HIDE DEF f, T
  <2> QED
    BY <2>1, <2>2
<1> HIDE DEF f, T
<1>11. blocks \in Seq(T) /\ PutTogether(blocks, m, f)
  BY <1>4, <1>10, FlattenSays
<1>12. PICK part, place : StandsAt(blocks, m, f, part, place)
  BY <1>11 DEF PutTogether
<1> HIDE DEF blocks
<1>13. ASSUME NEW i \in DOMAIN blocks
       PROVE  /\ part[i] \in 1..m
              /\ place[i] = 1
              /\ Spans(rows, starts[part[i]], ends(part[i]), blocks[i])
  <2>1. part[i] \in 1..m /\ place[i] \in DOMAIN f[part[i]] /\ blocks[i] = f[part[i]][place[i]]
    BY <1>12 DEF StandsAt
  <2>2. f[part[i]] # <<>>
    BY <2>1
  <2>3. PICK block : f[part[i]] = <<block>> /\ Spans(rows, starts[part[i]], ends(part[i]), block)
    BY <1>9, <2>1, <2>2
  <2>4. place[i] = 1 /\ blocks[i] = block
    BY <2>1, <2>3
  <2> QED
    BY <2>1, <2>3, <2>4
<1>14. ASSUME NEW i \in DOMAIN blocks, NEW j \in DOMAIN blocks, i < j
       PROVE  blocks[i].last < blocks[j].header
  <2>1. part[i] < part[j] \/ (part[i] = part[j] /\ place[i] < place[j])
    BY <1>12, <1>14 DEF StandsAt
  <2>2. part[i] \in 1..m /\ part[j] \in 1..m /\ part[i] < part[j]
    BY <1>13, <2>1
  <2>3. ends(part[i]) <= starts[part[j]] /\ ends(part[i]) \in 1..Len(rows) + 1
        /\ starts[part[i]] \in 1..Len(rows) /\ starts[part[j]] \in 1..Len(rows)
    BY <1>7, <2>2
  <2>4. blocks[i].last \in starts[part[i]] + 1..ends(part[i]) - 1
        /\ blocks[j].header = starts[part[j]]
    BY <1>13 DEF Spans
  <2> QED
    BY <1>1, <2>3, <2>4
<1>15. ASSUME NEW h \in H, NEW r \in h + 1..Len(rows),
              FilledIn(rows[r], TableColumns(rows[h])) >= 2,
              ~ \E next \in H : h < next /\ next <= r
       PROVE  \E b \in Range(blocks) : b.header = h /\ r \in DataRows(b)
  <2>1. PICK k \in 1..m : starts[k] = h
    BY <1>4
  <2>2. h \in 1..Len(rows) /\ r \in Int /\ h < r /\ r <= Len(rows)
    BY <1>1, <1>2
  <2>3. r < ends(k)
    <3>1. CASE k < m
      <4>1. k + 1 \in 1..m /\ k < k + 1
        BY <1>4, <3>1
      <4>2. ends(k) = starts[k + 1] /\ ends(k) \in H /\ starts[k] < starts[k + 1]
        BY <1>4, <1>7, <3>1, <4>1
      <4>3. ends(k) \in 1..Len(rows)
        BY <1>2, <4>2
      <4>4. ~(ends(k) <= r)
        BY <1>15, <2>1, <4>2
      <4> QED
        BY <2>2, <4>3, <4>4
    <3>2. CASE ~(k < m)
      <4>1. k = m
        BY <1>4, <3>2
      <4>2. ends(k) = Len(rows) + 1
        BY <1>7, <4>1
      <4> QED
        BY <1>1, <2>2, <4>2
    <3> QED
      BY <3>1, <3>2
  <2>4. ends(k) \in 1..Len(rows) + 1
    BY <1>7
  <2>5. r \in starts[k] + 1..ends(k) - 1
    BY <1>1, <2>1, <2>2, <2>3, <2>4
  <2>6. PICK block : f[k] = <<block>> /\ Spans(rows, starts[k], ends(k), block)
    BY <1>9, <1>15, <2>1, <2>5
  <2>7. 1 \in DOMAIN f[k] /\ f[k][1] = block
    BY <2>6
  <2>8. PICK i \in DOMAIN blocks : part[i] = k /\ place[i] = 1
    BY <1>12, <2>7 DEF StandsAt
  <2>9. blocks[i] = block
    BY <1>12, <2>7, <2>8 DEF StandsAt
  <2>10. block \in Range(blocks)
    BY <2>9 DEF Range
  <2>11. block.header = h /\ r <= block.last /\ block.last \in starts[k] + 1..ends(k) - 1
    BY <1>15, <2>1, <2>5, <2>6 DEF Spans
  <2>12. block.last \in Int
    BY <2>1, <2>2, <2>4, <2>11
  <2>13. r \in DataRows(block)
    BY <2>2, <2>11, <2>12 DEF DataRows
  <2> QED
    BY <2>10, <2>11, <2>13
<1>16. ASSUME NEW b \in Range(blocks) PROVE FilledIn(rows[b.last], b.columns) > 0
  <2>1. PICK i \in DOMAIN blocks : blocks[i] = b
    BY <1>16 DEF Range
  <2> QED
    BY <1>13, <2>1 DEF Spans
<1> QED
  <2>1. /\ \A i, j \in DOMAIN blocks : i < j => blocks[i].last < blocks[j].header
        /\ \A h \in H : \A r \in h + 1..Len(rows) :
             (/\ FilledIn(rows[r], TableColumns(rows[h])) >= 2
              /\ ~ \E next \in H : h < next /\ next <= r)
             => \E b \in Range(blocks) : b.header = h /\ r \in DataRows(b)
        /\ \A b \in Range(blocks) : FilledIn(rows[b.last], b.columns) > 0
    BY <1>14, <1>15, <1>16
  <2>2. IsWhole(rows)
    BY <1>5, <2>1 DEF IsWhole, H
  <2>3. \A b \in Range(blocks) : LiesIn(b, rows)
    BY <1>13 DEF Range, Spans
  <2>4. IsList(blocks)
    BY <1>11, ListsOf
  <2> QED
    BY <1>5, <2>2, <2>3, <2>4

\* Whatever the grid and however wide the gaps a table may have: its tables follow
\* one another, none ends on an empty row, and a row under a heading that fills two
\* of its columns is in the table of that heading.
THEOREM CutWhole == CuttingSpec => []TablesAreWhole
<1>1. CuttingInit => TablesAreWhole
  <2>1. SUFFICES ASSUME CuttingInit PROVE TablesAreWhole
    OBVIOUS
  <2>2. IsGrid(grid)
    BY <2>1, GridsAreGrids DEF CuttingInit
  <2> QED
    BY <2>2, TablesSay DEF TablesAreWhole
<1>2. TablesAreWhole /\ [FALSE]_grid => TablesAreWhole'
  BY DEF TablesAreWhole
<1> QED
  BY <1>1, <1>2, PTL DEF CuttingSpec

-----------------------------------------------------------------------------
\* The list of items made of the files of an RFQ

\* Lists made of lists.
LEMMA ListSays ==
  ASSUME NEW s, IsList(s)
  PROVE  /\ Len(s) \in Nat /\ DOMAIN s = 1..Len(s)
         /\ \A i \in DOMAIN s : s[i] \in Range(s)
         /\ \A x \in Range(s) : \E i \in DOMAIN s : s[i] = x
  BY DEF IsList, Range

LEMMA MadeAList ==
  ASSUME NEW n \in Nat, NEW f, DOMAIN f = 1..n, f = [i \in 1..n |-> f[i]]
  PROVE  IsList(f) /\ Len(f) = n
<1>1. \A i \in 1..n : f[i] \in Range(f)
  BY DEF Range
<1>2. f \in [1..n -> Range(f)]
  BY <1>1
<1>3. f \in Seq(Range(f)) /\ Len(f) = n
  BY <1>2
<1> QED
  BY <1>3 DEF IsList

LEMMA ListGrows ==
  ASSUME NEW s, IsList(s), NEW x
  PROVE  /\ IsList(Append(s, x)) /\ Range(Append(s, x)) = Range(s) \cup {x}
         /\ DOMAIN Append(s, x) = 1..(Len(s) + 1)
         /\ Append(s, x)[Len(s) + 1] = x
         /\ \A i \in DOMAIN s : Append(s, x)[i] = s[i]
<1> DEFINE T == Range(s) \cup {x}
           t == Append(s, x)
<1>1. s \in Seq(T) /\ x \in T
  BY DEF IsList
<1> HIDE DEF T
<1>2. /\ t \in Seq(T) /\ Len(t) = Len(s) + 1 /\ Len(s) \in Nat
      /\ DOMAIN t = 1..(Len(s) + 1) /\ DOMAIN s = 1..Len(s)
      /\ t[Len(s) + 1] = x /\ \A i \in DOMAIN s : t[i] = s[i]
  BY <1>1
<1> HIDE DEF t
<1>3. IsList(t) /\ Range(t) \subseteq T
  BY <1>2, ListsOf
<1>4. T \subseteq Range(t)
  <2>1. \A i \in DOMAIN s : i \in DOMAIN t /\ t[i] = s[i]
    BY <1>2
  <2>2. Range(s) \subseteq Range(t)
    BY <2>1 DEF Range
  <2>3. Len(s) + 1 \in DOMAIN t
    BY <1>2
  <2>4. x \in Range(t)
    BY <1>2, <2>3 DEF Range
  <2> QED
    BY <2>2, <2>4 DEF T
<1> QED
  BY <1>2, <1>3, <1>4 DEF T, t

LEMMA ListsJoin ==
  ASSUME NEW s, IsList(s), NEW t, IsList(t)
  PROVE  IsList(s \o t)
<1> DEFINE T == Range(s) \cup Range(t)
<1>1. s \in Seq(T) /\ t \in Seq(T)
  BY DEF IsList
<1> HIDE DEF T
<1>2. s \o t \in Seq(T)
  BY <1>1
<1> QED
  BY <1>2, ListsOf

LEMMA ListOfOne == \A x : IsList(<<x>>) /\ Range(<<x>>) = {x}
<1> TAKE x
<1> DEFINE s == <<x>>
<1>1. s \in Seq({x}) /\ DOMAIN s = {1} /\ s[1] = x
  OBVIOUS
<1> HIDE DEF s
<1>2. IsList(s)
  BY <1>1, ListsOf
<1>3. Range(s) = {x}
  BY <1>1 DEF Range
<1> QED
  BY <1>2, <1>3 DEF s

LEMMA ListOfNone == IsList(<<>>) /\ Range(<<>>) = {}
<1>1. <<>> \in Seq({}) /\ DOMAIN <<>> = {}
  OBVIOUS
<1> QED
  BY <1>1, ListsOf DEF Range

LEMMA ListsFlatten ==
  ASSUME NEW n \in Nat, NEW f, DOMAIN f = 1..n, f = [k \in 1..n |-> f[k]],
         \A k \in 1..n : IsList(f[k])
  PROVE  /\ IsList(FlattenSeq(f))
         /\ \A x \in Range(FlattenSeq(f)) : \E k \in 1..n : x \in Range(f[k])
         /\ \A k \in 1..n : Range(f[k]) \subseteq Range(FlattenSeq(f))
<1> DEFINE T == UNION {Range(f[k]) : k \in 1..n}
<1>1. ASSUME NEW k \in 1..n PROVE f[k] \in Seq(T)
  <2>1. f[k] \in Seq(Range(f[k])) /\ Range(f[k]) \subseteq T
    BY DEF IsList
  <2> HIDE DEF T
  <2> QED
    BY <2>1
<1>2. f \in [1..n -> Seq(T)]
  <2> HIDE DEF T
  <2> QED
    BY <1>1
<1>3. FlattenSeq(f) \in Seq(T) /\ PutTogether(FlattenSeq(f), n, f)
  <2> HIDE DEF T
  <2> QED
    BY <1>2, FlattenSays
<1>4. IsList(FlattenSeq(f)) /\ Range(FlattenSeq(f)) \subseteq T
  <2> HIDE DEF T
  <2> QED
    BY <1>3, ListsOf
<1>5. ASSUME NEW k \in 1..n PROVE Range(f[k]) \subseteq Range(FlattenSeq(f))
  <2> DEFINE flat == FlattenSeq(f)
  <2>1. PICK part, place : StandsAt(flat, n, f, part, place)
    BY <1>3 DEF PutTogether
  <2> HIDE DEF flat
  <2>2. ASSUME NEW p \in DOMAIN f[k] PROVE f[k][p] \in Range(flat)
    <3>1. PICK i \in DOMAIN flat : part[i] = k /\ place[i] = p
      BY <2>1 DEF StandsAt
    <3>2. flat[i] = f[k][p]
      BY <2>1, <3>1 DEF StandsAt
    <3> QED
      BY <3>2 DEF Range
  <2>3. Range(f[k]) \subseteq Range(flat)
    BY <2>2 DEF Range
  <2> QED
    BY <2>3 DEF flat
<1> QED
  BY <1>4, <1>5

-----------------------------------------------------------------------------
\* A table read from any row of a grid lies in it, as those do that code recognised.
LEMMA BlockAtSays ==
  ASSUME NEW rows, IsGrid(rows), NEW heading
  PROVE  \/ BlockAt(rows, heading) = <<>>
         \/ \E b : BlockAt(rows, heading) = <<b>> /\ LiesIn(b, rows)
<1> DEFINE later == {h \in HeaderRows(rows) : h > heading}
           ends == {Len(rows) + 1} \cup later
           endsBefore == Min(ends)
<1>1. Len(rows) \in Nat /\ DOMAIN rows = 1..Len(rows)
  BY DEF IsGrid, IsList
<1>2. CASE heading \notin 1..Len(rows) - 1
  BY <1>2 DEF BlockAt
<1>3. CASE heading \in 1..Len(rows) - 1
  <2>1. BlockAt(rows, heading) = Block(rows, heading, endsBefore)
    BY <1>3 DEF BlockAt
  <2>2. heading \in DOMAIN rows
    BY <1>1, <1>3
  <2>3. endsBefore \in 1..Len(rows) + 1
    <3>1. later \subseteq 1..Len(rows)
      BY <1>1 DEF HeaderRows
    <3> HIDE DEF later
    <3>2. ends \in SUBSET (1..(Len(rows) + 1)) /\ ends # {}
      <4>1. 1..Len(rows) \subseteq 1..(Len(rows) + 1) /\ Len(rows) + 1 \in 1..(Len(rows) + 1)
        BY <1>1
      <4> QED
        BY <3>1, <4>1
    <3> HIDE DEF ends
    <3>3. endsBefore \in ends
      <4>1. Len(rows) + 1 \in Nat
        BY <1>1
      <4> QED
        BY <3>2, <4>1, LeastPosition
    <3> QED
      BY <3>2, <3>3
  <2> HIDE DEF endsBefore
  <2>4. \/ Block(rows, heading, endsBefore) = <<>>
        \/ \E b : Block(rows, heading, endsBefore) = <<b>> /\ Spans(rows, heading, endsBefore, b)
    BY <2>2, <2>3, BlockSays
  <2> QED
    BY <2>1, <2>4 DEF Spans
<1> QED
  BY <1>2, <1>3

LEMMA BlocksSay ==
  ASSUME NEW document, IsDocument(document)
  PROVE  /\ IsList(Blocks(document))
         /\ \A b \in Range(Blocks(document)) :
              \E g \in Range(document.grids) : LiesIn(b, g.rows)
<1> DEFINE grids == document.grids
           n == Len(grids)
           guessed(rows) == IF Tabular(rows) THEN BlockAt(rows, 1) ELSE <<>>
           f == [g \in DOMAIN grids |-> FindBlocks(grids[g].rows)]
           h == [g \in DOMAIN grids |-> guessed(grids[g].rows)]
<1>1. n \in Nat /\ DOMAIN grids = 1..n
      /\ \A k \in 1..n : grids[k] \in Range(grids) /\ IsGrid(grids[k].rows)
  <2>1. IsList(grids) /\ \A g \in Range(grids) : IsGrid(g.rows)
    BY DEF IsDocument
  <2> HIDE DEF grids
  <2> QED
    BY <2>1, ListSays
<1> HIDE DEF grids, n
<1>2. /\ IsList(FlattenSeq(f))
      /\ \A b \in Range(FlattenSeq(f)) : \E g \in Range(grids) : LiesIn(b, g.rows)
  <2>1. DOMAIN f = 1..n /\ f = [k \in 1..n |-> f[k]]
        /\ \A k \in 1..n : f[k] = FindBlocks(grids[k].rows)
    BY <1>1
  <2> HIDE DEF f
  <2>2. \A k \in 1..n : IsList(f[k]) /\ \A b \in Range(f[k]) : LiesIn(b, grids[k].rows)
    BY <1>1, <2>1, TablesSay
  <2>3. /\ IsList(FlattenSeq(f))
        /\ \A b \in Range(FlattenSeq(f)) : \E k \in 1..n : b \in Range(f[k])
    BY <1>1, <2>1, <2>2, ListsFlatten
  <2> QED
    BY <1>1, <2>2, <2>3
<1>3. /\ IsList(FlattenSeq(h))
      /\ \A b \in Range(FlattenSeq(h)) : \E g \in Range(grids) : LiesIn(b, g.rows)
  <2>1. DOMAIN h = 1..n /\ h = [k \in 1..n |-> h[k]]
        /\ \A k \in 1..n : h[k] = <<>> \/ h[k] = BlockAt(grids[k].rows, 1)
    BY <1>1
  <2> HIDE DEF h
  <2>2. \A k \in 1..n : IsList(h[k]) /\ \A b \in Range(h[k]) : LiesIn(b, grids[k].rows)
    <3>1. TAKE k \in 1..n
    <3>2. CASE h[k] = <<>>
      BY <3>2, ListOfNone
    <3>3. CASE \E b : h[k] = <<b>> /\ LiesIn(b, grids[k].rows)
      <4>1. PICK b : h[k] = <<b>> /\ LiesIn(b, grids[k].rows)
        BY <3>3
      <4>2. IsList(<<b>>) /\ Range(<<b>>) = {b}
        BY ListOfOne
      <4> QED
        BY <4>1, <4>2
    <3> QED
      BY <1>1, <2>1, <3>2, <3>3, BlockAtSays
  <2>3. /\ IsList(FlattenSeq(h))
        /\ \A b \in Range(FlattenSeq(h)) : \E k \in 1..n : b \in Range(h[k])
    BY <1>1, <2>1, <2>2, ListsFlatten
  <2> QED
    BY <1>1, <2>2, <2>3
<1>4. Blocks(document) = IF FlattenSeq(f) # <<>> THEN FlattenSeq(f) ELSE FlattenSeq(h)
  BY DEF Blocks, grids
<1> HIDE DEF f, h
<1> QED
  BY <1>2, <1>3, <1>4 DEF grids

\* What was copied or transcribed from a file is a list of rows with its name.
RowsOf(rows, name) == IsList(rows) /\ \A row \in Range(rows) : row.file = name

\* Every row of a table that is an item under these columns is among some rows.
CopiesAll(block, columns, cells, rows) ==
  /\ block.grid = cells
  /\ \A r \in DataRows(block) :
       IsItem(ItemAt(cells, r, columns), \E pair \in columns : pair[2] = "quantity")
       => \E row \in Range(rows) : row.row = r /\ row.item = ItemAt(cells, r, columns)

LEMMA CopySays ==
  ASSUME NEW rows, NEW block, LiesIn(block, rows), NEW columns, NEW name, NEW sheet
  PROVE  /\ RowsOf(CopyRows(block, columns, name, sheet), name)
         /\ CopiesAll(block, columns, rows, CopyRows(block, columns, name, sheet))
<1> DEFINE quantified == \E pair \in columns : pair[2] = "quantity"
           S == {r \in DataRows(block) : IsItem(ItemAt(block.grid, r, columns), quantified)}
           kept == InOrder(S)
           n == Cardinality(S)
           f == CopyRows(block, columns, name, sheet)
<1>1. IsFiniteSet(S) /\ S \subseteq Int
  <2>1. IsFiniteSet(DataRows(block)) /\ DataRows(block) \subseteq Int
    <3>1. block.header + 1 \in Int /\ block.last \in Int
      BY DEF LiesIn
    <3> QED
      BY <3>1, FS_Interval DEF DataRows
  <2>2. S \subseteq DataRows(block)
    OBVIOUS
  <2> HIDE DEF S
  <2> QED
    BY <2>1, <2>2, FS_Subset
<1>2. n \in Nat /\ DOMAIN kept = 1..n /\ \A r \in S : \E i \in 1..n : kept[i] = r
  <2> HIDE DEF S
  <2> QED
    BY <1>1, InOrderSays
<1>3. f = [i \in DOMAIN kept |->
             [item |-> ItemAt(block.grid, kept[i], columns),
              file |-> name, sheet |-> sheet, row |-> kept[i]]]
  BY DEF CopyRows
<1>7. ASSUME NEW r \in DataRows(block), IsItem(ItemAt(block.grid, r, columns), quantified)
      PROVE  \E row \in Range(f) : row.row = r /\ row.item = ItemAt(block.grid, r, columns)
  <2>1. r \in S
    BY <1>7
  <2> HIDE DEF S, n, quantified
  <2>2. PICK i \in 1..n : kept[i] = r
    BY <1>2, <2>1
  <2> HIDE DEF kept
  <2>3. f[i].row = r /\ f[i].item = ItemAt(block.grid, r, columns) /\ i \in DOMAIN f
    BY <1>2, <1>3, <2>2
  <2> HIDE DEF f
  <2>4. f[i] \in Range(f)
    BY <2>3 DEF Range
  <2> QED
    BY <2>3, <2>4
<1> HIDE DEF kept, S, n
<1>4. DOMAIN f = 1..n /\ f = [i \in 1..n |-> f[i]] /\ \A i \in 1..n : f[i].file = name
  BY <1>2, <1>3
<1> HIDE DEF f
<1>5. IsList(f)
  BY <1>2, <1>4, MadeAList
<1>6. \A row \in Range(f) : row.file = name
  BY <1>4 DEF Range
<1>8. CopiesAll(block, columns, rows, f)
  <2>1. block.grid = rows
    BY DEF LiesIn
  <2> QED
    BY <1>7, <2>1 DEF CopiesAll
<1> QED
  BY <1>5, <1>6, <1>8 DEF RowsOf, f

LEMMA FromTablesSays ==
  ASSUME NEW document, IsDocument(document), NEW mappings
  PROVE  /\ RowsOf(FromTables(document, mappings).rows, document.name)
         /\ \A k \in DOMAIN Blocks(document) : MappingFor(mappings, k) # <<>> =>
              CopiesAll(Started(Blocks(document)[k], MappingFor(mappings, k)[1]),
                        MappingFor(mappings, k)[1].columns, Blocks(document)[k].grid,
                        FromTables(document, mappings).rows)
<1> DEFINE blocks == Blocks(document)
           n == Len(blocks)
           mine(k) == MappingFor(mappings, k)
           block(k) == Started(blocks[k], mine(k)[1])
           copied(k) == CopyRows(block(k), mine(k)[1].columns, document.name,
                                 GridOf(document, block(k)).sheet)
           from(k) == IF mine(k) = <<>> THEN [rows |-> <<>>, unmapped |-> {}]
                      ELSE [rows |-> copied(k), unmapped |-> Unmapped(block(k), mine(k)[1].columns)]
           f == [k \in DOMAIN blocks |-> from(k).rows]
<1>1. n \in Nat /\ DOMAIN blocks = 1..n
      /\ \A k \in 1..n : \E rows : IsGrid(rows) /\ LiesIn(blocks[k], rows)
  <2>1. /\ IsList(blocks)
        /\ \A b \in Range(blocks) : \E g \in Range(document.grids) : LiesIn(b, g.rows)
    BY BlocksSay
  <2>2. \A g \in Range(document.grids) : IsGrid(g.rows)
    BY DEF IsDocument
  <2> HIDE DEF blocks
  <2> QED
    BY <2>1, <2>2, ListSays
<1>2. FromTables(document, mappings).rows = FlattenSeq(f)
  BY DEF FromTables
<1> HIDE DEF blocks, n
<1>3. ASSUME NEW k \in 1..n
      PROVE  /\ RowsOf(from(k).rows, document.name)
             /\ mine(k) # <<>> =>
                  CopiesAll(block(k), mine(k)[1].columns, blocks[k].grid, from(k).rows)
  <2>1. CASE mine(k) = <<>>
    <3>1. from(k).rows = <<>>
      BY <2>1
    <3> HIDE DEF from, mine
    <3> QED
      BY <2>1, <3>1, ListOfNone DEF RowsOf
  <2>2. CASE mine(k) # <<>>
    <3>1. from(k).rows = copied(k)
      BY <2>2
    <3>2. PICK rows : IsGrid(rows) /\ LiesIn(blocks[k], rows)
      BY <1>1
    <3>3. LiesIn(block(k), rows)
      <4> DEFINE named == BlockAt(blocks[k].grid, mine(k)[1].header)
      <4>1. blocks[k].grid = rows
        BY <3>2 DEF LiesIn
      <4>2. block(k) = IF named = <<>> THEN blocks[k] ELSE named[1]
        BY DEF Started
      <4>3. named = <<>> \/ \E b : named = <<b>> /\ LiesIn(b, rows)
        <5> HIDE DEF mine
        <5> QED
          BY <3>2, <4>1, BlockAtSays
      <4> HIDE DEF block, named
      <4>4. CASE named = <<>>
        BY <3>2, <4>2, <4>4
      <4>5. CASE \E b : named = <<b>> /\ LiesIn(b, rows)
        <5>1. PICK b : named = <<b>> /\ LiesIn(b, rows)
          BY <4>5
        <5>2. named # <<>> /\ named[1] = b
          BY <5>1
        <5> QED
          BY <4>2, <5>1, <5>2
      <4> QED
        BY <4>3, <4>4, <4>5
    <3>4. blocks[k].grid = rows
      BY <3>2 DEF LiesIn
    <3> HIDE DEF block, mine, from
    <3>5. RowsOf(copied(k), document.name)
          /\ CopiesAll(block(k), mine(k)[1].columns, rows, copied(k))
      <4> DEFINE b == block(k)
                 columns == mine(k)[1].columns
                 sheet == GridOf(document, b).sheet
                 rowsOf == CopyRows(b, columns, document.name, sheet)
      <4>2. copied(k) = rowsOf
        OBVIOUS
      <4> HIDE DEF b, columns, sheet, copied
      <4>3. RowsOf(rowsOf, document.name) /\ CopiesAll(b, columns, rows, rowsOf)
        <5>1. LiesIn(b, rows)
          BY <3>3 DEF b
        <5> QED
          BY ONLY <5>1, CopySays
      <4> HIDE DEF rowsOf
      <4> QED
        BY <4>2, <4>3 DEF b, columns
    <3> QED
      BY <3>1, <3>4, <3>5
  <2> QED
    BY <2>1, <2>2
<1> HIDE DEF from
<1>4. DOMAIN f = 1..n /\ f = [k \in 1..n |-> f[k]] /\ \A k \in 1..n : f[k] = from(k).rows
  BY <1>1
<1> HIDE DEF f
<1>5. \A k \in 1..n : IsList(f[k]) /\ \A row \in Range(f[k]) : row.file = document.name
  BY <1>3, <1>4 DEF RowsOf
<1>6. /\ IsList(FlattenSeq(f))
      /\ \A x \in Range(FlattenSeq(f)) : \E k \in 1..n : x \in Range(f[k])
      /\ \A k \in 1..n : Range(f[k]) \subseteq Range(FlattenSeq(f))
  BY <1>1, <1>4, <1>5, ListsFlatten
<1>7. ASSUME NEW k \in 1..n, mine(k) # <<>>
      PROVE  CopiesAll(block(k), mine(k)[1].columns, blocks[k].grid, FlattenSeq(f))
  <2> HIDE DEF mine, block
  <2> QED
    BY <1>3, <1>4, <1>6, <1>7 DEF CopiesAll
<1>8. \A k \in DOMAIN blocks : mine(k) # <<>> =>
        CopiesAll(block(k), mine(k)[1].columns, blocks[k].grid, FromTables(document, mappings).rows)
  <2> HIDE DEF mine, block
  <2> QED
    BY <1>1, <1>2, <1>7
<1> QED
  BY <1>2, <1>5, <1>6, <1>8 DEF RowsOf, blocks

-----------------------------------------------------------------------------
\* A fold stays in a set that each of its steps stays in.
TakesSteps(iter, n, base, next, G) ==
  /\ iter[1..0] = base
  /\ \A k \in 0..n : iter[1..k] \in G
  /\ \A k \in 0..n : k < n => iter[1..(k + 1)] = next[k + 1][iter[1..k]]

FoldsWithin(iter, n, base, next, G) ==
  /\ iter[{}] = base
  /\ \A s \in SUBSET (1..n) : s # {} /\ iter[s \ {Max(s)}] \in G =>
       iter[s] = next[Max(s)][iter[s \ {Max(s)}]]

LEMMA FoldSteps ==
  ASSUME NEW n \in Nat, NEW G, NEW base \in G, NEW next \in [1..n -> [G -> G]],
         NEW iter, FoldsWithin(iter, n, base, next, G)
  PROVE  TakesSteps(iter, n, base, next, G)
<1> DEFINE K == {k \in 0..n : iter[1..k] \in G}
<1>1. 0 \in K
  <2>1. 1..0 = {} /\ 0 \in 0..n
    OBVIOUS
  <2> QED
    BY <2>1 DEF FoldsWithin
<1>2. ASSUME NEW k \in 0..n, k \in K, k < n
      PROVE  k + 1 \in K /\ iter[1..(k + 1)] = next[k + 1][iter[1..k]]
  <2> DEFINE s == 1..(k + 1)
  <2>1. /\ k + 1 \in 1..n /\ k + 1 \in 0..n /\ k + 1 \in Nat
        /\ s \in SUBSET (1..n) /\ s \in SUBSET (1..(k + 1)) /\ k + 1 \in s /\ s \ {k + 1} = 1..k
    BY <1>2
  <2>2. Max(s) = k + 1
    <3> HIDE DEF s, K
    <3> QED
      BY <2>1, TopOf
  <2>3. iter[s] = next[k + 1][iter[1..k]]
    <3>1. iter[1..k] \in G
      BY <1>2
    <3> HIDE DEF s, K
    <3> QED
      BY <2>1, <2>2, <3>1 DEF FoldsWithin
  <2>4. iter[s] \in G
    <3>1. iter[1..k] \in G
      BY <1>2
    <3> HIDE DEF s, K
    <3> QED
      BY <2>1, <2>3, <3>1
  <2> QED
    BY <2>1, <2>3, <2>4
<1>3. 0..n \subseteq K
  <2> HIDE DEF K
  <2> QED
    BY <1>1, <1>2, CountingUp
<1>4. iter[1..0] = base
  <2>1. 1..0 = {}
    OBVIOUS
  <2> QED
    BY <2>1 DEF FoldsWithin
<1>5. \A k \in 0..n : k < n => iter[1..(k + 1)] = next[k + 1][iter[1..k]]
  <2> HIDE DEF K
  <2> QED
    BY <1>2, <1>3
<1> QED
  BY <1>3, <1>4, <1>5 DEF TakesSteps

LEMMA FoldStays ==
  ASSUME NEW n \in Nat, NEW G, NEW base \in G, NEW next \in [1..n -> [G -> G]],
         NEW iter, FoldsWithin(iter, n, base, next, G)
  PROVE  iter[1..n] \in G
<1>1. n \in 0..n
  OBVIOUS
<1>2. TakesSteps(iter, n, base, next, G)
  BY FoldSteps
<1>3. \A k \in 0..n : iter[1..k] \in G
  BY ONLY <1>2 DEF TakesSteps
<1> QED
  BY <1>1, <1>3

\* What a step adds, and none takes away, is there in the end.
StepsAdd(n, G, next, got, add) ==
  \A k \in 1..n : \A d \in G : got[d] \cup add[k] \subseteq got[next[k][d]]

HoldsAll(n, base, last, got, add) ==
  got[base] \subseteq got[last] /\ \A k \in 1..n : add[k] \subseteq got[last]

LEMMA FoldReaches ==
  ASSUME NEW n \in Nat, NEW G, NEW base \in G, NEW next \in [1..n -> [G -> G]],
         NEW iter, FoldsWithin(iter, n, base, next, G), NEW got, NEW add,
         StepsAdd(n, G, next, got, add)
  PROVE  HoldsAll(n, base, iter[1..n], got, add)
<1> DEFINE K == {k \in 0..n : /\ got[base] \subseteq got[iter[1..k]]
                              /\ \A j \in 1..k : add[j] \subseteq got[iter[1..k]]}
<1>1. /\ iter[1..0] = base
      /\ \A k \in 0..n : iter[1..k] \in G
      /\ \A k \in 0..n : k < n => iter[1..(k + 1)] = next[k + 1][iter[1..k]]
  <2>1. TakesSteps(iter, n, base, next, G)
    BY FoldSteps
  <2> QED
    BY ONLY <2>1 DEF TakesSteps
<1>2. 0 \in K
  BY <1>1
<1>3. ASSUME NEW k \in 0..n, k \in K, k < n PROVE k + 1 \in K
  <2> DEFINE d == iter[1..k]
             e == iter[1..(k + 1)]
  <2>1. k + 1 \in 1..n /\ k + 1 \in 0..n
    BY <1>3
  <2>2. d \in G /\ e = next[k + 1][d]
    BY <1>1, <1>3
  <2>3. got[d] \cup add[k + 1] \subseteq got[e]
    <3> HIDE DEF d, e
    <3> QED
      BY <2>1, <2>2 DEF StepsAdd
  <2>4. got[base] \subseteq got[d] /\ \A j \in 1..k : add[j] \subseteq got[d]
    BY <1>3
  <2>5. \A j \in 1..(k + 1) : j \in 1..k \/ j = k + 1
    BY <1>3
  <2>6. got[base] \subseteq got[e] /\ \A j \in 1..(k + 1) : add[j] \subseteq got[e]
    <3> HIDE DEF d, e
    <3> QED
      BY <2>3, <2>4, <2>5
  <2> QED
    BY <2>1, <2>6
<1>4. 0..n \subseteq K
  <2> HIDE DEF K
  <2> QED
    BY <1>2, <1>3, CountingUp
<1>5. n \in 0..n
  OBVIOUS
<1> QED
  BY <1>4, <1>5 DEF HoldsAll

\* The parts of a text, put together page by page.
LEMMA TextPartsSay ==
  ASSUME NEW pieces, IsList(pieces), \A p \in Range(pieces) : p.size \in Nat /\ IsList(p.items)
  PROVE  /\ IsList(TextParts(pieces)) /\ \A p \in Range(TextParts(pieces)) : IsList(p.items)
         /\ pieces = <<>> => TextParts(pieces) = <<>>
<1> DEFINE n == Len(pieces)
           T == UNION {Range(p.items) : p \in Range(pieces)}
           Part == [size : Nat, items : Seq(T)] \cup Range(pieces)
           G == Seq(Part)
           Add(parts, piece) ==
             IF parts # <<>> /\ Last(parts).size + piece.size <= MaxChunk
             THEN Append(Front(parts), [size |-> Last(parts).size + piece.size,
                                        items |-> Last(parts).items \o piece.items])
             ELSE Append(parts, piece)
           base == <<>>
<1>1. n \in Nat /\ DOMAIN pieces = 1..n /\ \A k \in 1..n : pieces[k] \in Range(pieces)
  BY ListSays
<1>2. \A p \in Part : p.size \in Nat /\ p.items \in Seq(T)
  <2>1. ASSUME NEW p \in Range(pieces) PROVE p.size \in Nat /\ p.items \in Seq(T)
    <3>1. p.items \in Seq(Range(p.items)) /\ Range(p.items) \subseteq T
      BY DEF IsList
    <3> HIDE DEF T
    <3> QED
      BY <3>1
  <2> HIDE DEF T
  <2> QED
    BY <2>1
<1>3. base \in G
  OBVIOUS
<1>4. ASSUME NEW parts \in G, NEW k \in 1..n PROVE Add(parts, pieces[k]) \in G
  <2> DEFINE piece == pieces[k]
             whole == [size |-> Last(parts).size + piece.size,
                       items |-> Last(parts).items \o piece.items]
  <2>1. piece \in Part
    BY <1>1
  <2>2. parts # <<>> => Front(parts) \in Seq(Part) /\ Last(parts) \in Part
    <3> HIDE DEF Part
    <3> QED
      BY <1>4 DEF Front, Last
  <2>3. parts # <<>> => whole \in Part
    <3>1. parts # <<>> => /\ Last(parts).size + piece.size \in Nat
                          /\ Last(parts).items \o piece.items \in Seq(T)
      <4> HIDE DEF Part, T, piece
      <4> QED
        BY <1>2, <2>1, <2>2
    <3> HIDE DEF T, piece
    <3> QED
      BY <3>1
  <2>4. Append(parts, piece) \in G /\ (parts # <<>> => Append(Front(parts), whole) \in G)
    <3> HIDE DEF Part, whole, piece
    <3> QED
      BY <1>4, <2>1, <2>2, <2>3
  <2>5. Add(parts, piece) \in {Append(parts, piece), Append(Front(parts), whole)}
        /\ (Add(parts, piece) = Append(parts, piece) \/ parts # <<>>)
    OBVIOUS
  <2> HIDE DEF whole, piece, G, Add
  <2> QED
    BY <2>4, <2>5 DEF piece
<1> DEFINE next == [k \in 1..n |-> [d \in G |-> Add(d, pieces[k])]]
           Folds(g) == g = [s \in SUBSET (1..n) |->
                         IF s = {} THEN base ELSE Add(g[s \ {Max(s)}], pieces[Max(s)])]
           iter == CHOOSE g : Folds(g)
<1>5. next \in [1..n -> [G -> G]]
  <2> HIDE DEF G, base, n, Add
  <2> QED
    BY <1>4
<1>6. PICK g \in [SUBSET (1..n) -> G] : FoldsBy(g, n, base, next)
  <2> HIDE DEF next, G, base, n
  <2> QED
    BY <1>1, <1>3, <1>5, FoldsExist
<1>7. \A s \in SUBSET (1..n) : s # {} => Max(s) \in 1..n /\ s \ {Max(s)} \in SUBSET (1..n)
  <2> HIDE DEF G, base, n
  <2> QED
    BY <1>1, Greatest
<1>8. Folds(g)
  <2>1. ASSUME NEW s \in SUBSET (1..n), s # {}
        PROVE  g[s] = Add(g[s \ {Max(s)}], pieces[Max(s)])
    <3>1. Max(s) \in 1..n /\ g[s \ {Max(s)}] \in G
      BY <1>6, <1>7, <2>1
    <3>2. g[s] = next[Max(s)][g[s \ {Max(s)}]]
      BY <1>6, <2>1 DEF FoldsBy
    <3> HIDE DEF G, base, n, Add
    <3> QED
      BY <3>1, <3>2
  <2>2. g[{}] = base
    BY <1>6 DEF FoldsBy
  <2> HIDE DEF next, G, base, n, Add
  <2> QED
    BY <1>6, <2>1, <2>2
<1>9. Folds(iter)
  <2> HIDE DEF Folds
  <2> QED
    BY <1>8
<1>10. iter[1..n] \in G /\ (1..n = {} => iter[1..n] = base)
  <2> HIDE DEF iter
  <2>1. iter[{}] = base
    <3> HIDE DEF G, base, n, Add, next
    <3> QED
      BY <1>9
  <2>2. ASSUME NEW s \in SUBSET (1..n), s # {}, iter[s \ {Max(s)}] \in G
        PROVE  iter[s] = next[Max(s)][iter[s \ {Max(s)}]]
    <3>1. iter[s] = Add(iter[s \ {Max(s)}], pieces[Max(s)])
      <4> HIDE DEF G, base, n, Add, next
      <4> QED
        BY <1>9, <2>2
    <3>2. Max(s) \in 1..n
      BY <1>7, <2>2
    <3> HIDE DEF G, base, n, Add
    <3> QED
      BY <2>2, <3>1, <3>2
  <2>3. FoldsWithin(iter, n, base, next, G)
    BY <2>1, <2>2 DEF FoldsWithin
  <2> HIDE DEF next, G, base, n
  <2> QED
    BY <1>1, <1>3, <1>5, <2>1, <2>3, FoldStays
<1>11. TextParts(pieces) = iter[1..n]
  BY <1>1 DEF TextParts, FoldLeft, MapThenFoldSet
<1> HIDE DEF G, Part, iter
<1>12. TextParts(pieces) \in Seq(Part)
  BY <1>10, <1>11 DEF G
<1>13. \A p \in Part : IsList(p.items)
  BY <1>2, ListsOf
<1>14. pieces = <<>> => TextParts(pieces) = <<>>
  <2>1. pieces = <<>> => 1..n = {}
    OBVIOUS
  <2> HIDE DEF n
  <2> QED
    BY <1>10, <1>11, <2>1
<1> QED
  BY <1>12, <1>13, <1>14, ListsOf

\* Pictures, so many to a call.
LEMMA SubListSays ==
  ASSUME NEW s, IsList(s), NEW a \in Nat \ {0}, NEW b \in Int, b <= Len(s)
  PROVE  IsList(SubSeq(s, a, b)) /\ Range(SubSeq(s, a, b)) \subseteq Range(s)
<1>1. s \in Seq(Range(s)) /\ Len(s) \in Nat /\ DOMAIN s = 1..Len(s)
  BY DEF IsList
<1> DEFINE f == [i \in 1..1 + b - a |-> s[a + i - 1]]
<1>2. SubSeq(s, a, b) = f
  OBVIOUS
<1>3. ASSUME NEW i \in 1..1 + b - a PROVE s[a + i - 1] \in Range(s)
  <2>1. a + i - 1 \in DOMAIN s
    BY <1>1, <1>3
  <2> QED
    BY <2>1 DEF Range
<1>4. f \in Seq(Range(s))
  <2>1. CASE 1 + b - a \in Nat
    <3> DEFINE n == 1 + b - a
    <3>1. f \in [1..n -> Range(s)]
      BY <1>3
    <3>2. n \in Nat
      BY <2>1
    <3> HIDE DEF f, n
    <3> QED
      BY <3>1, <3>2
  <2>2. CASE 1 + b - a \notin Nat
    <3>1. 1..1 + b - a = 1..0
      BY <2>2
    <3>2. f \in [1..0 -> Range(s)]
      BY <3>1
    <3> HIDE DEF f
    <3> QED
      BY <3>2
  <2> QED
    BY <2>1, <2>2
<1> HIDE DEF f
<1> QED
  BY <1>2, <1>4, ListsOf

LEMMA ImagePartsSay ==
  ASSUME NEW pictures, IsList(pictures), \A p \in Range(pictures) : IsList(p)
  PROVE  /\ IsList(ImageParts(pictures)) /\ \A p \in Range(ImageParts(pictures)) : IsList(p.items)
         /\ pictures = <<>> => Range(ImageParts(pictures)) = {}
<1> DEFINE n == Len(pictures)
           calls == (n + ImagesPerCall - 1) \div ImagesPerCall
           taken(k) == SubSeq(pictures, (k - 1) * ImagesPerCall + 1, Min({k * ImagesPerCall, n}))
           f == [k \in 1..calls |-> [size |-> 0, items |-> FlattenSeq(taken(k))]]
<1>1. n \in Nat /\ ImagesPerCall \in Nat \ {0}
  BY ListSays, CallsTakePictures
<1> HIDE DEF n
<1>2. calls \in Nat
  <2>1. n + ImagesPerCall - 1 \in Nat
    BY <1>1
  <2> DEFINE more == n + ImagesPerCall - 1
  <2>2. \A c \in Nat, d \in Nat \ {0} : c \div d \in Nat
    OBVIOUS
  <2> HIDE DEF more
  <2> QED
    BY <1>1, <2>1, <2>2 DEF more
<1>3. ASSUME NEW k \in 1..calls PROVE IsList(FlattenSeq(taken(k)))
  <2> DEFINE from == (k - 1) * ImagesPerCall
             upto == k * ImagesPerCall
             last == Min({upto, n})
  <2>1. k - 1 \in Nat /\ k \in Nat
    BY <1>2
  <2>2. from \in Nat /\ upto \in Nat
    <3>1. \A c, d \in Nat : c * d \in Nat
      OBVIOUS
    <3> QED
      BY <1>1, <2>1, <3>1
  <2> HIDE DEF from, upto
  <2>3. last \in Int /\ last <= n
    BY <1>1, <2>2, LeastOfTwo
  <2> HIDE DEF last
  <2>4. taken(k) = SubSeq(pictures, from + 1, last)
    BY DEF from, last, upto
  <2>5. from + 1 \in Nat \ {0}
    BY <2>2
  <2>6. IsList(taken(k)) /\ Range(taken(k)) \subseteq Range(pictures)
    BY <2>3, <2>4, <2>5, SubListSays DEF n
  <2> HIDE DEF taken
  <2> DEFINE t == taken(k)
  <2>7. Len(t) \in Nat /\ DOMAIN t = 1..Len(t) /\ \A i \in 1..Len(t) : IsList(t[i])
    BY <2>6, ListSays
  <2>8. t = [i \in 1..Len(t) |-> t[i]]
    <3>1. t \in Seq(Range(t))
      BY <2>6 DEF IsList
    <3> HIDE DEF t
    <3> QED
      BY <3>1
  <2> HIDE DEF t
  <2>9. IsList(FlattenSeq(t))
    BY <2>7, <2>8, ListsFlatten
  <2> QED
    BY <2>9 DEF t
<1>4. ImageParts(pictures) = f
  BY DEF ImageParts, n
<1>5. DOMAIN f = 1..calls /\ f = [k \in 1..calls |-> f[k]] /\ \A k \in 1..calls : IsList(f[k].items)
  <2> HIDE DEF calls, taken
  <2> QED
    BY <1>3
<1>8. pictures = <<>> => calls = 0
  <2>1. \A d \in Nat \ {0} : (0 + d - 1) \div d = 0
    OBVIOUS
  <2>2. pictures = <<>> => n = 0
    BY DEF n
  <2> QED
    BY <1>1, <2>1, <2>2
<1> HIDE DEF calls, f
<1>9. pictures = <<>> => Range(f) = {}
  BY <1>5, <1>8 DEF Range
<1>6. IsList(f)
  BY <1>2, <1>5, MadeAList
<1>7. \A p \in Range(f) : IsList(p.items)
  BY <1>5 DEF Range
<1> QED
  BY <1>4, <1>6, <1>7, <1>9

LEMMA PartsSay ==
  ASSUME NEW document, IsDocument(document)
  PROVE  /\ IsList(Parts(document)) /\ Len(Parts(document)) \in Nat
         /\ \A k \in 1..Len(Parts(document)) : IsList(Parts(document)[k].items)
         /\ document.pieces = <<>> /\ document.pictures = <<>> => Parts(document) = <<>>
<1> DEFINE texts == TextParts(document.pieces)
           images == ImageParts(document.pictures)
           T == Range(texts) \cup Range(images)
<1>1. IsList(texts) /\ \A p \in Range(texts) : IsList(p.items)
  BY TextPartsSay DEF IsDocument
<1>2. IsList(images) /\ \A p \in Range(images) : IsList(p.items)
  BY ImagePartsSay DEF IsDocument
<1>3. Parts(document) = texts \o images
  BY DEF Parts
<1>8. /\ document.pieces = <<>> => texts = <<>>
      /\ document.pictures = <<>> => images = <<>>
  <2>1. document.pieces = <<>> => texts = <<>>
    BY TextPartsSay DEF IsDocument
  <2>2. document.pictures = <<>> => Range(images) = {}
    BY ImagePartsSay DEF IsDocument
  <2>3. Range(images) = {} => images = <<>>
    <3> HIDE DEF images
    <3>1. images \in Seq(Range(images)) /\ DOMAIN images = 1..Len(images) /\ Len(images) \in Nat
      BY <1>2, ListSays DEF IsList
    <3>2. Range(images) = {} => DOMAIN images = {}
      BY DEF Range
    <3>3. Range(images) = {} => Len(images) = 0
      BY <3>1, <3>2
    <3> QED
      BY <3>1, <3>3
  <2> QED
    BY <2>1, <2>2, <2>3
<1>4. texts \in Seq(T) /\ images \in Seq(T)
  <2> HIDE DEF texts, images
  <2> QED
    BY <1>1, <1>2 DEF IsList
<1> HIDE DEF texts, images
<1>5. \A p \in T : IsList(p.items)
  BY <1>1, <1>2
<1> HIDE DEF T
<1>6. Parts(document) \in Seq(T)
  BY <1>3, <1>4
<1> DEFINE parts == Parts(document)
<1> HIDE DEF parts
<1>7. IsList(parts) /\ Len(parts) \in Nat /\ \A k \in 1..Len(parts) : parts[k] \in T
  BY <1>6, ListsOf DEF parts
<1>9. document.pieces = <<>> /\ document.pictures = <<>> => Parts(document) = <<>>
  BY <1>3, <1>8
<1> QED
  BY <1>5, <1>7, <1>9 DEF parts

\* What may be said to be on a part is a list, when the part is one.
LEMMA AnswersSay ==
  ASSUME NEW part, IsList(part.items), NEW before, NEW given \in Answers(part, before)
  PROVE  IsList(given)
<1> DEFINE items == part.items
<1>1. items # <<>> => IsList(Tail(items))
  <2>1. items \in Seq(Range(items))
    BY DEF IsList
  <2> HIDE DEF items
  <2>2. items # <<>> => Tail(items) \in Seq(Range(items))
    BY <2>1
  <2> QED
    BY <2>2, ListsOf
<1>2. IsList(<<Last(before)>> \o items)
  <2>1. IsList(<<Last(before)>>)
    BY ListOfOne
  <2> HIDE DEF items
  <2> QED
    BY <2>1, ListsJoin DEF items
<1>3. \/ given = items \/ given = <<>>
      \/ items # <<>> /\ given = Tail(items)
      \/ given = <<Last(before)>> \o items
  BY DEF Answers
<1> HIDE DEF items
<1> QED
  BY <1>1, <1>2, <1>3, ListOfNone DEF items

\* What was transcribed so far stays a list.
Draft == {"parts", "items", "seen", "warnings"}
SeenShown(d) == \A p \in d.seen : \E i \in Range(d.items) : Plain(i) = p
IsDraft(d) ==
  d = [i \in Draft |-> d[i]] /\ d.parts \in Nat /\ IsList(d.items) /\ SeenShown(d)

LEMMA AddFreshSays ==
  ASSUME NEW transcript, IsDraft(transcript), NEW given, IsList(given)
  PROVE  /\ IsDraft(AddFresh(transcript, given))
         /\ AddFresh(transcript, given).warnings = transcript.warnings
         /\ transcript.seen \subseteq AddFresh(transcript, given).seen
         /\ \A i \in Range(given) : Plain(i) \in AddFresh(transcript, given).seen
<1> DEFINE n == Len(given)
           T == Range(transcript.items) \cup Range(given)
           P == transcript.seen \cup {Plain(i) : i \in Range(given)}
           H == [parts : {transcript.parts}, items : Seq(T), seen : SUBSET P,
                 warnings : {transcript.warnings}]
           G == {d \in H : SeenShown(d)}
           Add(d, item) == IF Plain(item) \in d.seen THEN d
                           ELSE [d EXCEPT !.items = Append(@, item),
                                          !.seen = @ \cup {Plain(item)}]
<1>1. n \in Nat /\ DOMAIN given = 1..n /\ \A k \in 1..n : given[k] \in Range(given)
  BY ListSays
<1>2. transcript \in G
  <2>1. transcript.items \in Seq(T)
    <3>1. transcript.items \in Seq(Range(transcript.items))
      BY DEF IsDraft, IsList
    <3> QED
      BY <3>1
  <2> HIDE DEF T
  <2>2. transcript \in H
    BY <2>1 DEF IsDraft, Draft
  <2> HIDE DEF H
  <2> QED
    BY <2>2 DEF IsDraft
<1>3. ASSUME NEW d \in G, NEW k \in 1..n
      PROVE  Add(d, given[k]) \in G /\ d.seen \cup {Plain(given[k])} \subseteq Add(d, given[k]).seen
  <2> DEFINE item == given[k]
             x == [d EXCEPT !.items = Append(@, item), !.seen = @ \cup {Plain(item)}]
  <2>1. item \in T /\ Plain(item) \in P
    BY <1>1
  <2> HIDE DEF item, T, P
  <2>0. d \in H /\ SeenShown(d)
    <3> HIDE DEF H
    <3> QED
      OBVIOUS
  <2>2. x = [i \in Draft |-> x[i]]
    BY <2>0 DEF Draft
  <2>3. /\ x.parts = d.parts /\ x.items = Append(d.items, item)
        /\ x.seen = d.seen \cup {Plain(item)} /\ x.warnings = d.warnings
    BY <2>0
  <2>4. /\ d.parts \in {transcript.parts} /\ d.items \in Seq(T)
        /\ d.seen \in SUBSET P /\ d.warnings \in {transcript.warnings}
    BY <2>0
  <2> HIDE DEF x
  <2>5. /\ x.parts \in {transcript.parts} /\ x.items \in Seq(T)
        /\ x.seen \in SUBSET P /\ x.warnings \in {transcript.warnings}
    BY <2>1, <2>3, <2>4
  <2>6. x \in H
    BY <2>2, <2>5 DEF Draft
  <2>8. SeenShown(x)
    <3> DEFINE before == d.items
               after == x.items
    <3>1. IsList(before) /\ after = Append(before, item)
      BY <2>3, <2>4, ListsOf
    <3>2. Range(after) = Range(before) \cup {item}
      <4> HIDE DEF before, after
      <4> QED
        BY <3>1, ListGrows
    <3> QED
      BY <2>0, <2>3, <3>2 DEF SeenShown
  <2>9. x \in G
    <3> HIDE DEF H
    <3> QED
      BY <2>6, <2>8
  <2>7. Add(d, item) = IF Plain(item) \in d.seen THEN d ELSE x
    BY DEF x
  <2> HIDE DEF G, Add
  <2> QED
    BY <1>3, <2>3, <2>7, <2>9 DEF item
<1> DEFINE next == [k \in 1..n |-> [d \in G |-> Add(d, given[k])]]
           Folds(g) == g = [s \in SUBSET (1..n) |->
                         IF s = {} THEN transcript ELSE Add(g[s \ {Max(s)}], given[Max(s)])]
           iter == CHOOSE g : Folds(g)
<1>4. next \in [1..n -> [G -> G]]
  <2> HIDE DEF G, n, Add
  <2> QED
    BY <1>3
<1>5. PICK g \in [SUBSET (1..n) -> G] : FoldsBy(g, n, transcript, next)
  <2> HIDE DEF next, G, n
  <2> QED
    BY <1>1, <1>2, <1>4, FoldsExist
<1>6. \A s \in SUBSET (1..n) : s # {} => Max(s) \in 1..n /\ s \ {Max(s)} \in SUBSET (1..n)
  <2> HIDE DEF G, n
  <2> QED
    BY <1>1, Greatest
<1>7. Folds(g)
  <2>1. ASSUME NEW s \in SUBSET (1..n), s # {}
        PROVE  g[s] = Add(g[s \ {Max(s)}], given[Max(s)])
    <3>1. Max(s) \in 1..n /\ g[s \ {Max(s)}] \in G
      BY <1>5, <1>6, <2>1
    <3>2. g[s] = next[Max(s)][g[s \ {Max(s)}]]
      BY <1>5, <2>1 DEF FoldsBy
    <3> HIDE DEF G, n, Add
    <3> QED
      BY <3>1, <3>2
  <2>2. g[{}] = transcript
    BY <1>5 DEF FoldsBy
  <2> HIDE DEF next, G, n, Add
  <2> QED
    BY <1>5, <2>1, <2>2
<1>8. Folds(iter)
  <2> HIDE DEF Folds
  <2> QED
    BY <1>7
<1> DEFINE got == [d \in G |-> d.seen]
           add == [k \in 1..n |-> {Plain(given[k])}]
<1>9. /\ iter[1..n] \in G
      /\ got[transcript] \subseteq got[iter[1..n]]
      /\ \A k \in 1..n : add[k] \subseteq got[iter[1..n]]
  <2> HIDE DEF iter
  <2>1. iter[{}] = transcript
    <3> HIDE DEF G, n, Add, next
    <3> QED
      BY <1>8
  <2>2. ASSUME NEW s \in SUBSET (1..n), s # {}, iter[s \ {Max(s)}] \in G
        PROVE  iter[s] = next[Max(s)][iter[s \ {Max(s)}]]
    <3>1. iter[s] = Add(iter[s \ {Max(s)}], given[Max(s)])
      <4> HIDE DEF G, n, Add, next
      <4> QED
        BY <1>8, <2>2
    <3>2. Max(s) \in 1..n
      BY <1>6, <2>2
    <3> HIDE DEF G, n, Add
    <3> QED
      BY <2>2, <3>1, <3>2
  <2>3. FoldsWithin(iter, n, transcript, next, G)
    BY <2>1, <2>2 DEF FoldsWithin
  <2>4. ASSUME NEW k \in 1..n, NEW d \in G
        PROVE  got[d] \cup add[k] \subseteq got[next[k][d]]
    <3>1. /\ next[k][d] = Add(d, given[k]) /\ Add(d, given[k]) \in G
          /\ d.seen \cup {Plain(given[k])} \subseteq Add(d, given[k]).seen
      <4> HIDE DEF G, n, Add
      <4> QED
        BY <1>3
    <3> HIDE DEF G, n, Add, next
    <3> QED
      BY <3>1
  <2> HIDE DEF next, G, n, got, add
  <2>5. n \in Nat /\ transcript \in G /\ next \in [1..n -> [G -> G]]
    BY <1>1, <1>2, <1>4
  <2>6. iter[1..n] \in G
    BY ONLY <2>3, <2>5, FoldStays
  <2>7. StepsAdd(n, G, next, got, add)
    BY <2>4 DEF StepsAdd
  <2>8. HoldsAll(n, transcript, iter[1..n], got, add)
    BY ONLY <2>3, <2>5, <2>7, FoldReaches
  <2> QED
    BY <2>6, <2>8 DEF HoldsAll
<1>10. AddFresh(transcript, given) = iter[1..n]
  BY <1>1 DEF AddFresh, FoldLeft, MapThenFoldSet
<1> HIDE DEF iter
<1> DEFINE all == AddFresh(transcript, given)
<1>11. /\ all \in G /\ transcript.seen \subseteq all.seen
       /\ \A k \in 1..n : Plain(given[k]) \in all.seen
  <2> HIDE DEF G
  <2> QED
    BY <1>2, <1>9, <1>10 DEF all
<1> HIDE DEF all, got, add
<1>12. /\ all = [i \in Draft |-> all[i]] /\ all.items \in Seq(T)
       /\ all.parts = transcript.parts /\ all.warnings = transcript.warnings
       /\ SeenShown(all)
  <2>1. all \in H /\ SeenShown(all)
    <3> HIDE DEF H
    <3> QED
      BY <1>11
  <2> HIDE DEF T, P
  <2> QED
    BY <2>1 DEF Draft
<1>13. IsList(all.items)
  <2> HIDE DEF T
  <2> QED
    BY <1>12, ListsOf
<1>14. \A i \in Range(given) : Plain(i) \in all.seen
  BY <1>1, <1>11 DEF Range
<1> QED
  BY <1>11, <1>12, <1>13, <1>14 DEF IsDraft, all

-----------------------------------------------------------------------------
\* One list of many.  What is written of a row among `quantities`:
WrittenDown(row) == [article |-> Article(row), file |-> FileOf(row), quantity |-> row.item.quantity]

\* One row of two that read the same is left out unless they are of one file, the
\* first row of an article is written down, and a row that differs from it in
\* quantity and in file is among the conflicts.
KeptOnce(m) ==
  /\ \A r \in Range(m.rows) : Plain(r.item) \in m.seen
  /\ \A p \in m.seen : \E r \in Range(m.rows) : Plain(r.item) = p
  /\ \A r, s \in Range(m.rows) : Plain(r.item) = Plain(s.item) => r.file = s.file
  /\ \A q \in m.quantities : \E r \in Range(m.rows) : q = WrittenDown(r)
  /\ \A r \in Range(m.rows) :
       /\ \E q \in m.quantities : q.article = Article(r)
       /\ \A q \in m.quantities : q.article = Article(r) =>
            r \in m.conflicts \/ q.file = FileOf(r) \/ q.quantity = r.item.quantity

LEMMA WrittenSays ==
  \A row : /\ WrittenDown(row).article = Article(row)
           /\ WrittenDown(row).file = FileOf(row)
           /\ WrittenDown(row).quantity = row.item.quantity
  BY DEF WrittenDown

\* One row more, from a file whose earlier rows are the only ones it may repeat.
RepeatsItsFile(m, row) ==
  \A r \in Range(m.rows) : Plain(r.item) = Plain(row.item) => r.file = row.file

RowAdded(m, row, more) ==
  /\ more.rows = Append(m.rows, row)
  /\ more.seen = m.seen \cup {Plain(row.item)}
  /\ more.conflicts = m.conflicts \cup (IF Conflict(row, m.quantities) THEN {row} ELSE {})
  /\ more.quantities = Note(row, m.quantities)

LEMMA RowIsKept ==
  ASSUME NEW m, NEW row, NEW more, KeptOnce(m), IsList(m.rows), RowAdded(m, row, more),
         RepeatsItsFile(m, row)
  PROVE  KeptOnce(more)
<1>0. /\ more.rows = Append(m.rows, row)
      /\ more.seen = m.seen \cup {Plain(row.item)}
      /\ more.conflicts = m.conflicts \cup (IF Conflict(row, m.quantities) THEN {row} ELSE {})
      /\ more.quantities = Note(row, m.quantities)
  BY DEF RowAdded
<1>1. Range(more.rows) = Range(m.rows) \cup {row}
  BY <1>0, ListGrows
<1>2. /\ m.quantities \subseteq more.quantities
      /\ \A q \in more.quantities : q \in m.quantities \/ q = WrittenDown(row)
      /\ \A q \in more.quantities : q \notin m.quantities =>
           ~ \E p \in m.quantities : p.article = Article(row)
      /\ \E q \in more.quantities : q.article = Article(row)
  <2>1. CASE \E q \in m.quantities : q.article = Article(row)
    <3>1. more.quantities = m.quantities
      BY <1>0, <2>1 DEF Note
    <3> QED
      BY <2>1, <3>1
  <2>2. CASE ~ \E q \in m.quantities : q.article = Article(row)
    <3>1. more.quantities = m.quantities \cup {WrittenDown(row)}
      BY <1>0, <2>2 DEF Note, WrittenDown
    <3> QED
      BY <2>2, <3>1, WrittenSays
  <2> QED
    BY <2>1, <2>2
<1>3. \A r \in Range(more.rows) : Plain(r.item) \in more.seen
  BY <1>0, <1>1 DEF KeptOnce
<1>7. \A p \in more.seen : \E r \in Range(more.rows) : Plain(r.item) = p
  BY <1>0, <1>1 DEF KeptOnce
<1>4. \A r, s \in Range(more.rows) : Plain(r.item) = Plain(s.item) => r.file = s.file
  BY <1>0, <1>1 DEF KeptOnce, RepeatsItsFile
<1>5. \A q \in more.quantities : \E r \in Range(more.rows) : q = WrittenDown(r)
  BY <1>1, <1>2 DEF KeptOnce
<1>6. ASSUME NEW r \in Range(more.rows)
      PROVE  /\ \E q \in more.quantities : q.article = Article(r)
             /\ \A q \in more.quantities : q.article = Article(r) =>
                  r \in more.conflicts \/ q.file = FileOf(r) \/ q.quantity = r.item.quantity
  <2>1. CASE r \in Range(m.rows)
    <3>1. PICK p \in m.quantities : p.article = Article(r)
      BY <2>1 DEF KeptOnce
    <3>2. p \in more.quantities
      BY <1>2
    <3>3. ASSUME NEW q \in more.quantities, q.article = Article(r)
          PROVE  r \in more.conflicts \/ q.file = FileOf(r) \/ q.quantity = r.item.quantity
      <4>1. q \in m.quantities
        <5>1. ASSUME q \notin m.quantities PROVE FALSE
          <6>1. q = WrittenDown(row) /\ ~ \E o \in m.quantities : o.article = Article(row)
            BY <1>2, <5>1
          <6>2. Article(r) = Article(row)
            BY <3>3, <6>1, WrittenSays
          <6> QED
            BY <3>1, <6>1, <6>2
        <5> QED
          BY <5>1
      <4>2. r \in m.conflicts \/ q.file = FileOf(r) \/ q.quantity = r.item.quantity
        BY <2>1, <3>3, <4>1 DEF KeptOnce
      <4> QED
        BY <1>0, <4>2
    <3> QED
      BY <3>1, <3>2, <3>3
  <2>2. CASE r = row
    <3>1. ASSUME NEW q \in more.quantities, q.article = Article(row)
          PROVE  row \in more.conflicts \/ q.file = FileOf(row) \/ q.quantity = row.item.quantity
      <4>1. CASE q \in m.quantities
        <5>1. CASE Conflict(row, m.quantities)
          BY <1>0, <5>1
        <5>2. CASE ~Conflict(row, m.quantities)
          BY <3>1, <4>1, <5>2 DEF Conflict
        <5> QED
          BY <5>1, <5>2
      <4>2. CASE q \notin m.quantities
        <5>1. q = WrittenDown(row)
          BY <1>2, <4>2
        <5> QED
          BY <5>1, WrittenSays
      <4> QED
        BY <4>1, <4>2
    <3> QED
      BY <1>2, <2>2, <3>1
  <2> QED
    BY <1>1, <2>1, <2>2
<1> QED
  BY <1>3, <1>4, <1>5, <1>6, <1>7 DEF KeptOnce

\* Two rows of one article that differ in file and in quantity: one of them, or
\* another of the article, is among the conflicts.
LEMMA RevisionsFollow ==
  ASSUME NEW m, KeptOnce(m), NEW r \in Range(m.rows), NEW s \in Range(m.rows),
         Disagree(r, s), UpToHash(r.file) # UpToHash(s.file)
  PROVE  \E row \in m.conflicts : SameArticle(row, r)
<1> SUFFICES ASSUME r \notin m.conflicts, s \notin m.conflicts PROVE FALSE
  BY DEF Disagree, SameArticle
<1>1. Article(r) = Article(s) /\ r.item.quantity # s.item.quantity
  BY DEF Disagree, SameArticle, Article
<1>2. PICK q \in m.quantities : q.article = Article(r)
  BY DEF KeptOnce
<1>3. PICK first \in Range(m.rows) : q = WrittenDown(first)
  BY DEF KeptOnce
<1>4. /\ q.file = FileOf(first) /\ q.quantity = first.item.quantity
      /\ Article(first) = Article(r)
  BY <1>2, <1>3, WrittenSays
<1>5. \A a, b : FileOf(a) = FileOf(b) => UpToHash(a.file) = UpToHash(b.file)
  BY DEF FileOf
<1>6. \A a, b : Article(a) = Article(b) /\ a.item.quantity = b.item.quantity
                  => Plain(a.item) = Plain(b.item)
  BY DEF Article, Plain
<1>7. q.file = FileOf(r) \/ q.quantity = r.item.quantity
  BY <1>2 DEF KeptOnce
<1>8. q.file = FileOf(s) \/ q.quantity = s.item.quantity
  BY <1>1, <1>2 DEF KeptOnce
<1>9. q.quantity = r.item.quantity => first.file = r.file
  <2>1. q.quantity = r.item.quantity => Plain(first.item) = Plain(r.item)
    BY <1>4, <1>6
  <2> QED
    BY <1>3, <2>1 DEF KeptOnce
<1>10. q.quantity = s.item.quantity => first.file = s.file
  <2>1. q.quantity = s.item.quantity => Plain(first.item) = Plain(s.item)
    BY <1>1, <1>4, <1>6
  <2> QED
    BY <1>3, <2>1 DEF KeptOnce
<1>11. /\ q.file = FileOf(r) => UpToHash(first.file) = UpToHash(r.file)
       /\ q.file = FileOf(s) => UpToHash(first.file) = UpToHash(s.file)
  BY <1>4, <1>5
<1> QED
  BY <1>1, <1>7, <1>8, <1>9, <1>10, <1>11

\* Merged lists of rows of R with warnings of W.
MergedOf(R, W) ==
  [rows : Seq(R), seen : SUBSET {Plain(r.item) : r \in R},
   quantities : SUBSET {WrittenDown(r) : r \in R}, conflicts : SUBSET R, warnings : SUBSET W]

ListedOnce(R, W) == {m \in MergedOf(R, W) : KeptOnce(m)}

Merging == {"rows", "seen", "quantities", "conflicts", "warnings"}

MergedFields(m, R, W) ==
  /\ m = [i \in Merging |-> m[i]]
  /\ m.rows \in Seq(R) /\ m.seen \in SUBSET {Plain(r.item) : r \in R}
  /\ m.quantities \in SUBSET {WrittenDown(r) : r \in R}
  /\ m.conflicts \in SUBSET R /\ m.warnings \in SUBSET W

LEMMA MergedParts ==
  ASSUME NEW R, NEW W, NEW m
  PROVE  m \in MergedOf(R, W) <=> MergedFields(m, R, W)
<1> DEFINE P == {Plain(r.item) : r \in R}
           Q == {WrittenDown(r) : r \in R}
           G == [rows : Seq(R), seen : SUBSET P, quantities : SUBSET Q, conflicts : SUBSET R,
                 warnings : SUBSET W]
<1>1. MergedOf(R, W) = G
  BY DEF MergedOf
<1>2. m \in G <=>
        /\ m = [i \in Merging |-> m[i]]
        /\ m.rows \in Seq(R) /\ m.seen \in SUBSET P /\ m.quantities \in SUBSET Q
        /\ m.conflicts \in SUBSET R /\ m.warnings \in SUBSET W
  <2> HIDE DEF P, Q
  <2> QED
    BY DEF Merging
<1> QED
  BY <1>1, <1>2 DEF MergedFields

\* The same list with other warnings.
Reworded(m, w, x) == x = [m EXCEPT !.warnings = w]

LEMMA OtherWarnings ==
  ASSUME NEW R, NEW W, NEW m \in ListedOnce(R, W), NEW w \in SUBSET W,
         NEW x, Reworded(m, w, x)
  PROVE  x \in ListedOnce(R, W) /\ x.seen = m.seen /\ x.rows = m.rows /\ x.warnings = w
<1>1. /\ m = [i \in Merging |-> m[i]] /\ KeptOnce(m)
      /\ m.rows \in Seq(R) /\ m.seen \in SUBSET {Plain(r.item) : r \in R}
      /\ m.quantities \in SUBSET {WrittenDown(r) : r \in R}
      /\ m.conflicts \in SUBSET R /\ m.warnings \in SUBSET W
  BY MergedParts DEF ListedOnce, MergedFields
<1>2. /\ x = [i \in Merging |-> x[i]]
      /\ x.rows = m.rows /\ x.seen = m.seen /\ x.quantities = m.quantities
      /\ x.conflicts = m.conflicts /\ x.warnings = w
  BY <1>1 DEF Merging, Reworded
<1>3. KeptOnce(x)
  BY <1>1, <1>2 DEF KeptOnce
<1>4. x \in MergedOf(R, W)
  <2>1. MergedFields(x, R, W)
    BY <1>1, <1>2 DEF MergedFields
  <2> QED
    BY <2>1, MergedParts
<1> QED
  BY <1>2, <1>3, <1>4 DEF ListedOnce

\* What one source more leaves and adds: what was on the list stays on it, and a row
\* of the source is on it too, unless it was there before.
SourceIsIn(m, source, x, name) ==
  /\ Range(m.rows) \subseteq Range(x.rows)
  /\ m.warnings \cup source.warnings \subseteq x.warnings
  /\ \A row \in Range(source.rows) : row \in Range(x.rows) \/ Plain(row.item) \in m.seen
  /\ \A row \in Range(x.rows) : row \in Range(m.rows) \/ row.file = name

\* One source more.
LEMMA SourceIsKept ==
  ASSUME NEW R, NEW W, NEW m \in ListedOnce(R, W), NEW source, NEW name,
         RowsOf(source.rows, name), Range(source.rows) \subseteq R,
         source.warnings \subseteq W, "same items attached twice" \in W
  PROVE  /\ MergeSource(m, source) \in ListedOnce(R, W)
         /\ SourceIsIn(m, source, MergeSource(m, source), name)
<1> DEFINE rows == source.rows
           n == Len(rows)
           w == m.warnings \cup source.warnings
           base == [m EXCEPT !.warnings = w]
           Within(d) ==
             /\ d.warnings = w
             /\ \A r \in Range(d.rows) :
                  \/ r \in Range(m.rows) /\ Plain(r.item) \in m.seen
                  \/ r.file = name
           G == {d \in ListedOnce(R, W) : Within(d)}
           noted(d, row) == d.conflicts \cup (IF Conflict(row, d.quantities) THEN {row} ELSE {})
           Add(one, row) ==
             IF Plain(row.item) \in m.seen THEN one
             ELSE [one EXCEPT !.rows = Append(@, row),
                              !.seen = @ \cup {Plain(row.item)},
                              !.conflicts = @ \cup (IF Conflict(row, one.quantities)
                                                    THEN {row} ELSE {}),
                              !.quantities = Note(row, @)]
<1>1. /\ n \in Nat /\ DOMAIN rows = 1..n
      /\ \A k \in 1..n : rows[k] \in R /\ rows[k].file = name
  <2>1. IsList(rows) /\ Range(rows) \subseteq R /\ \A row \in Range(rows) : row.file = name
    BY DEF RowsOf
  <2> HIDE DEF rows
  <2> QED
    BY <2>1, ListSays
<1>2. w \in SUBSET W
  BY MergedParts DEF ListedOnce, MergedFields
<1>3. base \in G
  <2>1. base \in ListedOnce(R, W) /\ base.rows = m.rows /\ base.warnings = w
    <3>1. Reworded(m, w, base)
      BY DEF Reworded
    <3>2. m \in ListedOnce(R, W)
      OBVIOUS
    <3> HIDE DEF w, base, rows, n, Within, G, noted, Add
    <3>3. /\ base \in ListedOnce(R, W) /\ base.seen = m.seen /\ base.rows = m.rows
          /\ base.warnings = w
      BY ONLY <1>2, <3>1, <3>2, OtherWarnings
    <3> QED
      BY <3>3
  <2>2. \A r \in Range(m.rows) : Plain(r.item) \in m.seen
    BY DEF ListedOnce, KeptOnce
  <2> HIDE DEF base
  <2> QED
    BY <2>1, <2>2
<1> HIDE DEF w, rows, n
<1> DEFINE added(k) == IF Plain(rows[k].item) \in m.seen THEN {} ELSE {rows[k]}
<1>4. ASSUME NEW d \in G, NEW k \in 1..n
      PROVE  /\ Add(d, rows[k]) \in G
             /\ Range(d.rows) \cup added(k) \subseteq Range(Add(d, rows[k]).rows)
  <2> DEFINE row == rows[k]
             x == [d EXCEPT !.rows = Append(@, row),
                            !.seen = @ \cup {Plain(row.item)},
                            !.conflicts = @ \cup (IF Conflict(row, d.quantities)
                                                  THEN {row} ELSE {}),
                            !.quantities = Note(row, @)]
  <2>1. row \in R /\ row.file = name
    BY <1>1
  <2> HIDE DEF row
  <2>2. /\ d = [i \in Merging |-> d[i]] /\ KeptOnce(d)
        /\ d.rows \in Seq(R) /\ d.seen \in SUBSET {Plain(r.item) : r \in R}
        /\ d.quantities \in SUBSET {WrittenDown(r) : r \in R}
        /\ d.conflicts \in SUBSET R /\ d.warnings \in SUBSET W
        /\ Within(d)
    <3>1. d \in ListedOnce(R, W) /\ Within(d)
      <4> HIDE DEF Within
      <4> QED
        BY <1>4
    <3>2. d \in MergedOf(R, W) /\ KeptOnce(d)
      BY <3>1 DEF ListedOnce
    <3>3. MergedFields(d, R, W)
      BY <3>2, MergedParts
    <3> HIDE DEF Within
    <3> QED
      BY <3>1, <3>2, <3>3 DEF MergedFields
  <2>3. CASE Plain(row.item) \in m.seen
    BY <1>4, <2>3 DEF row
  <2>4. CASE Plain(row.item) \notin m.seen
    <3>1. x = [i \in Merging |-> x[i]]
      BY <2>2 DEF Merging
    <3>2. /\ x.rows = Append(d.rows, row)
          /\ x.seen = d.seen \cup {Plain(row.item)}
          /\ x.conflicts = noted(d, row)
          /\ x.quantities = Note(row, d.quantities)
          /\ x.warnings = d.warnings
      BY <2>2 DEF Merging
    <3> HIDE DEF x
    <3>3. IsList(d.rows)
      BY <2>2, ListsOf
    <3>4. RepeatsItsFile(d, row)
      BY <2>1, <2>2, <2>4 DEF RepeatsItsFile
    <3>5. KeptOnce(x)
      <4>1. RowAdded(d, row, x)
        BY <3>2 DEF RowAdded
      <4>2. KeptOnce(d)
        BY <2>2
      <4> HIDE DEF G, Add, Within, noted, base
      <4> QED
        BY ONLY <3>3, <3>4, <4>1, <4>2, RowIsKept
    <3>6. x.rows \in Seq(R)
      <4>1. d.rows \in Seq(R) /\ row \in R /\ x.rows = Append(d.rows, row)
        BY <2>1, <2>2, <3>2
      <4> QED
        BY ONLY <4>1
    <3>7. x.seen \in SUBSET {Plain(r.item) : r \in R} /\ x.conflicts \in SUBSET R
      BY <2>1, <2>2, <3>2
    <3>8. x.quantities \in SUBSET {WrittenDown(r) : r \in R}
      <4>1. x.quantities = d.quantities \/ x.quantities = d.quantities \cup {WrittenDown(row)}
        BY <3>2 DEF Note, WrittenDown
      <4> QED
        BY <2>1, <2>2, <4>1
    <3>9. x \in MergedOf(R, W)
      <4>1. MergedFields(x, R, W)
        BY <2>2, <3>1, <3>2, <3>6, <3>7, <3>8 DEF MergedFields
      <4> QED
        BY <4>1, MergedParts
    <3>10. Within(x)
      <4>1. Range(x.rows) = Range(d.rows) \cup {row}
        <5> DEFINE before == d.rows
        <5>1. IsList(before) /\ x.rows = Append(before, row)
          BY <3>2, <3>3
        <5> HIDE DEF before, G, Add, Within, noted, base
        <5>2. Range(Append(before, row)) = Range(before) \cup {row}
          BY <5>1, ListGrows
        <5> QED
          BY <5>1, <5>2 DEF before
      <4>2. \A r \in Range(x.rows) : r \in Range(d.rows) \/ r.file = name
        BY <2>1, <4>1
      <4>3. x.warnings = w
        BY <2>2, <3>2
      <4> QED
        BY <2>2, <4>2, <4>3
    <3>13. Range(x.rows) = Range(d.rows) \cup {row}
      <4> DEFINE before == d.rows
      <4>1. IsList(before) /\ x.rows = Append(before, row)
        BY <3>2, <3>3
      <4> HIDE DEF before, G, Add, Within, noted, base
      <4>2. Range(Append(before, row)) = Range(before) \cup {row}
        BY <4>1, ListGrows
      <4> QED
        BY <4>1, <4>2 DEF before
    <3>11. x \in G
      <4> HIDE DEF Within
      <4> QED
        BY <3>5, <3>9, <3>10 DEF ListedOnce
    <3>12. Add(d, row) = x
      BY <2>4 DEF x
    <3> HIDE DEF Add, G
    <3> QED
      BY <3>11, <3>12, <3>13 DEF row
  <2> QED
    BY <2>3, <2>4
<1> HIDE DEF added
<1> DEFINE all == FoldLeft(Add, base, rows)
<1> DEFINE next == [k \in 1..n |-> [d \in G |-> Add(d, rows[k])]]
           Folds(g) == g = [s \in SUBSET (1..n) |->
                         IF s = {} THEN base ELSE Add(g[s \ {Max(s)}], rows[Max(s)])]
           iter == CHOOSE g : Folds(g)
<1>5. next \in [1..n -> [G -> G]]
  <2> HIDE DEF G, base, n, Add
  <2> QED
    BY <1>4
<1>6. PICK g \in [SUBSET (1..n) -> G] : FoldsBy(g, n, base, next)
  <2> HIDE DEF next, G, base, n
  <2> QED
    BY <1>1, <1>3, <1>5, FoldsExist
<1>7. \A s \in SUBSET (1..n) : s # {} => Max(s) \in 1..n /\ s \ {Max(s)} \in SUBSET (1..n)
  <2> HIDE DEF G, base, n
  <2> QED
    BY <1>1, Greatest
<1>8. Folds(g)
  <2>1. ASSUME NEW s \in SUBSET (1..n), s # {}
        PROVE  g[s] = Add(g[s \ {Max(s)}], rows[Max(s)])
    <3>1. Max(s) \in 1..n /\ g[s \ {Max(s)}] \in G
      BY <1>6, <1>7, <2>1
    <3>2. g[s] = next[Max(s)][g[s \ {Max(s)}]]
      BY <1>6, <2>1 DEF FoldsBy
    <3> HIDE DEF G, base, n, Add
    <3> QED
      BY <3>1, <3>2
  <2>2. g[{}] = base
    BY <1>6 DEF FoldsBy
  <2> HIDE DEF next, G, base, n, Add
  <2> QED
    BY <1>6, <2>1, <2>2
<1>9. Folds(iter)
  <2> HIDE DEF Folds
  <2> QED
    BY <1>8
<1> DEFINE got == [d \in G |-> Range(d.rows)]
           add == [k \in 1..n |-> added(k)]
<1>10. /\ iter[1..n] \in G
       /\ got[base] \subseteq got[iter[1..n]]
       /\ \A k \in 1..n : add[k] \subseteq got[iter[1..n]]
  <2> HIDE DEF iter
  <2>1. iter[{}] = base
    <3> HIDE DEF G, base, n, Add, next
    <3> QED
      BY <1>9
  <2>2. ASSUME NEW s \in SUBSET (1..n), s # {}, iter[s \ {Max(s)}] \in G
        PROVE  iter[s] = next[Max(s)][iter[s \ {Max(s)}]]
    <3>1. iter[s] = Add(iter[s \ {Max(s)}], rows[Max(s)])
      <4> HIDE DEF G, base, n, Add, next
      <4> QED
        BY <1>9, <2>2
    <3>2. Max(s) \in 1..n
      BY <1>7, <2>2
    <3> HIDE DEF G, base, n, Add
    <3> QED
      BY <2>2, <3>1, <3>2
  <2>3. FoldsWithin(iter, n, base, next, G)
    BY <2>1, <2>2 DEF FoldsWithin
  <2>4. ASSUME NEW k \in 1..n, NEW d \in G
        PROVE  got[d] \cup add[k] \subseteq got[next[k][d]]
    <3>1. /\ next[k][d] = Add(d, rows[k]) /\ Add(d, rows[k]) \in G
          /\ Range(d.rows) \cup added(k) \subseteq Range(Add(d, rows[k]).rows)
      <4> HIDE DEF G, n, Add, base
      <4> QED
        BY <1>4
    <3> HIDE DEF G, n, Add, next, base
    <3> QED
      BY <3>1
  <2> HIDE DEF next, G, n, base, got, add
  <2>5. n \in Nat /\ base \in G /\ next \in [1..n -> [G -> G]]
    BY <1>1, <1>3, <1>5
  <2>6. iter[1..n] \in G
    BY ONLY <2>3, <2>5, FoldStays
  <2>7. StepsAdd(n, G, next, got, add)
    BY <2>4 DEF StepsAdd
  <2>8. HoldsAll(n, base, iter[1..n], got, add)
    BY ONLY <2>3, <2>5, <2>7, FoldReaches
  <2> QED
    BY <2>6, <2>8 DEF HoldsAll
<1>11. all = iter[1..n]
  BY <1>1 DEF FoldLeft, MapThenFoldSet
<1>15. base.rows = m.rows /\ base.warnings = w /\ m.warnings \cup source.warnings = w
  <2>1. m = [i \in Merging |-> m[i]]
    <3>1. m \in MergedOf(R, W)
      BY DEF ListedOnce
    <3>2. MergedFields(m, R, W)
      BY ONLY <3>1, MergedParts
    <3> QED
      BY ONLY <3>2 DEF MergedFields
  <2>2. base.rows = m.rows /\ base.warnings = w
    BY <2>1 DEF Merging
  <2> QED
    BY <2>2 DEF w
<1>12. all \in ListedOnce(R, W) /\ SourceIsIn(m, source, all, name)
  <2>1. /\ all \in G
        /\ Range(base.rows) \subseteq Range(all.rows)
        /\ \A k \in 1..n : added(k) \subseteq Range(all.rows)
    <3> HIDE DEF G, iter, all, base
    <3> QED
      BY <1>3, <1>10, <1>11
  <2> HIDE DEF all, base, iter
  <2>2. all \in ListedOnce(R, W) /\ Within(all)
    <3> HIDE DEF Within
    <3> QED
      BY <2>1
  <2>3. \A row \in Range(rows) : row \in Range(all.rows) \/ Plain(row.item) \in m.seen
    <3> SUFFICES ASSUME NEW k \in 1..n
                 PROVE  rows[k] \in Range(all.rows) \/ Plain(rows[k].item) \in m.seen
      BY <1>1 DEF Range
    <3> QED
      BY <2>1 DEF added
  <2> QED
    BY <1>15, <2>1, <2>2, <2>3 DEF SourceIsIn, rows
<1> DEFINE repeated == [base EXCEPT !.warnings = @ \cup {"same items attached twice"}]
<1>13. /\ repeated \in ListedOnce(R, W) /\ repeated.rows = base.rows
       /\ base.warnings \subseteq repeated.warnings
  <2>1. base \in ListedOnce(R, W) /\ base.warnings \in SUBSET W
    <3>1. base \in ListedOnce(R, W)
      <4> HIDE DEF base
      <4> QED
        BY <1>3
    <3> HIDE DEF base
    <3> QED
      BY <3>1, MergedParts DEF ListedOnce, MergedFields
  <2> DEFINE told == base.warnings \cup {"same items attached twice"}
  <2>2. told \in SUBSET W /\ Reworded(base, told, repeated) /\ base.warnings \subseteq told
    BY <2>1 DEF Reworded
  <2>3. base \in ListedOnce(R, W) /\ told \in SUBSET W /\ Reworded(base, told, repeated)
    BY <2>1, <2>2
  <2> HIDE DEF base, repeated, told
  <2>4. /\ repeated \in ListedOnce(R, W) /\ repeated.rows = base.rows
        /\ repeated.warnings = told
    BY ONLY <2>3, OtherWarnings
  <2> QED
    BY <2>2, <2>4
<1> DEFINE again == \A row \in Range(rows) : Plain(row.item) \in m.seen
<1>14. MergeSource(m, source) = all \/ (again /\ MergeSource(m, source) = repeated)
  BY DEF MergeSource, all, repeated, base, w, rows
<1>16. again => SourceIsIn(m, source, repeated, name)
  <2> HIDE DEF repeated, base
  <2> QED
    BY <1>13, <1>15 DEF SourceIsIn, rows
<1> HIDE DEF all, repeated, again
<1> QED
  BY <1>12, <1>13, <1>14, <1>16

\* Of all of them, a row of the k-th is on the list, or one that reads the same is that
\* is from a file before it; what was said of a file is said of the list.
IsAmong(m, row, names) ==
  \E r \in Range(m.rows) : r = row \/ (r.file \in names /\ Plain(r.item) = Plain(row.item))

AllAreIn(m, sources, names, k) ==
  /\ \A r \in Range(m.rows) : r.file \in {names[g] : g \in 1..k}
  /\ \A j \in 1..k :
       /\ sources[j].warnings \subseteq m.warnings
       /\ \A row \in Range(sources[j].rows) :
            IsAmong(m, row, {names[g] : g \in 1..(j - 1)})

LEMMA OneMoreIsIn ==
  ASSUME NEW m, NEW x, NEW sources, NEW names, NEW k \in Nat, KeptOnce(m),
         AllAreIn(m, sources, names, k), SourceIsIn(m, sources[k + 1], x, names[k + 1])
  PROVE  AllAreIn(x, sources, names, k + 1)
<1>0. /\ 1..k \subseteq 1..(k + 1) /\ k + 1 \in 1..(k + 1) /\ (k + 1) - 1 = k
      /\ \A j \in 1..(k + 1) : j \in 1..k \/ j = k + 1
  OBVIOUS
<1>1. /\ Range(m.rows) \subseteq Range(x.rows)
      /\ m.warnings \subseteq x.warnings /\ sources[k + 1].warnings \subseteq x.warnings
      /\ \A row \in Range(sources[k + 1].rows) :
           row \in Range(x.rows) \/ Plain(row.item) \in m.seen
      /\ \A row \in Range(x.rows) : row \in Range(m.rows) \/ row.file = names[k + 1]
  BY DEF SourceIsIn
<1>2. \A r \in Range(x.rows) : r.file \in {names[g] : g \in 1..(k + 1)}
  BY <1>0, <1>1 DEF AllAreIn
<1>3. ASSUME NEW j \in 1..k
      PROVE  /\ sources[j].warnings \subseteq x.warnings
             /\ \A row \in Range(sources[j].rows) :
                  IsAmong(x, row, {names[g] : g \in 1..(j - 1)})
  <2>1. /\ sources[j].warnings \subseteq m.warnings
        /\ \A row \in Range(sources[j].rows) :
             IsAmong(m, row, {names[g] : g \in 1..(j - 1)})
    BY DEF AllAreIn
  <2> QED
    BY <1>1, <2>1 DEF IsAmong
<1>4. ASSUME NEW row \in Range(sources[k + 1].rows)
      PROVE  IsAmong(x, row, {names[g] : g \in 1..k})
  <2>1. CASE row \in Range(x.rows)
    BY <2>1 DEF IsAmong
  <2>2. CASE Plain(row.item) \in m.seen
    <3>1. PICK r \in Range(m.rows) : Plain(r.item) = Plain(row.item)
      BY <2>2 DEF KeptOnce
    <3>2. r \in Range(x.rows) /\ r.file \in {names[g] : g \in 1..k}
      BY <1>1 DEF AllAreIn
    <3> QED
      BY <3>1, <3>2 DEF IsAmong
  <2> QED
    BY <1>1, <2>1, <2>2
<1> QED
  BY <1>0, <1>1, <1>2, <1>3, <1>4 DEF AllAreIn

LEMMA NextPosition == \A n \in Nat : \A k \in 0..n : k < n => k + 1 \in 1..n
OBVIOUS

\* All of them.
LEMMA MergedIsKept ==
  ASSUME IsList(read), NEW names,
         \A k \in DOMAIN read : RowsOf(read[k].rows, names[k])
  PROVE  KeptOnce(Merged) /\ AllAreIn(Merged, read, names, Len(read))
<1> DEFINE n == Len(read)
           R == UNION {Range(source.rows) : source \in Range(read)}
           spoken == UNION {source.warnings : source \in Range(read)}
           repeat == "same items attached twice"
           W == spoken \cup {repeat}
           G == ListedOnce(R, W)
           base == [rows |-> <<>>, seen |-> {}, quantities |-> {}, conflicts |-> {},
                    warnings |-> {}]
           Add(m, source) == MergeSource(m, source)
<1>1. n \in Nat /\ DOMAIN read = 1..n /\ \A k \in 1..n : read[k] \in Range(read)
  BY ListSays
<1>2. base \in G
  <2>1. /\ base.rows = <<>> /\ base.seen = {} /\ base.quantities = {} /\ base.conflicts = {}
        /\ base.warnings = {} /\ base = [i \in Merging |-> base[i]]
    BY DEF Merging
  <2> HIDE DEF base, R, W
  <2>2. base.rows \in Seq(R)
    BY <2>1
  <2>3. base \in MergedOf(R, W)
    <3>1. MergedFields(base, R, W)
      BY <2>1, <2>2 DEF MergedFields
    <3> QED
      BY <3>1, MergedParts
  <2>4. KeptOnce(base)
    BY <2>1, ListOfNone DEF KeptOnce
  <2> QED
    BY <2>3, <2>4 DEF ListedOnce
<1>3. ASSUME NEW m \in G, NEW k \in 1..n
      PROVE  /\ Add(m, read[k]) \in G
             /\ SourceIsIn(m, read[k], Add(m, read[k]), names[k])
  <2>1. RowsOf(read[k].rows, names[k])
    BY <1>1
  <2>2. Range(read[k].rows) \subseteq R /\ read[k].warnings \subseteq W
        /\ repeat \in W
    <3>1. read[k] \in Range(read)
      BY <1>1
    <3>2. Range(read[k].rows) \subseteq R
      BY <3>1
    <3>3. read[k].warnings \subseteq W
      BY <3>1
    <3>4. repeat \in W
      BY ONLY TRUE
    <3> HIDE DEF R, W
    <3> QED
      BY <3>2, <3>3, <3>4
  <2> HIDE DEF R, W
  <2> QED
    BY <2>1, <2>2, SourceIsKept
<1> DEFINE next == [k \in 1..n |-> [d \in G |-> Add(d, read[k])]]
           Folds(g) == g = [s \in SUBSET (1..n) |->
                         IF s = {} THEN base ELSE Add(g[s \ {Max(s)}], read[Max(s)])]
           iter == CHOOSE g : Folds(g)
<1>4. next \in [1..n -> [G -> G]]
  <2> HIDE DEF G, base, n, Add
  <2> QED
    BY <1>3
<1>5. PICK g \in [SUBSET (1..n) -> G] : FoldsBy(g, n, base, next)
  <2> HIDE DEF next, G, base, n
  <2> QED
    BY <1>1, <1>2, <1>4, FoldsExist
<1>6. \A s \in SUBSET (1..n) : s # {} => Max(s) \in 1..n /\ s \ {Max(s)} \in SUBSET (1..n)
  <2> HIDE DEF G, base, n
  <2> QED
    BY <1>1, Greatest
<1>7. Folds(g)
  <2>1. ASSUME NEW s \in SUBSET (1..n), s # {}
        PROVE  g[s] = Add(g[s \ {Max(s)}], read[Max(s)])
    <3>1. Max(s) \in 1..n /\ g[s \ {Max(s)}] \in G
      BY <1>5, <1>6, <2>1
    <3>2. g[s] = next[Max(s)][g[s \ {Max(s)}]]
      BY <1>5, <2>1 DEF FoldsBy
    <3> HIDE DEF G, base, n, Add
    <3> QED
      BY <3>1, <3>2
  <2>2. g[{}] = base
    BY <1>5 DEF FoldsBy
  <2> HIDE DEF next, G, base, n, Add
  <2> QED
    BY <1>5, <2>1, <2>2
<1>8. Folds(iter)
  <2> HIDE DEF Folds
  <2> QED
    BY <1>7
<1>9. /\ iter[1..0] = base
      /\ \A k \in 0..n : iter[1..k] \in G
      /\ \A k \in 0..n : k < n => iter[1..(k + 1)] = Add(iter[1..k], read[k + 1])
  <2> HIDE DEF iter
  <2>1. iter[{}] = base
    <3> HIDE DEF G, base, n, Add, next
    <3> QED
      BY <1>8
  <2>2. ASSUME NEW s \in SUBSET (1..n), s # {}, iter[s \ {Max(s)}] \in G
        PROVE  iter[s] = next[Max(s)][iter[s \ {Max(s)}]]
    <3>1. iter[s] = Add(iter[s \ {Max(s)}], read[Max(s)])
      <4> HIDE DEF G, base, n, Add, next
      <4> QED
        BY <1>8, <2>2
    <3>2. Max(s) \in 1..n
      BY <1>6, <2>2
    <3> HIDE DEF G, base, n, Add
    <3> QED
      BY <2>2, <3>1, <3>2
  <2>3. FoldsWithin(iter, n, base, next, G)
    BY <2>1, <2>2 DEF FoldsWithin
  <2> HIDE DEF n, base
  <2>4. TakesSteps(iter, n, base, next, G)
    <3> HIDE DEF next, G
    <3>1. n \in Nat /\ base \in G /\ next \in [1..n -> [G -> G]]
      BY <1>1, <1>2, <1>4
    <3> QED
      BY ONLY <2>3, <3>1, FoldSteps
  <2>5. ASSUME NEW k \in 0..n, k < n PROVE next[k + 1][iter[1..k]] = Add(iter[1..k], read[k + 1])
    <3>0. n \in Nat
      BY <1>1
    <3>3. k \in 0..n /\ k < n
      BY <2>5
    <3>1. k + 1 \in 1..n
      BY <3>0, <3>3, NextPosition
    <3>2. iter[1..k] \in G
      BY <2>4 DEF TakesSteps
    <3> HIDE DEF G, Add
    <3> QED
      BY <3>1, <3>2
  <2> HIDE DEF next, G, Add
  <2> QED
    BY <2>4, <2>5 DEF TakesSteps
<1>10. Merged = iter[1..n]
  BY <1>1 DEF Merged, FoldLeft, MapThenFoldSet
<1> DEFINE K == {k \in 0..n : AllAreIn(iter[1..k], read, names, k)}
<1> HIDE DEF iter, n, G
<1>11. 0 \in K
  <2>1. base.rows = <<>>
    OBVIOUS
  <2> HIDE DEF base
  <2>0. Range(base.rows) = {} /\ 1..0 = {}
    BY <2>1, ListOfNone
  <2>2. AllAreIn(base, read, names, 0)
    BY <2>0 DEF AllAreIn
  <2>3. 0 \in 0..n
    BY <1>1
  <2> QED
    BY <1>9, <2>2, <2>3
<1>12. ASSUME NEW k \in 0..n, k \in K, k < n PROVE k + 1 \in K
  <2> DEFINE m == iter[1..k]
             x == iter[1..(k + 1)]
  <2>1. k + 1 \in 1..n /\ k + 1 \in 0..n /\ k \in Nat
    <3>1. n \in Nat
      BY <1>1
    <3> QED
      BY ONLY <1>12, <3>1
  <2>2. m \in G /\ x = Add(m, read[k + 1])
    BY <1>9, <1>12
  <2>3. SourceIsIn(m, read[k + 1], x, names[k + 1])
    <3> HIDE DEF G, m, x, Add
    <3> QED
      BY <1>3, <2>1, <2>2
  <2>4. KeptOnce(m)
    <3> HIDE DEF R, W, m
    <3> QED
      BY <2>2 DEF G, ListedOnce
  <2>5. AllAreIn(m, read, names, k)
    BY <1>12
  <2> HIDE DEF m, x
  <2>6. AllAreIn(x, read, names, k + 1)
    BY ONLY <2>1, <2>3, <2>4, <2>5, OneMoreIsIn
  <2> QED
    BY <2>1, <2>6 DEF x
<1>13. 0..n \subseteq K
  <2>1. n \in Nat
    BY <1>1
  <2> HIDE DEF K
  <2> QED
    BY <1>11, <1>12, <2>1, CountingUp
<1>14. n \in 0..n
  <2>1. n \in Nat
    BY <1>1
  <2> QED
    BY ONLY <2>1
<1> HIDE DEF base
<1>15. Merged \in G /\ AllAreIn(Merged, read, names, n)
  BY <1>9, <1>10, <1>13, <1>14
<1> QED
  <2> HIDE DEF R, W
  <2> QED
    BY <1>15 DEF ListedOnce, G, n

\* What holds while files are read: they are documents, the rows of each are its own,
\* and, when the list is made, what it says of revisions.
ReadingInv ==
  /\ IsList(files) /\ \A f \in Range(files) : IsDocument(f)
  /\ IsList(read) /\ Len(read) <= Len(files)
  /\ \A k \in DOMAIN read : RowsOf(read[k].rows, files[k].name)
  /\ IsDraft(draft)
  /\ RevisionsAreReported

\* A file more has been read.
LEMMA FileIsRead ==
  ASSUME ReadingInv, Reads, NEW role, NEW rows, NEW warnings, RowsOf(rows, File.name),
         ReadAs(role, rows, warnings)
  PROVE  ReadingInv'
<1> DEFINE entry == [role |-> role, rows |-> rows, warnings |-> warnings]
<1>1. /\ read' = Append(read, entry) /\ draft' = NoDraft
      /\ files' = files /\ extraction' = extraction
  BY DEF ReadAs
<1>2. entry.rows = rows
  OBVIOUS
<1>3. /\ IsList(files) /\ IsList(read) /\ Len(read) \in Nat /\ Len(files) \in Nat
      /\ DOMAIN read = 1..Len(read)
  BY ListSays DEF ReadingInv
<1> HIDE DEF entry
<1>4. /\ IsList(read') /\ DOMAIN read' = 1..(Len(read) + 1)
      /\ read'[Len(read) + 1] = entry
      /\ \A k \in DOMAIN read : read'[k] = read[k]
  BY <1>1, <1>3, ListGrows
<1>5. Len(read') = Len(read) + 1 /\ Len(read') <= Len(files)
  BY <1>1, <1>3 DEF Reads, Turn, IsList
<1>6. \A k \in DOMAIN read' : RowsOf(read'[k].rows, files'[k].name)
  <2> TAKE k \in DOMAIN read'
  <2>1. CASE k = Len(read) + 1
    BY <1>1, <1>2, <1>4, <2>1 DEF File, Turn
  <2>2. CASE k # Len(read) + 1
    <3>1. k \in DOMAIN read
      BY <1>3, <1>4, <2>2
    <3> QED
      BY <1>1, <1>4, <3>1 DEF ReadingInv
  <2> QED
    BY <2>1, <2>2
<1>7. IsDraft(draft')
  <2>1. /\ NoDraft.items = <<>> /\ NoDraft.parts = 0 /\ NoDraft.seen = {}
        /\ NoDraft = [i \in Draft |-> NoDraft[i]]
    BY DEF NoDraft, Draft
  <2> QED
    BY <1>1, <2>1, ListOfNone DEF IsDraft, SeenShown
<1> QED
  BY <1>1, <1>4, <1>5, <1>6, <1>7 DEF ReadingInv, RevisionsAreReported

LEMMA NoRowsAreItsOwn == \A name : RowsOf(<<>>, name)
BY ListOfNone DEF RowsOf

LEMMA DraftStays ==
  ASSUME ReadingInv, UNCHANGED <<files, read, extraction>>, IsDraft(draft')
  PROVE  ReadingInv'
BY DEF ReadingInv, RevisionsAreReported

\* The file in turn is a document.
LEMMA FileIsADocument ==
  ASSUME ReadingInv, Reads
  PROVE  IsDocument(File)
<1>1. Turn \in 1..Len(files)
  <2>1. Len(read) \in Nat /\ Len(files) \in Nat
    BY ListSays DEF ReadingInv
  <2> QED
    BY <2>1 DEF Reads, Turn
<1>2. File \in Range(files)
  BY <1>1, ListSays DEF ReadingInv, File
<1> QED
  BY <1>2 DEF ReadingInv

LEMMA ColumnsAreNamed ==
  ASSUME ReadingInv, NameColumns
  PROVE  ReadingInv'
<1>1. Reads
  BY DEF NameColumns, Shown
<1>2. IsDocument(File)
  BY <1>1, FileIsADocument
<1> DEFINE copied(mappings) == FromTables(File, mappings)
<1>3. PICK mappings \in Mappings(Blocks(File)) :
        \/ ReadAs("ITEM_GRID", copied(mappings).rows, copied(mappings).warnings)
        \/ UNCHANGED <<files, read, draft, extraction, honest>>
        \/ ReadAs("ITEM_GRID", <<>>, {"mapping unverified"})
  BY DEF NameColumns
<1>4. RowsOf(copied(mappings).rows, File.name)
  BY <1>2, FromTablesSays
<1> HIDE DEF copied
<1>5. CASE ReadAs("ITEM_GRID", copied(mappings).rows, copied(mappings).warnings)
  BY <1>1, <1>4, <1>5, FileIsRead
<1>6. CASE UNCHANGED <<files, read, draft, extraction, honest>>
  BY <1>6, DraftStays DEF ReadingInv
<1>7. CASE ReadAs("ITEM_GRID", <<>>, {"mapping unverified"})
  BY <1>1, <1>7, NoRowsAreItsOwn, FileIsRead
<1> QED
  BY <1>3, <1>5, <1>6, <1>7

\* The lists of items on the parts.
LEMMA ItemsAreLists ==
  ASSUME ReadingInv, Reads, NEW k \in 1..Len(Parts(File))
  PROVE  IsList(Parts(File)[k].items)
BY FileIsADocument, PartsSay

LEMMA FirstIsTranscribed ==
  ASSUME ReadingInv, TranscribeFirst
  PROVE  ReadingInv'
<1>1. Reads /\ Parts(File) # <<>> /\ UNCHANGED <<files, read, extraction>>
  BY DEF TranscribeFirst, Shown
<1>2. PICK given \in Answers(Parts(File)[1], <<>>), fails \in BOOLEAN :
        draft' = [parts |-> 1, items |-> given, seen |-> {Plain(i) : i \in Range(given)},
                  warnings |-> IF fails THEN {"transcription partial"} ELSE {}]
  BY DEF TranscribeFirst
<1>3. IsList(Parts(File)[1].items)
  <2>1. IsList(Parts(File))
    BY <1>1, FileIsADocument, PartsSay
  <2>2. Len(Parts(File)) # 0
    <3> DEFINE parts == Parts(File)
    <3>1. parts # <<>> /\ parts \in Seq(Range(parts))
      BY <1>1, <2>1 DEF IsList
    <3> HIDE DEF parts
    <3>2. Len(parts) # 0
      BY <3>1
    <3> QED
      BY <3>2 DEF parts
  <2>3. 1 \in 1..Len(Parts(File))
    BY <2>1, <2>2, ListSays
  <2> QED
    BY <1>1, <2>3, ItemsAreLists
<1>4. IsList(given)
  BY <1>3, AnswersSay
<1>5. IsDraft(draft')
  <2>1. draft'.parts = 1 /\ draft'.items = given /\ draft' = [i \in Draft |-> draft'[i]]
    BY <1>2 DEF Draft
  <2>2. SeenShown(draft')
    <3>1. draft'.seen = {Plain(i) : i \in Range(given)}
      BY <1>2
    <3> QED
      BY <2>1, <3>1 DEF SeenShown
  <2> QED
    BY <1>4, <2>1, <2>2 DEF IsDraft
<1> QED
  BY <1>1, <1>5, DraftStays

\* A transcript of which only the part reached or the warnings are other.
LEMMA DraftGoesOn ==
  ASSUME NEW d, IsDraft(d), NEW k \in Nat, NEW w
  PROVE  IsDraft([d EXCEPT !.parts = k]) /\ IsDraft([d EXCEPT !.parts = k, !.warnings = w])
<1> DEFINE x == [d EXCEPT !.parts = k]
           y == [d EXCEPT !.parts = k, !.warnings = w]
<1>1. x = [i \in Draft |-> x[i]] /\ x.parts = k /\ x.items = d.items /\ x.seen = d.seen
  BY DEF IsDraft, Draft
<1>2. y = [i \in Draft |-> y[i]] /\ y.parts = k /\ y.items = d.items /\ y.seen = d.seen
  BY DEF IsDraft, Draft
<1> HIDE DEF x, y
<1>3. IsDraft(x) /\ IsDraft(y)
  BY <1>1, <1>2 DEF IsDraft, SeenShown
<1> QED
  BY <1>3 DEF x, y

LEMMA NextIsTranscribed ==
  ASSUME ReadingInv, TranscribeNext
  PROVE  ReadingInv'
<1> DEFINE next == draft.parts + 1
           parts == Parts(File)
<1>1. Reads /\ next <= Len(parts) /\ UNCHANGED <<files, read, extraction>>
  BY DEF TranscribeNext, Transcribing
<1>2. IsDraft(draft) /\ draft.parts \in Nat /\ next \in Nat /\ next >= 1
  BY DEF ReadingInv, IsDraft
<1>3. CASE draft' = [draft EXCEPT !.parts = next,
                                  !.warnings = @ \cup {"transcription partial"}]
  <2>1. IsDraft(draft')
    BY <1>2, <1>3, DraftGoesOn
  <2> QED
    BY <1>1, <2>1, DraftStays
<1>4. CASE \E given \in Answers(parts[next], parts[next - 1].items) :
             draft' = [AddFresh(draft, given) EXCEPT !.parts = next]
  <2>1. PICK given \in Answers(parts[next], parts[next - 1].items) :
          draft' = [AddFresh(draft, given) EXCEPT !.parts = next]
    BY <1>4
  <2>2. IsList(parts[next].items)
    <3>1. Len(parts) \in Nat
      BY <1>1, FileIsADocument, PartsSay
    <3>2. next \in 1..Len(parts)
      <4> HIDE DEF next, parts
      <4> QED
        BY <1>1, <1>2, <3>1
    <3> HIDE DEF next
    <3> QED
      BY <1>1, <3>2, ItemsAreLists
  <2>3. IsList(given)
    BY <2>2, AnswersSay
  <2>4. IsDraft(AddFresh(draft, given))
    BY <1>2, <2>3, AddFreshSays
  <2>5. IsDraft(draft')
    <3> HIDE DEF next
    <3> QED
      BY <1>2, <2>1, <2>4, DraftGoesOn
  <2> QED
    BY <1>1, <2>5, DraftStays
<1> QED
  BY <1>3, <1>4 DEF TranscribeNext

LEMMA TranscriptIsFinished ==
  ASSUME ReadingInv, FinishTranscript
  PROVE  ReadingInv'
<1> DEFINE rows == Transcribed(draft.items)
           warnings == draft.warnings \cup (IF draft.items = <<>> THEN {"no item rows"} ELSE {})
<1>1. Reads /\ ReadAs("ITEM_TEXT", rows, warnings)
  BY DEF FinishTranscript, Transcribing
<1>2. RowsOf(rows, File.name)
  <2>1. IsList(draft.items)
    BY DEF ReadingInv, IsDraft
  <2>2. Len(draft.items) \in Nat /\ DOMAIN draft.items = 1..Len(draft.items)
    BY <2>1, ListSays
  <2>3. DOMAIN rows = 1..Len(draft.items) /\ rows = [i \in 1..Len(draft.items) |-> rows[i]]
    BY <2>2 DEF Transcribed
  <2>4. IsList(rows)
    <3> HIDE DEF rows
    <3> QED
      BY <2>2, <2>3, MadeAList
  <2>5. \A row \in Range(rows) : row.file = File.name
    <3>1. \A i \in DOMAIN rows : rows[i].file = File.name
      BY DEF Transcribed
    <3> QED
      BY <3>1 DEF Range
  <2> QED
    BY <2>4, <2>5 DEF RowsOf
<1> HIDE DEF rows, warnings
<1> QED
  BY <1>1, <1>2, FileIsRead

LEMMA BodyIsAdded ==
  ASSUME ReadingInv, TurnToTheBody
  PROVE  ReadingInv'
<1>1. /\ files' = Append(files, MailBody) /\ UNCHANGED <<read, draft, extraction>>
      /\ IsList(files) /\ IsList(read) /\ Len(read) <= Len(files)
  BY DEF ReadingInv, TurnToTheBody
<1>2. /\ IsList(files') /\ Range(files') = Range(files) \cup {MailBody}
      /\ \A k \in DOMAIN files : files'[k] = files[k]
  BY <1>1, ListGrows
<1>3. /\ Len(read) \in Nat /\ Len(files) \in Nat
      /\ DOMAIN read = 1..Len(read) /\ DOMAIN files = 1..Len(files)
  BY <1>1, ListSays
<1>4. Len(files') = Len(files) + 1
  BY <1>1 DEF IsList
<1>5. \A f \in Range(files') : IsDocument(f)
  BY <1>2, MailingsAreDocuments DEF ReadingInv
<1>6. \A k \in DOMAIN read : files'[k] = files[k]
  BY <1>1, <1>2, <1>3
<1>7. \A k \in DOMAIN read' : RowsOf(read'[k].rows, files'[k].name)
  BY <1>1, <1>6 DEF ReadingInv
<1>8. Len(read') <= Len(files')
  BY <1>1, <1>3, <1>4
<1>9. IsDraft(draft') /\ RevisionsAreReported' /\ IsList(read')
  BY <1>1 DEF ReadingInv, RevisionsAreReported
<1> QED
  BY <1>2, <1>5, <1>7, <1>8, <1>9 DEF ReadingInv

LEMMA ListIsMade ==
  ASSUME ReadingInv, Extract
  PROVE  ReadingInv'
<1> DEFINE warnings == Merged.warnings \cup (UNION {f.codes : f \in Range(files)})
             \cup (IF Merged.rows = <<>> THEN {"no items anywhere"} ELSE {})
             \cup (IF Merged.conflicts # {} THEN {"same item two quantities"} ELSE {})
           e == [rows |-> Merged.rows, conflicts |-> Merged.conflicts, warnings |-> warnings]
<1>1. extraction' = <<e>> /\ UNCHANGED <<files, read, draft>>
  BY DEF Extract
<1>2. KeptOnce(Merged)
  <2>1. IsList(read) /\ \A k \in DOMAIN read : RowsOf(read[k].rows, files[k].name)
    BY DEF ReadingInv
  <2> QED
    <3> DEFINE names == [k \in DOMAIN read |-> files[k].name]
    <3>1. \A k \in DOMAIN read : RowsOf(read[k].rows, names[k])
      BY <2>1
    <3> HIDE DEF names
    <3> QED
      BY <2>1, <3>1, MergedIsKept
<1>3. Merged.conflicts # {} => "same item two quantities" \in warnings
  OBVIOUS
<1>4. e.rows = Merged.rows /\ e.conflicts = Merged.conflicts /\ e.warnings = warnings
  OBVIOUS
<1>5. Range(<<e>>) = {e}
  BY ListOfOne
<1> HIDE DEF e, warnings
<1>6. RevisionsAreReported'
  <2>1. SUFFICES ASSUME NEW i \in DOMAIN e.rows, NEW j \in DOMAIN e.rows,
                        Disagree(e.rows[i], e.rows[j]),
                        UpToHash(e.rows[i].file) # UpToHash(e.rows[j].file)
                 PROVE  DisagreementReported(e, e.rows[i])
    BY <1>1, <1>5 DEF RevisionsAreReported
  <2>2. e.rows[i] \in Range(Merged.rows) /\ e.rows[j] \in Range(Merged.rows)
    BY <1>4 DEF Range
  <2>3. \E row \in Merged.conflicts : SameArticle(row, e.rows[i])
    BY <1>2, <2>1, <2>2, RevisionsFollow
  <2> QED
    BY <1>3, <1>4, <2>3 DEF DisagreementReported
<1> QED
  BY <1>1, <1>6 DEF ReadingInv

LEMMA ReadingInvFollows ==
  ASSUME ReadingInv, [Read]_reading
  PROVE  ReadingInv'
<1>1. CASE PassOverEmpty
  <2>1. Reads /\ ReadAs("EMPTY", <<>>, IF File.container THEN {} ELSE {"nothing to read"})
    BY <1>1 DEF PassOverEmpty
  <2> QED
    BY <2>1, NoRowsAreItsOwn, FileIsRead
<1>2. CASE FailToAsk
  <2>1. Reads /\ ReadAs("UNREAD", <<>>, {"file could not be read"})
    BY <1>2 DEF FailToAsk, Shown
  <2> QED
    BY <2>1, NoRowsAreItsOwn, FileIsRead
<1>3. CASE CallSupporting
  <2>1. Reads /\ ReadAs("SUPPORTING", <<>>, {})
    BY <1>3 DEF CallSupporting, Shown
  <2> QED
    BY <2>1, NoRowsAreItsOwn, FileIsRead
<1>4. CASE NameColumns
  BY <1>4, ColumnsAreNamed
<1>5. CASE TranscribeFirst
  BY <1>5, FirstIsTranscribed
<1>6. CASE TranscribeNext
  BY <1>6, NextIsTranscribed
<1>7. CASE FinishTranscript
  BY <1>7, TranscriptIsFinished
<1>8. CASE FindNoParts
  <2>1. Reads /\ ReadAs("ITEM_TEXT", <<>>, {"no item rows"})
    BY <1>8 DEF FindNoParts, Shown
  <2> QED
    BY <2>1, NoRowsAreItsOwn, FileIsRead
<1>9. CASE TurnToTheBody
  BY <1>9, BodyIsAdded
<1>10. CASE Extract
  BY <1>10, ListIsMade
<1>11. CASE UNCHANGED reading
  BY <1>11, DraftStays DEF reading, ReadingInv
<1> QED
  BY <1>1, <1>2, <1>3, <1>4, <1>5, <1>6, <1>7, <1>8, <1>9, <1>10, <1>11 DEF Read

LEMMA ReadingInvBegins == ReadingInit => ReadingInv
<1> SUFFICES ASSUME ReadingInit PROVE ReadingInv
  OBVIOUS
<1>1. IsList(files) /\ \A f \in Range(files) : IsDocument(f)
  BY MailingsAreDocuments DEF ReadingInit
<1>2. read = <<>> /\ Len(read) = 0 /\ DOMAIN read = {} /\ IsList(read)
  <2>1. Len(<<>>) = 0 /\ DOMAIN <<>> = {}
    OBVIOUS
  <2> QED
    BY <2>1, ListOfNone DEF ReadingInit
<1>3. Len(files) \in Nat
  BY <1>1, ListSays
<1>4. IsDraft(draft)
  <2>1. /\ NoDraft.items = <<>> /\ NoDraft.parts = 0 /\ NoDraft.seen = {}
        /\ NoDraft = [i \in Draft |-> NoDraft[i]]
    BY DEF NoDraft, Draft
  <2> QED
    BY <2>1, ListOfNone DEF IsDraft, SeenShown, ReadingInit
<1>5. RevisionsAreReported
  BY ListOfNone DEF ReadingInit, RevisionsAreReported
<1> QED
  BY <1>1, <1>2, <1>3, <1>4, <1>5 DEF ReadingInv

\* Two rows of one article that differ in quantity and come from two files are on the
\* list only with a conflict about that article and the warning that says so, whatever
\* files there are and whatever the model answers about them.
THEOREM RevisionsReported == ReadingSpec => []RevisionsAreReported
<1>1. ReadingInv => RevisionsAreReported
  BY DEF ReadingInv
<1> QED
  BY <1>1, ReadingInvBegins, ReadingInvFollows, PTL DEF ReadingSpec

-----------------------------------------------------------------------------
\* What is asked of the files of an RFQ: sheets that read the same are the same;
SheetsDiffer(document) ==
  \A g, h \in Range(document.grids) : g.rows = h.rows => g = h

\* a line fills two columns of the heading it stands under, with no other between;
StandsUnder(rows, r, heading) ==
  /\ heading \in 1..Len(rows) /\ r \in heading + 1..Len(rows)
  /\ ~ \E next \in HeaderRows(rows) : heading < next /\ next <= r
  /\ FilledIn(rows[r], TableColumns(rows[heading])) >= 2

\* it says what is wanted and, where that is counted, more than "a description and
\* nothing else";
SaysWhatIsWanted(item, counted) ==
  /\ {item.description, item.code} # {""}
  /\ counted => {item.quantity, item.code, item.uom} # {""}

\* and that heading is the one a truthful answer gives for a table it is shown.
HeadOver(cells, block) == Max({h \in cells.heads : h <= block.header})

LinesAreShown(document) ==
  \A cells \in Offered(document) : \A r \in cells.lines :
    /\ \E b \in Range(Blocks(document)) :
         /\ b.grid = cells.rows /\ HasLines(b, cells)
         /\ StandsUnder(cells.rows, r, HeadOver(cells, b))
    /\ SaysWhatIsWanted(ItemAt(cells.rows, r, cells.names),
                        \E pair \in cells.names : pair[2] = "quantity")

LaidOut(document) == SheetsDiffer(document) /\ LinesAreShown(document)

DocumentsLaidOut ==
  LaidOut(MailBody) /\ \A mailing \in Mailings : \A d \in Range(mailing) : LaidOut(d)

\* Every line and every item that was to be read off a document is among its rows.
TakenFrom(document, row, cells, r) ==
  /\ row.file = document.name /\ row.row = r
  /\ Plain(row.item) = Plain(ItemAt(cells.rows, r, cells.names))

AllTold(document, rows) ==
  /\ \A cells \in Offered(document) : \A r \in cells.lines :
       \E row \in Range(rows) : TakenFrom(document, row, cells, r)
  /\ Transcribable(document) =>
       \A part \in Range(Parts(document)) : \A item \in Range(part.items) :
         \E row \in Range(rows) : Plain(row.item) = Plain(item)

Told(document, rows, warnings) == warnings \cap NotRead = {} => AllTold(document, rows)

\* So far, everything that was to be read off the parts gone through.
SeenSoFar(document, d) ==
  \A k \in 1..d.parts : \A item \in Range(Parts(document)[k].items) : Plain(item) \in d.seen

DraftTells(document, d, sound) ==
  /\ Blocks(document) = <<>> /\ d.parts <= Len(Parts(document))
  /\ sound /\ "transcription partial" \notin d.warnings => SeenSoFar(document, d)

ToldInv ==
  /\ \A f \in Range(files) : LaidOut(f)
  /\ honest => \A k \in DOMAIN read : Told(files[k], read[k].rows, read[k].warnings)
  /\ draft.parts # 0 => Reads /\ DraftTells(File, draft, honest)
  /\ NothingLostInSilence

-----------------------------------------------------------------------------
\* What a file is read into tells all of it.
LEMMA NothingToTell ==
  ASSUME NEW document, IsDocument(document), ~HasContent(document), NEW rows
  PROVE  AllTold(document, rows)
<1>1. document.grids = <<>> /\ document.pieces = <<>> /\ document.pictures = <<>>
  BY DEF HasContent
<1>2. Offered(document) = {}
  BY <1>1, ListOfNone DEF Offered
<1>3. Parts(document) = <<>>
  BY <1>1, PartsSay
<1>4. ~Transcribable(document)
  BY <1>3 DEF Transcribable, ShowsItems
<1> QED
  BY <1>2, <1>4 DEF AllTold

LEMMA GridIsTheOne ==
  ASSUME NEW document, SheetsDiffer(document), NEW g \in Range(document.grids),
         NEW b, b.grid = g.rows
  PROVE  GridOf(document, b) = g
<1>1. \E h \in Range(document.grids) : h.rows = b.grid
  OBVIOUS
<1>2. GridOf(document, b) \in Range(document.grids) /\ GridOf(document, b).rows = b.grid
  BY <1>1 DEF GridOf
<1> QED
  BY <1>2 DEF SheetsDiffer

LEMMA NoLinesToTell ==
  ASSUME NEW document, IsDocument(document), SheetsDiffer(document), ~ShowsItems(document),
         NEW rows
  PROVE  AllTold(document, rows)
<1>1. ~Transcribable(document)
  BY DEF Transcribable
<1>2. ASSUME NEW cells \in Offered(document) PROVE FALSE
  <2>1. PICK b \in Range(Blocks(document)) : b.grid = cells.rows /\ HasLines(b, cells)
    BY DEF Offered
  <2>2. cells \in Range(document.grids)
    BY DEF Offered
  <2>3. GridOf(document, b) = cells
    BY <2>1, <2>2, GridIsTheOne
  <2>4. Blocks(document) # <<>>
    BY <2>1, ListOfNone
  <2> QED
    BY <2>1, <2>3, <2>4 DEF ShowsItems
<1> QED
  BY <1>1, <1>2 DEF AllTold

\* A line is among the rows that are copied under its heading.
LEMMA UnderItsHeading ==
  ASSUME NEW rows, IsGrid(rows), NEW r, NEW heading, StandsUnder(rows, r, heading)
  PROVE  BlockAt(rows, heading) # <<>> /\ r \in DataRows(BlockAt(rows, heading)[1])
<1> DEFINE later == {h \in HeaderRows(rows) : h > heading}
           ends == {Len(rows) + 1} \cup later
           endsBefore == Min(ends)
<1>1. /\ Len(rows) \in Nat /\ DOMAIN rows = 1..Len(rows)
      /\ heading \in 1..Len(rows) /\ r \in heading + 1..Len(rows)
      /\ \A next \in HeaderRows(rows) : ~(heading < next /\ next <= r)
      /\ FilledIn(rows[r], TableColumns(rows[heading])) >= 2
  BY DEF IsGrid, IsList, StandsUnder
<1>2. heading \in 1..Len(rows) - 1 /\ heading \in DOMAIN rows /\ r \in Nat
  BY <1>1
<1>3. BlockAt(rows, heading) = Block(rows, heading, endsBefore)
  BY <1>2 DEF BlockAt
<1>4. endsBefore \in 1..Len(rows) + 1 /\ r < endsBefore
  <2>1. later \subseteq 1..Len(rows) /\ \A h \in later : r < h
    <3>1. HeaderRows(rows) \subseteq 1..Len(rows)
      BY <1>1 DEF HeaderRows
    <3>2. ASSUME NEW h \in later PROVE h \in 1..Len(rows) /\ r < h
      <4>1. h \in HeaderRows(rows) /\ h > heading /\ h \in 1..Len(rows)
        BY <3>1
      <4>2. h \in Int /\ heading \in Int /\ r \in Int
        BY <1>1, <1>2, <4>1
      <4> QED
        BY <1>1, <4>1, <4>2
    <3> QED
      BY <3>2
  <2> HIDE DEF later
  <2>2. ends \in SUBSET (1..(Len(rows) + 1)) /\ ends # {} /\ \A h \in ends : r < h
    <3>1. /\ 1..Len(rows) \subseteq 1..(Len(rows) + 1) /\ Len(rows) + 1 \in 1..(Len(rows) + 1)
          /\ r < Len(rows) + 1
      BY <1>1
    <3> QED
      BY <2>1, <3>1
  <2> HIDE DEF ends
  <2>3. endsBefore \in ends
    <3>1. Len(rows) + 1 \in Nat
      BY <1>1
    <3> QED
      BY <2>2, <3>1, LeastPosition
  <2> QED
    BY <2>2, <2>3
<1> HIDE DEF endsBefore
<1>5. \/ /\ Block(rows, heading, endsBefore) = <<>>
         /\ \A k \in heading + 1..endsBefore - 1 :
              ~(FilledIn(rows[k], TableColumns(rows[heading])) >= 2)
      \/ \E block : /\ Block(rows, heading, endsBefore) = <<block>>
                    /\ Spans(rows, heading, endsBefore, block)
  BY <1>2, <1>4, BlockSays
<1>6. r \in heading + 1..endsBefore - 1
  BY <1>1, <1>2, <1>4
<1>7. PICK block : /\ Block(rows, heading, endsBefore) = <<block>>
                   /\ Spans(rows, heading, endsBefore, block)
  BY <1>1, <1>5, <1>6
<1>8. block.header = heading /\ block.last \in Int /\ r <= block.last
  BY <1>1, <1>6, <1>7 DEF Spans, LiesIn
<1>9. r \in DataRows(block)
  BY <1>1, <1>2, <1>8 DEF DataRows
<1> QED
  BY <1>3, <1>7, <1>9

LEMMA NamedIsTold ==
  ASSUME NEW document, IsDocument(document), LaidOut(document), Blocks(document) # <<>>,
         NEW mappings, NamesThem(document, mappings)
  PROVE  AllTold(document, FromTables(document, mappings).rows)
<1> DEFINE blocks == Blocks(document)
           rows == FromTables(document, mappings).rows
<1>1. ~Transcribable(document)
  BY DEF Transcribable
<1>2. ASSUME NEW cells \in Offered(document), NEW r \in cells.lines
      PROVE  \E row \in Range(rows) : TakenFrom(document, row, cells, r)
  <2> DEFINE quantified == \E pair \in cells.names : pair[2] = "quantity"
             item == ItemAt(cells.rows, r, cells.names)
  <2>1. PICK b \in Range(blocks) :
          /\ b.grid = cells.rows /\ HasLines(b, cells)
          /\ StandsUnder(cells.rows, r, HeadOver(cells, b))
    BY DEF LaidOut, LinesAreShown
  <2>9. IsItem(item, quantified)
    <3>1. SaysWhatIsWanted(item, quantified)
      BY DEF LaidOut, LinesAreShown
    <3> HIDE DEF item, quantified
    <3> QED
      BY <3>1 DEF SaysWhatIsWanted, IsItem
  <2>2. PICK k \in DOMAIN blocks : blocks[k] = b
    BY DEF Range
  <2>3. GridOf(document, b) = cells
    <3>1. cells \in Range(document.grids) /\ SheetsDiffer(document)
      BY DEF Offered, LaidOut
    <3> QED
      BY <2>1, <3>1, GridIsTheOne
  <2> DEFINE mine == MappingFor(mappings, k)
  <2>4. mine # <<>> /\ mine[1].columns = cells.names /\ mine[1].header = HeadOver(cells, b)
    BY <2>1, <2>2, <2>3 DEF NamesThem, HeadOver
  <2>5. r \in DataRows(Started(b, mine[1]))
    <3>1. IsGrid(cells.rows)
      BY DEF Offered, IsDocument
    <3>2. /\ BlockAt(cells.rows, HeadOver(cells, b)) # <<>>
          /\ r \in DataRows(BlockAt(cells.rows, HeadOver(cells, b))[1])
      BY <2>1, <3>1, UnderItsHeading
    <3> QED
      BY <2>1, <2>4, <3>2 DEF Started
  <2>6. CopiesAll(Started(b, mine[1]), cells.names, cells.rows, rows)
    <3>1. CopiesAll(Started(blocks[k], mine[1]), mine[1].columns, blocks[k].grid, rows)
      BY <2>4, FromTablesSays
    <3> QED
      BY <2>1, <2>2, <2>4, <3>1
  <2> HIDE DEF mine, rows, blocks
  <2>7. PICK row \in Range(rows) : row.row = r /\ row.item = ItemAt(cells.rows, r, cells.names)
    BY <2>5, <2>6, <2>9 DEF CopiesAll
  <2>8. row.file = document.name
    BY FromTablesSays DEF RowsOf, rows
  <2> QED
    BY <2>7, <2>8 DEF TakenFrom
<1> QED
  BY <1>1, <1>2 DEF AllTold

LEMMA TranscriptTells ==
  ASSUME NEW document, IsDocument(document), NEW d, SeenShown(d), IsList(d.items),
         Blocks(document) = <<>>,
         d.parts = Len(Parts(document)), SeenSoFar(document, d), NEW rows,
         DOMAIN rows = DOMAIN d.items, \A i \in DOMAIN d.items : rows[i].item = d.items[i]
  PROVE  AllTold(document, rows)
<1>1. Offered(document) = {}
  BY ListOfNone DEF Offered
<1>2. ASSUME NEW part \in Range(Parts(document)), NEW item \in Range(part.items)
      PROVE  \E row \in Range(rows) : Plain(row.item) = Plain(item)
  <2>1. IsList(Parts(document))
    BY PartsSay
  <2>2. PICK k \in 1..Len(Parts(document)) : Parts(document)[k] = part
    BY <2>1, ListSays
  <2>3. Plain(item) \in d.seen
    BY <2>2 DEF SeenSoFar
  <2>4. PICK i \in Range(d.items) : Plain(i) = Plain(item)
    BY <2>3 DEF SeenShown
  <2>5. PICK at0 \in DOMAIN d.items : d.items[at0] = i
    BY DEF Range
  <2>6. rows[at0] \in Range(rows) /\ rows[at0].item = i
    BY <2>5 DEF Range
  <2> QED
    BY <2>4, <2>6
<1> QED
  BY <1>1, <1>2 DEF AllTold

-----------------------------------------------------------------------------
\* Step by step.
LEMMA NoListYet ==
  ASSUME extraction' = <<>>
  PROVE  NothingLostInSilence'
BY ListOfNone DEF NothingLostInSilence

LEMMA FileIsLaidOut ==
  ASSUME ReadingInv, ToldInv, Reads
  PROVE  LaidOut(File)
<1>1. Turn \in 1..Len(files)
  <2>1. Len(read) \in Nat /\ Len(files) \in Nat
    BY ListSays DEF ReadingInv
  <2> QED
    BY <2>1 DEF Reads, Turn
<1>2. File \in Range(files)
  BY <1>1, ListSays DEF ReadingInv, File
<1> QED
  BY <1>2 DEF ToldInv

LEMMA FileIsTold ==
  ASSUME ReadingInv, ToldInv, Reads, NEW role, NEW rows, NEW warnings,
         ReadAs(role, rows, warnings),
         honest' => honest /\ Told(File, rows, warnings)
  PROVE  ToldInv'
<1> DEFINE entry == [role |-> role, rows |-> rows, warnings |-> warnings]
<1>1. /\ read' = Append(read, entry) /\ draft' = NoDraft
      /\ files' = files /\ extraction' = extraction
  BY DEF ReadAs
<1>2. entry.rows = rows /\ entry.warnings = warnings
  OBVIOUS
<1>3. IsList(read) /\ Len(read) \in Nat /\ DOMAIN read = 1..Len(read)
  BY ListSays DEF ReadingInv
<1> HIDE DEF entry
<1>4. /\ DOMAIN read' = 1..(Len(read) + 1)
      /\ read'[Len(read) + 1] = entry
      /\ \A k \in DOMAIN read : read'[k] = read[k]
  BY <1>1, <1>3, ListGrows
<1>5. \A f \in Range(files') : LaidOut(f)
  BY <1>1 DEF ToldInv
<1>6. ASSUME honest', NEW k \in DOMAIN read'
      PROVE  Told(files'[k], read'[k].rows, read'[k].warnings)
  <2>1. CASE k = Len(read) + 1
    BY <1>1, <1>2, <1>4, <1>6, <2>1 DEF File, Turn
  <2>2. CASE k # Len(read) + 1
    <3>1. k \in DOMAIN read
      BY <1>3, <1>4, <2>2
    <3>2. Told(files[k], read[k].rows, read[k].warnings)
      BY <1>6, <3>1 DEF ToldInv
    <3> QED
      BY <1>1, <1>4, <3>1, <3>2
  <2> QED
    BY <2>1, <2>2
<1>7. draft'.parts = 0
  BY <1>1 DEF NoDraft
<1>8. NothingLostInSilence'
  BY <1>1, NoListYet DEF Reads
<1> QED
  BY <1>5, <1>6, <1>7, <1>8 DEF ToldInv

LEMMA DraftIsTold ==
  ASSUME ToldInv, Reads, UNCHANGED <<files, read, extraction>>, honest' => honest,
         draft'.parts # 0 => DraftTells(File, draft', honest')
  PROVE  ToldInv'
<1>1. File' = File /\ Reads'
  BY DEF File, Reads, Turn
<1>2. \A f \in Range(files') : LaidOut(f)
  BY DEF ToldInv
<1>3. honest' => \A k \in DOMAIN read' : Told(files'[k], read'[k].rows, read'[k].warnings)
  BY DEF ToldInv
<1>4. NothingLostInSilence'
  BY NoListYet DEF Reads
<1> QED
  BY <1>1, <1>2, <1>3, <1>4 DEF ToldInv

LEMMA ColumnsTell ==
  ASSUME ReadingInv, ToldInv, NameColumns
  PROVE  ToldInv'
<1>1. Reads /\ Blocks(File) # <<>> /\ draft.parts = 0
  BY DEF NameColumns, Shown
<1>2. IsDocument(File) /\ LaidOut(File)
  BY <1>1, FileIsADocument, FileIsLaidOut
<1> DEFINE copied(mappings) == FromTables(File, mappings)
<1>3. PICK mappings \in Mappings(Blocks(File)) :
        \/ /\ ReadAs("ITEM_GRID", copied(mappings).rows, copied(mappings).warnings)
           /\ honest' = (honest /\ NamesThem(File, mappings))
        \/ UNCHANGED <<files, read, draft, extraction, honest>>
        \/ ReadAs("ITEM_GRID", <<>>, {"mapping unverified"}) /\ UNCHANGED honest
  BY DEF NameColumns
<1>4. NamesThem(File, mappings) => AllTold(File, copied(mappings).rows)
  BY <1>1, <1>2, NamedIsTold
<1> HIDE DEF copied
<1>5. CASE /\ ReadAs("ITEM_GRID", copied(mappings).rows, copied(mappings).warnings)
           /\ honest' = (honest /\ NamesThem(File, mappings))
  <2>1. honest' => honest /\ Told(File, copied(mappings).rows, copied(mappings).warnings)
    BY <1>4, <1>5 DEF Told
  <2> QED
    BY <1>1, <1>5, <2>1, FileIsTold
<1>6. CASE UNCHANGED <<files, read, draft, extraction, honest>>
  BY <1>1, <1>6, DraftIsTold
<1>7. CASE ReadAs("ITEM_GRID", <<>>, {"mapping unverified"}) /\ UNCHANGED honest
  <2>1. Told(File, <<>>, {"mapping unverified"})
    BY DEF Told, NotRead
  <2> QED
    BY <1>1, <1>7, <2>1, FileIsTold
<1> QED
  BY <1>3, <1>5, <1>6, <1>7

LEMMA FirstPartTells ==
  ASSUME ReadingInv, ToldInv, TranscribeFirst
  PROVE  ToldInv'
<1>1. /\ Reads /\ Blocks(File) = <<>> /\ Parts(File) # <<>>
      /\ UNCHANGED <<files, read, extraction>>
  BY DEF TranscribeFirst, Shown
<1>2. PICK given \in Answers(Parts(File)[1], <<>>), fails \in BOOLEAN :
        /\ draft' = [parts |-> 1, items |-> given, seen |-> {Plain(i) : i \in Range(given)},
                     warnings |-> IF fails THEN {"transcription partial"} ELSE {}]
        /\ honest' = (honest /\ (fails \/ Truthful(Parts(File)[1], given)))
  BY DEF TranscribeFirst
<1>3. 1 <= Len(Parts(File))
  <2>1. IsList(Parts(File)) /\ Len(Parts(File)) \in Nat
    BY <1>1, FileIsADocument, PartsSay
  <2> DEFINE parts == Parts(File)
  <2>2. parts # <<>> /\ parts \in Seq(Range(parts)) /\ Len(parts) \in Nat
    BY <1>1, <2>1 DEF IsList
  <2> HIDE DEF parts
  <2>3. 1 <= Len(parts)
    BY <2>2
  <2> QED
    BY <2>3 DEF parts
<1>4. /\ draft'.parts = 1 /\ draft'.seen = {Plain(i) : i \in Range(given)}
      /\ fails => "transcription partial" \in draft'.warnings
  BY <1>2
<1>5. honest' /\ "transcription partial" \notin draft'.warnings => SeenSoFar(File, draft')
  <2>1. SUFFICES ASSUME Truthful(Parts(File)[1], given) PROVE SeenSoFar(File, draft')
    BY <1>2, <1>4
  <2>2. \A item \in Range(Parts(File)[1].items) : Plain(item) \in draft'.seen
    BY <1>4, <2>1 DEF Truthful
  <2>3. 1..1 = {1}
    OBVIOUS
  <2> QED
    BY <1>4, <2>2, <2>3 DEF SeenSoFar
<1>6. DraftTells(File, draft', honest')
  BY <1>1, <1>3, <1>4, <1>5 DEF DraftTells
<1>7. honest' => honest
  BY <1>2
<1> QED
  BY <1>1, <1>6, <1>7, DraftIsTold

LEMMA NextPartTells ==
  ASSUME ReadingInv, ToldInv, TranscribeNext
  PROVE  ToldInv'
<1> DEFINE next == draft.parts + 1
           parts == Parts(File)
<1>1. /\ Reads /\ next <= Len(parts) /\ UNCHANGED <<files, read, extraction>>
      /\ draft.parts # 0
  BY DEF TranscribeNext, Transcribing
<1>2. IsDraft(draft) /\ draft.parts \in Nat /\ next \in Nat /\ next \in 1..next
      /\ \A k \in 1..next : k \in 1..draft.parts \/ k = next
  BY DEF ReadingInv, IsDraft
<1>3. DraftTells(File, draft, honest)
  BY <1>1 DEF ToldInv
<1>4. CASE /\ draft' = [draft EXCEPT !.parts = next,
                                     !.warnings = @ \cup {"transcription partial"}]
           /\ UNCHANGED honest
  <2>1. draft'.parts = next /\ "transcription partial" \in draft'.warnings
    BY <1>2, <1>4 DEF IsDraft, Draft
  <2>2. DraftTells(File, draft', honest')
    BY <1>1, <1>3, <2>1 DEF DraftTells
  <2> QED
    BY <1>1, <1>4, <2>2, DraftIsTold
<1>5. CASE \E given \in Answers(parts[next], parts[next - 1].items) :
             /\ draft' = [AddFresh(draft, given) EXCEPT !.parts = next]
             /\ honest' = (honest /\ Truthful(parts[next], given))
  <2>1. PICK given \in Answers(parts[next], parts[next - 1].items) :
             /\ draft' = [AddFresh(draft, given) EXCEPT !.parts = next]
             /\ honest' = (honest /\ Truthful(parts[next], given))
    BY <1>5
  <2>2. IsList(parts[next].items)
    <3>1. Len(parts) \in Nat
      BY <1>1, FileIsADocument, PartsSay
    <3>2. next \in 1..Len(parts)
      <4> HIDE DEF next, parts
      <4> QED
        BY <1>1, <1>2, <3>1
    <3> HIDE DEF next
    <3> QED
      BY <1>1, <3>2, ItemsAreLists
  <2>3. IsList(given)
    BY <2>2, AnswersSay
  <2> DEFINE all == AddFresh(draft, given)
  <2>4. /\ IsDraft(all) /\ all.warnings = draft.warnings /\ draft.seen \subseteq all.seen
        /\ \A i \in Range(given) : Plain(i) \in all.seen
    BY <1>2, <2>3, AddFreshSays
  <2>5. draft' = [all EXCEPT !.parts = next]
    BY <2>1
  <2> HIDE DEF all, next
  <2>6. draft'.parts = next /\ draft'.seen = all.seen /\ draft'.warnings = draft.warnings
    BY <2>4, <2>5 DEF IsDraft, Draft
  <2>7. ASSUME honest', "transcription partial" \notin draft'.warnings
        PROVE  SeenSoFar(File, draft')
    <3>1. SeenSoFar(File, draft) /\ Truthful(parts[next], given)
      BY <1>3, <2>1, <2>6, <2>7 DEF DraftTells
    <3>2. \A item \in Range(parts[next].items) : Plain(item) \in all.seen
      BY <2>4, <3>1 DEF Truthful
    <3>3. \A k \in 1..draft.parts : \A item \in Range(parts[k].items) : Plain(item) \in all.seen
      BY <2>4, <3>1 DEF SeenSoFar
    <3> QED
      BY <1>2, <2>6, <3>2, <3>3 DEF SeenSoFar
  <2>8. DraftTells(File, draft', honest')
    BY <1>1, <1>3, <2>6, <2>7 DEF DraftTells
  <2>9. honest' => honest
    BY <2>1
  <2> QED
    BY <1>1, <2>8, <2>9, DraftIsTold
<1> QED
  BY <1>4, <1>5 DEF TranscribeNext

LEMMA FinishTells ==
  ASSUME ReadingInv, ToldInv, FinishTranscript
  PROVE  ToldInv'
<1> DEFINE rows == Transcribed(draft.items)
           warnings == draft.warnings \cup (IF draft.items = <<>> THEN {"no item rows"} ELSE {})
<1>1. /\ Reads /\ ReadAs("ITEM_TEXT", rows, warnings) /\ honest' = honest
      /\ draft.parts # 0 /\ draft.parts = Len(Parts(File))
  BY DEF FinishTranscript, Transcribing
<1>2. DraftTells(File, draft, honest)
  BY <1>1 DEF ToldInv
<1>3. /\ DOMAIN rows = DOMAIN draft.items
      /\ \A i \in DOMAIN draft.items : rows[i].item = draft.items[i]
  BY DEF Transcribed
<1>4. draft.warnings \subseteq warnings
  OBVIOUS
<1> HIDE DEF rows, warnings
<1>5. ASSUME honest, warnings \cap NotRead = {} PROVE AllTold(File, rows)
  <2>1. "transcription partial" \notin draft.warnings
    BY <1>4, <1>5 DEF NotRead
  <2>2. SeenSoFar(File, draft) /\ Blocks(File) = <<>>
    BY <1>2, <1>5, <2>1 DEF DraftTells
  <2>3. IsDocument(File) /\ SeenShown(draft) /\ IsList(draft.items)
    BY <1>1, FileIsADocument DEF ReadingInv, IsDraft
  <2> QED
    BY <1>1, <1>3, <2>2, <2>3, TranscriptTells
<1>6. honest' => honest /\ Told(File, rows, warnings)
  BY <1>1, <1>5 DEF Told
<1> QED
  BY <1>1, <1>6, FileIsTold

LEMMA BodyTells ==
  ASSUME DocumentsLaidOut, ReadingInv, ToldInv, TurnToTheBody
  PROVE  ToldInv'
<1>1. /\ files' = Append(files, MailBody) /\ UNCHANGED <<read, draft, extraction, honest>>
      /\ AllRead
  BY DEF TurnToTheBody
<1>2. IsList(files) /\ IsList(read) /\ Len(read) <= Len(files)
  BY DEF ReadingInv
<1>3. /\ Range(files') = Range(files) \cup {MailBody}
      /\ \A k \in DOMAIN files : files'[k] = files[k]
  BY <1>1, <1>2, ListGrows
<1>4. /\ Len(read) \in Nat /\ Len(files) \in Nat
      /\ DOMAIN read = 1..Len(read) /\ DOMAIN files = 1..Len(files)
  BY <1>2, ListSays
<1>5. \A f \in Range(files') : LaidOut(f)
  BY <1>3 DEF ToldInv, DocumentsLaidOut
<1>6. ASSUME honest', NEW k \in DOMAIN read'
      PROVE  Told(files'[k], read'[k].rows, read'[k].warnings)
  <2>1. k \in DOMAIN read /\ k \in DOMAIN files
    BY <1>1, <1>2, <1>4
  <2>2. Told(files[k], read[k].rows, read[k].warnings)
    BY <1>1, <1>6, <2>1 DEF ToldInv
  <2> QED
    BY <1>1, <1>3, <2>1, <2>2
<1>7. draft'.parts = 0
  <2>1. ~Reads
    BY <1>1, <1>4 DEF AllRead, Reads, Turn
  <2> QED
    BY <1>1, <2>1 DEF ToldInv
<1>8. NothingLostInSilence'
  BY <1>1, NoListYet DEF AllRead
<1> QED
  BY <1>5, <1>6, <1>7, <1>8 DEF ToldInv

\* The list is made of what every file was read into.
LEMMA ListTells ==
  ASSUME ReadingInv, ToldInv, Extract
  PROVE  ToldInv'
<1> DEFINE warnings == Merged.warnings \cup (UNION {f.codes : f \in Range(files)})
             \cup (IF Merged.rows = <<>> THEN {"no items anywhere"} ELSE {})
             \cup (IF Merged.conflicts # {} THEN {"same item two quantities"} ELSE {})
           e == [rows |-> Merged.rows, conflicts |-> Merged.conflicts, warnings |-> warnings]
           names == [k \in DOMAIN read |-> files[k].name]
<1>1. /\ extraction' = <<e>> /\ UNCHANGED <<files, read, draft, honest>> /\ AllRead
  BY DEF Extract
<1>2. IsList(read) /\ IsList(files) /\ Len(read) <= Len(files)
      /\ \A k \in DOMAIN read : RowsOf(read[k].rows, names[k]) /\ names[k] = files[k].name
  BY DEF ReadingInv
<1>3. /\ Len(read) \in Nat /\ Len(files) \in Nat
      /\ DOMAIN read = 1..Len(read) /\ DOMAIN files = 1..Len(files)
  BY <1>2, ListSays
<1>4. Len(files) = Len(read) /\ ~Reads
  <2>1. Len(read) + 1 > Len(files)
    BY <1>1 DEF AllRead, Turn
  <2>2. Len(files) = Len(read) /\ ~(Len(read) + 1 <= Len(files))
    <3>1. Len(read) \in Nat /\ Len(files) \in Nat /\ Len(read) <= Len(files)
      BY <1>2, <1>3
    <3> HIDE DEF names, e, warnings
    <3> QED
      BY ONLY <2>1, <3>1
  <2> QED
    BY <2>2 DEF Reads, Turn
<1> HIDE DEF names
<1>5. AllAreIn(Merged, read, names, Len(read))
  BY <1>2, MergedIsKept
<1>6. e.rows = Merged.rows /\ e.warnings = warnings /\ Merged.warnings \subseteq warnings
  OBVIOUS
<1> HIDE DEF e, warnings
<1>7. ASSUME honest, e.warnings \cap NotRead = {}, NEW f \in DOMAIN files
      PROVE  /\ \A cells \in Offered(files[f]) : OnTheList(e, f, cells)
             /\ Transcribable(files[f]) =>
                  \A part \in Range(Parts(files[f])) : \A item \in Range(part.items) :
                    \E row \in Range(e.rows) : Plain(row.item) = Plain(item)
  <2>1. f \in 1..Len(read) /\ f \in DOMAIN read
    BY <1>3, <1>4
  <2> DEFINE before == {names[g] : g \in 1..(f - 1)}
  <2>2. /\ read[f].warnings \subseteq Merged.warnings
        /\ \A row \in Range(read[f].rows) : IsAmong(Merged, row, before)
    BY <1>5, <2>1 DEF AllAreIn
  <2>3. AllTold(files[f], read[f].rows)
    <3>1. Told(files[f], read[f].rows, read[f].warnings)
      BY <1>7, <2>1 DEF ToldInv
    <3>2. read[f].warnings \cap NotRead = {}
      BY <1>6, <1>7, <2>2
    <3> QED
      BY <3>1, <3>2 DEF Told
  <2>4. before = {files[g].name : g \in 1..f - 1}
    <3>1. \A g \in 1..f - 1 : g \in DOMAIN read
      BY <1>3, <2>1
    <3> QED
      BY <1>2, <3>1
  <2> HIDE DEF before
  <2>5. ASSUME NEW cells \in Offered(files[f]), NEW r \in cells.lines
        PROVE  \E row \in Range(e.rows) :
                 \/ row.file = files[f].name /\ row.row = r
                 \/ /\ row.file \in before
                    /\ Plain(row.item) = Plain(ItemAt(cells.rows, r, cells.names))
    <3>1. PICK row \in Range(read[f].rows) : TakenFrom(files[f], row, cells, r)
      BY <2>3 DEF AllTold
    <3>2. PICK kept \in Range(Merged.rows) :
            kept = row \/ (kept.file \in before /\ Plain(kept.item) = Plain(row.item))
      BY <2>2 DEF IsAmong
    <3> QED
      BY <1>6, <3>1, <3>2 DEF TakenFrom
  <2>6. \A cells \in Offered(files[f]) : OnTheList(e, f, cells)
    BY <2>4, <2>5 DEF OnTheList
  <2>7. ASSUME Transcribable(files[f]),
               NEW part \in Range(Parts(files[f])), NEW item \in Range(part.items)
        PROVE  \E row \in Range(e.rows) : Plain(row.item) = Plain(item)
    <3>1. PICK row \in Range(read[f].rows) : Plain(row.item) = Plain(item)
      BY <2>3, <2>7 DEF AllTold
    <3>2. PICK kept \in Range(Merged.rows) :
            kept = row \/ (kept.file \in before /\ Plain(kept.item) = Plain(row.item))
      BY <2>2 DEF IsAmong
    <3> QED
      BY <1>6, <3>1, <3>2
  <2> QED
    BY <2>6, <2>7
<1>8. Range(<<e>>) = {e}
  BY ListOfOne
<1>9. NothingLostInSilence'
  BY <1>1, <1>7, <1>8 DEF NothingLostInSilence, IsHonest, OnTheList
<1>10. draft'.parts = 0
  BY <1>1, <1>4 DEF ToldInv
<1>11. /\ \A f \in Range(files') : LaidOut(f)
       /\ honest' => \A k \in DOMAIN read' : Told(files'[k], read'[k].rows, read'[k].warnings)
  BY <1>1 DEF ToldInv
<1> QED
  BY <1>9, <1>10, <1>11 DEF ToldInv

LEMMA ToldInvFollows ==
  ASSUME DocumentsLaidOut, ReadingInv, ToldInv, [Read]_reading
  PROVE  ToldInv'
<1>1. CASE PassOverEmpty
  <2> DEFINE warnings == IF File.container THEN {} ELSE {"nothing to read"}
  <2>1. /\ Reads /\ ReadAs("EMPTY", <<>>, warnings) /\ ~HasContent(File) /\ honest' = honest
    BY <1>1 DEF PassOverEmpty
  <2>2. Told(File, <<>>, warnings)
    BY <2>1, FileIsADocument, NothingToTell DEF Told
  <2> HIDE DEF warnings
  <2> QED
    BY <2>1, <2>2, FileIsTold
<1>2. CASE FailToAsk
  <2>1. Reads /\ ReadAs("UNREAD", <<>>, {"file could not be read"}) /\ honest' = honest
    BY <1>2 DEF FailToAsk, Shown
  <2>2. Told(File, <<>>, {"file could not be read"})
    BY DEF Told, NotRead
  <2> QED
    BY <2>1, <2>2, FileIsTold
<1>3. CASE CallSupporting
  <2>1. /\ Reads /\ ReadAs("SUPPORTING", <<>>, {})
        /\ honest' = (honest /\ ~ShowsItems(File))
    BY <1>3 DEF CallSupporting, Shown
  <2>2. IsDocument(File) /\ SheetsDiffer(File)
    BY <2>1, FileIsADocument, FileIsLaidOut DEF LaidOut
  <2>3. ~ShowsItems(File) => AllTold(File, <<>>)
    BY <2>2, NoLinesToTell
  <2>4. honest' => honest /\ Told(File, <<>>, {})
    BY <2>1, <2>3 DEF Told
  <2> QED
    BY <2>1, <2>4, FileIsTold
<1>4. CASE NameColumns
  BY <1>4, ColumnsTell
<1>5. CASE TranscribeFirst
  BY <1>5, FirstPartTells
<1>6. CASE TranscribeNext
  BY <1>6, NextPartTells
<1>7. CASE FinishTranscript
  BY <1>7, FinishTells
<1>8. CASE FindNoParts
  <2>1. /\ Reads /\ ReadAs("ITEM_TEXT", <<>>, {"no item rows"}) /\ honest' = honest
        /\ Blocks(File) = <<>> /\ Parts(File) = <<>>
    BY <1>8 DEF FindNoParts, Shown
  <2>2. ~ShowsItems(File)
    BY <2>1 DEF ShowsItems
  <2>3. IsDocument(File) /\ SheetsDiffer(File)
    BY <2>1, FileIsADocument, FileIsLaidOut DEF LaidOut
  <2>4. Told(File, <<>>, {"no item rows"})
    BY <2>2, <2>3, NoLinesToTell DEF Told
  <2> QED
    BY <2>1, <2>4, FileIsTold
<1>9. CASE TurnToTheBody
  BY <1>9, BodyTells
<1>10. CASE Extract
  BY <1>10, ListTells
<1>11. CASE UNCHANGED reading
  <2>1. UNCHANGED <<files, read, asked, draft, extraction, honest>>
    BY <1>11 DEF reading
  <2>2. NothingLostInSilence'
    BY <2>1 DEF ToldInv, NothingLostInSilence, OnTheList, IsHonest
  <2>3. draft'.parts # 0 => Reads' /\ DraftTells(File', draft', honest')
    BY <2>1 DEF ToldInv, Reads, File, Turn
  <2> QED
    BY <2>1, <2>2, <2>3 DEF ToldInv
<1> QED
  BY <1>1, <1>2, <1>3, <1>4, <1>5, <1>6, <1>7, <1>8, <1>9, <1>10, <1>11 DEF Read

LEMMA ToldInvBegins ==
  ASSUME DocumentsLaidOut, ReadingInit
  PROVE  ToldInv
<1>1. \A f \in Range(files) : LaidOut(f)
  BY DEF ReadingInit, DocumentsLaidOut
<1>2. read = <<>> /\ DOMAIN read = {}
  <2>1. DOMAIN <<>> = {}
    OBVIOUS
  <2> QED
    BY <2>1 DEF ReadingInit
<1>3. draft.parts = 0
  BY DEF ReadingInit, NoDraft
<1>4. NothingLostInSilence
  BY ListOfNone DEF ReadingInit, NothingLostInSilence
<1> QED
  BY <1>1, <1>2, <1>3, <1>4 DEF ToldInv

\* When every answer of the model was true and no warning owns up to rows that were not
\* read, every line of a table that was offered to it is on the list, and every item of
\* a file that was transcribed: whatever files there are, if their lines stand under
\* their headings, and however the reading of them goes.
THEOREM LinesAreNotLost ==
  ASSUME DocumentsLaidOut
  PROVE  ReadingSpec => []NothingLostInSilence
<1>1. ReadingInit => ReadingInv /\ ToldInv
  BY ReadingInvBegins, ToldInvBegins
<1>2. (ReadingInv /\ ToldInv) /\ [Read]_reading => (ReadingInv /\ ToldInv)'
  BY ReadingInvFollows, ToldInvFollows
<1>3. ToldInv => NothingLostInSilence
  BY DEF ToldInv
<1> QED
  BY <1>1, <1>2, <1>3, PTL DEF ReadingSpec
=============================================================================
