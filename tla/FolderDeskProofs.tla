-------------------------- MODULE FolderDeskProofs --------------------------
(***************************************************************************)
(* Theorems about FolderDesk, for every set of lines, suppliers, prices    *)
(* and codes: its invariants, what no step may do, and that it implements  *)
(* QuoteContract; about Keeping, which files the e-mail's own files in the *)
(* same records: what a record says came with an e-mail is there; and      *)
(* about Quotation, which draws the documents of an approved record.       *)
(*                                                                         *)
(* The invariant that carries everything about the desk is IInv: before    *)
(* the sign-off no line holds an approved number.  Without it              *)
(* EveryLineOrNone is not inductive - a line left over from before could   *)
(* already be priced.  The one about the files is KeepingInv and the one   *)
(* about the documents Quoted, below.                                      *)
(***************************************************************************)
EXTENDS FolderDesk, Keeping, Quotation, FiniteSetTheorems, WellFoundedInduction, TLAPS

\* No number is frozen before somebody approves.
NothingFrozenYet == approval = None => \A l \in Lines : approved[l] = None

IInv == TypeOK /\ NothingFrozenYet

-----------------------------------------------------------------------------
\* Every variable keeps its type, and nothing is held for a line the record
\* does not have: every endpoint and the pipeline's write preserve it.
THEOREM TypeCorrect == Spec => []TypeOK
<1>1. Init => TypeOK
  BY DEF Init, TypeOK, NoLine, Letter
<1>2. TypeOK /\ [Next]_vars => TypeOK'
  <2> SUFFICES ASSUME TypeOK, [Next]_vars PROVE TypeOK'
    OBVIOUS
  <2> USE DEF TypeOK
  <2>1. ASSUME NEW S \in SUBSET Lines, NEW found \in [Lines -> Codes \cup {None}],
               LandMatching(S, found)
        PROVE TypeOK'
    BY <2>1 DEF LandMatching, NoLine
  <2>2. ASSUME NEW l \in Lines, NEW c \in Codes, ConfirmLine(l, c) PROVE TypeOK'
    BY <2>2 DEF ConfirmLine
  <2>3. ASSUME NEW l \in Lines, UnconfirmLine(l) PROVE TypeOK'
    BY <2>3 DEF UnconfirmLine
  <2>4. ASSUME NEW Q \in SUBSET Letter, SendInquiries(Q) PROVE TypeOK'
    BY <2>4 DEF SendInquiries, lineVars
  <2>5. ASSUME NEW l \in Lines, NEW p \in Prices, PriceLine(l, p) PROVE TypeOK'
    BY <2>5 DEF PriceLine
  <2>6. ASSUME NEW l \in Lines, UnpriceLine(l) PROVE TypeOK'
    BY <2>6 DEF UnpriceLine
  <2>7. ASSUME NEW price \in Pricings, NEW m \in Margins, ApprovePricing(price, m)
        PROVE TypeOK'
    <3>1. PICK S \in SUBSET Lines : price \in [S -> Prices]
      BY DEF Pricings
    <3>2. approved' \in [Lines -> Prices \cup {None}]
      BY <2>7, <3>1 DEF ApprovePricing
    <3>3. QED
      BY <2>7, <3>2 DEF ApprovePricing
  <2>8. ASSUME NEW sheet \in SUBSET Codes, SwapSheet(sheet) PROVE TypeOK'
    BY <2>8 DEF SwapSheet, lineVars
  <2>9. CASE UNCHANGED vars
    BY <2>9 DEF vars, lineVars
  <2>10. QED
    BY <2>1, <2>2, <2>3, <2>4, <2>5, <2>6, <2>7, <2>8, <2>9 DEF Next
<1>3. QED
  BY <1>1, <1>2, PTL DEF Spec

\* The strengthened invariant: types, and no approved number before a sign-off.
THEOREM Inductive == Spec => []IInv
<1>1. Init => NothingFrozenYet
  BY DEF Init, NothingFrozenYet, NoLine
<1>2. TypeOK /\ NothingFrozenYet /\ [Next]_vars => NothingFrozenYet'
  <2> SUFFICES ASSUME TypeOK, NothingFrozenYet, [Next]_vars PROVE NothingFrozenYet'
    OBVIOUS
  <2> USE DEF NothingFrozenYet
  <2>1. ASSUME NEW S \in SUBSET Lines, NEW found \in [Lines -> Codes \cup {None}],
               LandMatching(S, found)
        PROVE NothingFrozenYet'
    BY <2>1 DEF LandMatching, NoLine
  <2>2. ASSUME NEW price \in Pricings, NEW m \in Margins, ApprovePricing(price, m)
        PROVE NothingFrozenYet'
    BY <2>2, NothingIsNothing DEF ApprovePricing
  <2>3. CASE UNCHANGED <<approved, approval>>
    BY <2>3
  <2>4. QED
    BY <2>1, <2>2, <2>3 DEF Next, vars, lineVars, ConfirmLine, UnconfirmLine,
       SendInquiries, PriceLine, UnpriceLine, SwapSheet
<1>3. QED
  BY <1>1, <1>2, TypeCorrect, PTL DEF Spec, IInv

-----------------------------------------------------------------------------
\* No price stands on a line nobody was asked about, for any sequence of calls:
\* price_line looks for the letter, and inquire never takes one away.
THEOREM PricedOnlyIfAsked == Spec => []AskedBeforePriced
<1>1. Init => AskedBeforePriced
  BY DEF Init, AskedBeforePriced
<1>2. TypeOK /\ AskedBeforePriced /\ [Next]_vars => AskedBeforePriced'
  <2> SUFFICES ASSUME TypeOK, AskedBeforePriced, [Next]_vars PROVE AskedBeforePriced'
    OBVIOUS
  <2> USE DEF TypeOK, AskedBeforePriced, Asked
  <2>1. ASSUME NEW S \in SUBSET Lines, NEW found \in [Lines -> Codes \cup {None}],
               LandMatching(S, found)
        PROVE AskedBeforePriced'
    BY <2>1 DEF LandMatching, NoLine
  <2>2. ASSUME NEW Q \in SUBSET Letter, SendInquiries(Q) PROVE AskedBeforePriced'
    BY <2>2 DEF SendInquiries, lineVars
  <2>3. ASSUME NEW l \in Lines, NEW p \in Prices, PriceLine(l, p) PROVE AskedBeforePriced'
    BY <2>3 DEF PriceLine
  <2>4. ASSUME NEW l \in Lines, UnpriceLine(l) PROVE AskedBeforePriced'
    BY <2>4 DEF UnpriceLine
  <2>5. CASE UNCHANGED <<matched, offer, letters>>
    BY <2>5
  <2>6. QED
    BY <2>1, <2>2, <2>3, <2>4, <2>5 DEF Next, vars, lineVars, ConfirmLine, UnconfirmLine,
       ApprovePricing, SwapSheet
<1>3. QED
  BY <1>1, <1>2, TypeCorrect, PTL DEF Spec

\* A price and the moment it arrived are one fact: no call of the folder store
\* leaves one without the other.
THEOREM PriceAndDateAreOne == Spec => []PricedAndDated
<1>1. Init => PricedAndDated
  BY DEF Init, PricedAndDated, NoLine
<1>2. TypeOK /\ PricedAndDated /\ [Next]_vars => PricedAndDated'
  <2> SUFFICES ASSUME TypeOK, PricedAndDated, [Next]_vars PROVE PricedAndDated'
    OBVIOUS
  <2> USE DEF TypeOK, PricedAndDated
  <2>1. ASSUME NEW S \in SUBSET Lines, NEW found \in [Lines -> Codes \cup {None}],
               LandMatching(S, found)
        PROVE PricedAndDated'
    BY <2>1 DEF LandMatching, NoLine
  <2>2. ASSUME NEW l \in Lines, NEW p \in Prices, PriceLine(l, p) PROVE PricedAndDated'
    BY <2>2, NothingIsNothing DEF PriceLine
  <2>3. ASSUME NEW l \in Lines, UnpriceLine(l) PROVE PricedAndDated'
    BY <2>3 DEF UnpriceLine
  <2>4. CASE UNCHANGED <<offer, dated>>
    BY <2>4
  <2>5. QED
    BY <2>1, <2>2, <2>3, <2>4 DEF Next, vars, lineVars, ConfirmLine, UnconfirmLine,
       SendInquiries, ApprovePricing, SwapSheet
<1>3. QED
  BY <1>1, <1>2, TypeCorrect, PTL DEF Spec

\* An approval prices every line the record has at that moment, or - when it
\* comes before matching - none of those that land afterwards: a quotation
\* never has a number on one line and none on another.
THEOREM AllLinesOrNone == Spec => []EveryLineOrNone
<1>1. Init => EveryLineOrNone
  BY DEF Init, EveryLineOrNone, Quotable
<1>2. IInv /\ EveryLineOrNone /\ [Next]_vars => EveryLineOrNone'
  <2> SUFFICES ASSUME IInv, EveryLineOrNone, [Next]_vars PROVE EveryLineOrNone'
    OBVIOUS
  <2> USE DEF EveryLineOrNone, Quotable
  <2>1. ASSUME NEW S \in SUBSET Lines, NEW found \in [Lines -> Codes \cup {None}],
               LandMatching(S, found)
        PROVE EveryLineOrNone'
    BY <2>1 DEF LandMatching, NoLine
  <2>2. ASSUME NEW price \in Pricings, NEW m \in Margins, ApprovePricing(price, m)
        PROVE EveryLineOrNone'
    <3>1. PICK S \in SUBSET Lines : price \in [S -> Prices]
      BY DEF Pricings
    <3>2. matched' = matched /\ matched \subseteq S
      BY <2>2, <3>1 DEF ApprovePricing
    <3>3. \A l \in matched : approved'[l] \in Prices
      BY <2>2, <3>1, <3>2 DEF ApprovePricing
    <3>4. QED
      BY <3>2, <3>3, NothingIsNothing
  <2>3. CASE UNCHANGED <<matched, approved, approval>>
    BY <2>3
  <2>4. QED
    BY <2>1, <2>2, <2>3 DEF Next, vars, lineVars, ConfirmLine, UnconfirmLine,
       SendInquiries, PriceLine, UnpriceLine, SwapSheet
<1>3. QED
  BY <1>1, <1>2, Inductive, PTL DEF Spec

-----------------------------------------------------------------------------
\* The letters go out once: no step of the folder store changes them.
THEOREM LettersGoOutOnce == Spec => LettersStayAsSent
<1>1. [Next]_vars => [letters # {} => letters' = letters]_vars
  BY DEF Next, vars, lineVars, LandMatching, ConfirmLine, UnconfirmLine, SendInquiries,
     PriceLine, UnpriceLine, ApprovePricing, SwapSheet
<1>2. QED
  BY <1>1, PTL DEF Spec, LettersStayAsSent

\* An approval stays, and so does the number on every line it covered, whatever
\* is confirmed, priced, withdrawn, matched or read into the sheet after it.
THEOREM ApprovalStands == Spec => ApprovalIsFinal
<1> DEFINE Stands == approval' = approval
                     /\ \A l \in matched : l \in matched' /\ approved'[l] = approved[l]
<1>1. TypeOK /\ [Next]_vars => [Quotable => Stands]_vars
  <2> SUFFICES ASSUME TypeOK, Next, Quotable PROVE Stands
    OBVIOUS
  <2>1. ASSUME NEW S \in SUBSET Lines, NEW found \in [Lines -> Codes \cup {None}],
               LandMatching(S, found)
        PROVE Stands
    BY <2>1 DEF LandMatching
  <2>2. ASSUME NEW price \in Pricings, NEW m \in Margins, ApprovePricing(price, m)
        PROVE Stands
    BY <2>2 DEF ApprovePricing, Quotable
  <2>3. CASE UNCHANGED <<matched, approved, approval>>
    BY <2>3
  <2>4. QED
    BY <2>1, <2>2, <2>3 DEF Next, lineVars, ConfirmLine, UnconfirmLine, SendInquiries,
       PriceLine, UnpriceLine, SwapSheet
<1>2. QED
  BY <1>1, TypeCorrect, PTL DEF Spec, ApprovalIsFinal

-----------------------------------------------------------------------------
\* Every endpoint is a step of the abstract record or changes nothing it knows
\* of (the sheet, the confirmations and the dates are not part of it).
THEOREM FolderImplementsContract == Spec => ImplementsContract
<1>1. Init => Contract!Init
  BY DEF Init, Contract!Init, NoLine, Contract!NoLine
<1>2. IInv /\ [Next]_vars => [Contract!Next]_(Contract!vars)
  <2> SUFFICES ASSUME IInv, [Next]_vars PROVE [Contract!Next]_(Contract!vars)
    OBVIOUS
  <2> USE DEF IInv, TypeOK
  <2>1. ASSUME NEW S \in SUBSET Lines, NEW found \in [Lines -> Codes \cup {None}],
               LandMatching(S, found)
        PROVE Contract!Next
    <3>1. Contract!LandLines(S)
      BY <2>1 DEF LandMatching, Contract!LandLines, NoLine, Contract!NoLine
    <3>2. QED
      BY <3>1 DEF Contract!Next
  <2>2. ASSUME NEW Q \in SUBSET Letter, SendInquiries(Q) PROVE Contract!Next
    <3>1. Contract!SendLetters(Q)
      BY <2>2 DEF SendInquiries, Contract!SendLetters, lineVars
    <3>2. QED
      BY <3>1 DEF Contract!Next, Letter, Contract!Letter
  <2>3. ASSUME NEW l \in Lines, NEW p \in Prices, PriceLine(l, p) PROVE Contract!Next
    <3>1. Contract!TakeOffer(l, p)
      BY <2>3 DEF PriceLine, Contract!TakeOffer, Asked, Contract!Asked
    <3>2. QED
      BY <3>1 DEF Contract!Next
  <2>4. ASSUME NEW l \in Lines, UnpriceLine(l) PROVE Contract!Next
    <3>1. Contract!WithdrawOffer(l)
      BY <2>4 DEF UnpriceLine, Contract!WithdrawOffer
    <3>2. QED
      BY <3>1 DEF Contract!Next
  <2>5. ASSUME NEW price \in Pricings, NEW m \in Margins, ApprovePricing(price, m)
        PROVE Contract!Next
    <3> DEFINE frozen == [l \in Lines |-> IF l \in matched THEN price[l] ELSE None]
    <3>1. PICK S \in SUBSET Lines : price \in [S -> Prices]
      BY DEF Pricings
    <3>2. matched \subseteq S
      BY <2>5, <3>1 DEF ApprovePricing
    <3>3. frozen \in [Lines -> Prices \cup {None}]
      BY <3>1, <3>2
    <3>4. approved' = [l \in Lines |-> IF l \in matched THEN frozen[l] ELSE None]
      BY <2>5 DEF ApprovePricing
    <3>5. Contract!SignOff(frozen, m)
      BY <2>5, <3>4 DEF ApprovePricing, Contract!SignOff
    <3>6. QED
      BY <3>3, <3>5 DEF Contract!Next
  <2>6. CASE UNCHANGED <<matched, offer, approved, letters, approval>>
    BY <2>6 DEF Contract!vars
  <2>7. QED
    BY <2>1, <2>2, <2>3, <2>4, <2>5, <2>6 DEF Next, vars, lineVars, ConfirmLine,
       UnconfirmLine, SwapSheet
<1>3. QED
  BY <1>1, <1>2, Inductive, PTL DEF Spec, Contract!Spec, ImplementsContract

-----------------------------------------------------------------------------
(* The files of a record.  FilesAsTheyCame is not inductive: what a page    *)
(* may ask for was written before the record said so, so the entries under  *)
(* way are true of the disk as well, and whatever is still to be written    *)
(* goes to places no entry names.  That is what the names are made for: a   *)
(* new one is told from every other and from our own, and none is that of a *)
(* file being written.                                                      *)

\* A name no file has while it is written.
Settled(name) == name \in Names /\ (name.marks # <<>> => name.marks[Len(name.marks)] # Tmp)

\* No attachment is called like a file that is being written.
NoTemporaries ==
  /\ Settled(FormName)
  /\ \A d \in Deliveries : \A f \in Range(d) : Settled(f.name)

Safe(name) == Settled(name) /\ Lower(name) \notin {Lower(r) : r \in Reserved}

Holds(disk, place, what) == place \in DOMAIN disk /\ disk[place] = what

\* Only the file at this place, or beside it, is another than before.
OnlyAt(place, disk, more) ==
  \A p \in DOMAIN disk : p # place /\ p # Aside(place) => p \in DOMAIN more /\ more[p] = disk[p]

Within(kind, name) == <<IF kind = "blobs" THEN "attachments" ELSE "", name>>
FormWithin(kind, name) == <<IF kind = "blobs" THEN "form" ELSE "", name>>

\* An entry that says what became of the i-th attachment.
EntryTrue(e, i, kind, disk) ==
  /\ e.saved_as = <<>> => e.note # ""
  /\ e.saved_as # <<>> => e.saved_as = <<e.saved_as[1]>>
  /\ \A name \in Range(e.saved_as) :
       Safe(name) /\ Holds(disk, Within(kind, name), Attachment(i))

EntriesTrue(es, kind, disk) ==
  /\ es \in Seq(Range(es))
  /\ \A i \in DOMAIN es : EntryTrue(es[i], i, kind, disk)

FormTrue(form, kind, disk) ==
  /\ form # <<>> => form = <<form[1]>>
  /\ \A place \in Range(form) :
       /\ \E name \in {place[2]} : Safe(name) /\ place = FormWithin(kind, name)
       /\ Holds(disk, place, Ours("form"))

Nameless(r) == r.form = <<>> /\ \A i \in DOMAIN r.entries : r.entries[i].saved_as = <<>>

RecordTrue(r, count, kind, disk) ==
  /\ EntriesTrue(r.entries, kind, disk) /\ Len(r.entries) = count
  /\ FormTrue(r.form, kind, disk)

Shape(r) == DOMAIN r = {"step", "entries", "form"}

Filing ==
  /\ Shape(upkeep)
  /\ upkeep.step \in {"rest", "body", "file", "fill", "write", "replace"}
  /\ upkeep.step \in {"file", "fill"} =>
       /\ EntriesTrue(upkeep.entries, store, stored)
       /\ Len(upkeep.entries) <= Len(delivered) /\ upkeep.form = <<>> /\ fetched
       /\ noted # <<>> /\ \A r \in Range(noted) : Nameless(r)
  /\ upkeep.step = "fill" =>
       /\ NextKept <= Len(delivered) /\ AsNoted(delivered[NextKept]).note = ""
  /\ upkeep.step \in {"write", "replace"} => RecordTrue(upkeep, Len(delivered), store, stored)
  /\ upkeep.step = "body" => noted = <<>>

Recorded ==
  /\ noted # <<>> => noted = <<noted[1]>>
  /\ \A r \in Range(noted) :
       /\ Shape(r) /\ RecordTrue(r, Len(delivered), store, stored)
       /\ store = "folder" => Holds(stored, RecordPlace, Ours("record"))

Unfetched ==
  ~fetched => /\ \A r \in Range(noted) : Nameless(r)
              /\ upkeep.step \in {"write", "replace"} => Nameless(upkeep)

KeepingInv ==
  /\ store \in {"folder", "blobs"} /\ delivered \in Deliveries
  /\ Filing /\ Recorded /\ Unfetched

LEMMA LeastOfNumbers ==
  ASSUME NEW T \in SUBSET Nat, T # {}
  PROVE  Min(T) \in T
<1>1. PICK n \in T : \A m \in T : ~ (<<m, n>> \in OpToRel(<, Nat))
  BY NatLessThanWellFounded, WFMin
<1>2. ASSUME NEW m \in T, m < n PROVE FALSE
  <2>1. <<m, n>> \in Nat \X Nat /\ <<m, n>>[1] < <<m, n>>[2]
    BY <1>2
  <2>2. <<m, n>> \in OpToRel(<, Nat)
    BY <2>1, Zenon DEF OpToRel
  <2>3. QED
    BY <1>1, <2>2
<1>3. \E x \in T : \A y \in T : x <= y
  BY <1>2
<1> QED
  BY <1>3 DEF Min

LEMMA ImagesAreFinite ==
  ASSUME NEW S, IsFiniteSet(S), NEW f, DOMAIN f = S
  PROVE  IsFiniteSet({f[x] : x \in S})
<1> DEFINE T == {f[x] : x \in S}
           g == [x \in S |-> f[x]]
<1>1. g \in [S -> T] /\ \A t \in T : \E x \in S : g[x] = t
  OBVIOUS
<1>2. g \in Surjection(S, T)
  BY <1>1 DEF Surjection
<1> HIDE DEF T, g
<1>3. IsFiniteSet(T)
  BY <1>2, FS_Surjection
<1> QED
  BY <1>3 DEF T

LEMMA OneInRange == \A x : Range(<<x>>) = {x} /\ <<x>> # <<>> /\ <<x>>[1] = x
BY DEF Range

\* With a number or without, and in what case, a name is a name; the marks tell the
\* numbers apart.
LEMMA NumberedSays ==
  ASSUME NEW name, Settled(name), NEW k \in Nat \ {0}
  PROVE  /\ Settled(Numbered(name, k))
         /\ Lower(Numbered(name, k)).marks = IF k = 1 THEN name.marks ELSE Append(name.marks, k)
<1>1. name.text \in DOMAIN InLower /\ name.marks \in Seq(Nat) /\ name \in Names
  BY DEF Settled, Names
<1>2. CASE k = 1
  BY <1>1, <1>2 DEF Numbered, Lower, Names
<1>3. CASE k # 1
  <2> DEFINE longer == Append(name.marks, k)
             x == [name EXCEPT !.marks = longer]
  <2>1. longer \in Seq(Nat) /\ longer # <<>> /\ longer[Len(longer)] = k
    BY <1>1
  <2>2. x \in Names /\ x.marks = longer
    <3> HIDE DEF longer
    <3> QED
      BY <1>1, <2>1 DEF Names
  <2>3. Numbered(name, k) = x
    BY <1>3 DEF Numbered
  <2> HIDE DEF x, longer
  <2>4. Settled(x)
    BY <2>1, <2>2 DEF Settled, Tmp
  <2>5. Lower(x).marks = longer
    BY <2>2 DEF Lower, Names
  <2> QED
    BY <1>3, <2>3, <2>4, <2>5 DEF longer
<1> QED
  BY <1>2, <1>3

\* One more name than there are: one of them is new.
LEMMA UniqueSays ==
  ASSUME NEW name, Settled(name), NEW taken, IsFiniteSet(taken)
  PROVE  Settled(Unique(name, taken)) /\ Lower(Unique(name, taken)) \notin taken
<1> DEFINE n == Cardinality(taken) + 1
           of(k) == Lower(Numbered(name, k))
           free == {k \in 1..n : of(k) \notin taken}
<1>1. Cardinality(taken) \in Nat /\ n \in Nat
  BY FS_CardinalityType
<1>2. ASSUME NEW j \in 1..n, NEW k \in 1..n, of(j) = of(k)
      PROVE  j = k
  <2>1. /\ of(j).marks = IF j = 1 THEN name.marks ELSE Append(name.marks, j)
        /\ of(k).marks = IF k = 1 THEN name.marks ELSE Append(name.marks, k)
    <3>1. j \in Nat \ {0} /\ k \in Nat \ {0}
      <4> HIDE DEF n
      <4> QED
        BY <1>1
    <3> QED
      BY <3>1, NumberedSays
  <2>2. name.marks \in Seq(Nat)
    BY DEF Settled, Names
  <2> HIDE DEF of, n
  <2>3. j \in Nat /\ k \in Nat
    BY <1>1
  <2> DEFINE m == name.marks
  <2>4. /\ Append(m, j) # m /\ Append(m, k) # m
        /\ Append(m, j) = Append(m, k) => j = k
    <3>1. m \in Seq(Nat)
      BY <2>2
    <3> HIDE DEF m
    <3>2. /\ Len(Append(m, j)) = Len(m) + 1 /\ Len(Append(m, k)) = Len(m) + 1 /\ Len(m) \in Nat
          /\ Append(m, j)[Len(m) + 1] = j /\ Append(m, k)[Len(m) + 1] = k
      BY <2>3, <3>1
    <3> QED
      BY <3>2
  <2> QED
    BY <1>2, <2>1, <2>4
<1>3. free # {}
  <2> SUFFICES ASSUME free = {} PROVE FALSE
    OBVIOUS
  <2> DEFINE f == [k \in 1..n |-> of(k)]
  <2>1. f \in [1..n -> taken]
    <3> HIDE DEF of, n
    <3> QED
      OBVIOUS
  <2>2. IsFiniteSet(1..n) /\ Cardinality(1..n) = n
    <3> HIDE DEF n
    <3> QED
      BY <1>1, FS_Interval
  <2>3. Cardinality(taken) < Cardinality(1..n)
    BY <1>1, <2>2
  <2>4. \E j, k \in 1..n : j # k /\ f[j] = f[k]
    <3> DEFINE D == 1..n
    <3>1. /\ f \in [D -> taken] /\ IsFiniteSet(D) /\ IsFiniteSet(taken)
          /\ Cardinality(taken) < Cardinality(D)
      BY <2>1, <2>2, <2>3
    <3> HIDE DEF f, D
    <3>2. \E j, k \in D : j # k /\ f[j] = f[k]
      BY ONLY <3>1, FS_PigeonHole
    <3> QED
      BY <3>2 DEF D
  <2> HIDE DEF of, n
  <2> QED
    BY <1>2, <2>4
<1>4. Min(free) \in free
  <2>1. free \in SUBSET Nat
    <3> HIDE DEF of, n
    <3> QED
      BY <1>1
  <2> HIDE DEF free
  <2> QED
    BY <1>3, <2>1, LeastOfNumbers
<1>5. Unique(name, taken) = Numbered(name, Min(free))
  BY DEF Unique
<1> DEFINE k == Min(free)
<1>6. k \in Nat \ {0} /\ of(k) \notin taken
  <2> HIDE DEF k, of, n
  <2>1. k \in free
    BY <1>4 DEF k
  <2> QED
    BY <1>1, <2>1
<1> HIDE DEF k
<1> QED
  BY <1>5, <1>6, NumberedSays DEF k

\* The names taken so far are finitely many, and ours and those kept are among them.
LEMMA TakenSays ==
  ASSUME upkeep.entries \in Seq(Range(upkeep.entries)),
         \A e \in Range(upkeep.entries) : e.saved_as # <<>> => e.saved_as = <<e.saved_as[1]>>
  PROVE  /\ IsFiniteSet(TakenSoFar)
         /\ \A r \in Reserved : Lower(r) \in TakenSoFar
         /\ \A e \in Range(upkeep.entries) : \A name \in Range(e.saved_as) :
              Lower(name) \in TakenSoFar
<1> DEFINE es == upkeep.entries
           n == Len(es)
           S == {Range(e.saved_as) : e \in Range(es)}
           A == Reserved \cup UNION S
<1>1. n \in Nat /\ DOMAIN es = 1..n
  BY DEF Range
<1>2. IsFiniteSet(S)
  <2> DEFINE f == [i \in 1..n |-> Range(es[i].saved_as)]
  <2>1. S = {f[i] : i \in 1..n}
    <3>1. Range(es) = {es[i] : i \in 1..n}
      BY <1>1 DEF Range
    <3>2. S = {Range(es[i].saved_as) : i \in 1..n}
      <4> HIDE DEF es, n
      <4> QED
        BY <3>1
    <3> QED
      BY <3>2
  <2>2. IsFiniteSet(1..n)
    <3> HIDE DEF n
    <3> QED
      BY <1>1, FS_Interval
  <2>3. DOMAIN f = 1..n
    OBVIOUS
  <2> HIDE DEF f, S, n
  <2> QED
    BY <2>1, <2>2, <2>3, ImagesAreFinite
<1>3. \A T \in S : IsFiniteSet(T)
  <2> SUFFICES ASSUME NEW e \in Range(es) PROVE IsFiniteSet(Range(e.saved_as))
    OBVIOUS
  <2>1. CASE e.saved_as = <<>>
    <3>1. Range(<<>>) = {}
      BY DEF Range
    <3> QED
      BY <2>1, <3>1, FS_EmptySet
  <2>2. CASE e.saved_as = <<e.saved_as[1]>>
    <3>1. PICK x : e.saved_as = <<x>>
      BY <2>2
    <3>2. Range(e.saved_as) = {x}
      BY <3>1, OneInRange
    <3> QED
      BY <3>2, FS_Singleton
  <2> QED
    BY <2>1, <2>2
<1>4. IsFiniteSet(A)
  <2> HIDE DEF S
  <2>1. IsFiniteSet(UNION S)
    BY <1>2, <1>3, FS_UNION
  <2>2. IsFiniteSet(Reserved)
    <3>1. Reserved = {RecordName} \cup {BodyName}
      BY DEF Reserved
    <3> QED
      BY <3>1, FS_Singleton, FS_AddElement
  <2> QED
    BY <2>1, <2>2, FS_Union
<1>5. TakenSoFar = {Lower(name) : name \in A}
  BY DEF TakenSoFar
<1>6. IsFiniteSet(TakenSoFar)
  <2> DEFINE f == [name \in A |-> Lower(name)]
  <2>1. TakenSoFar = {f[name] : name \in A} /\ DOMAIN f = A
    BY <1>5
  <2> HIDE DEF f, A
  <2> QED
    BY <1>4, <2>1, ImagesAreFinite
<1> QED
  BY <1>5, <1>6

LEMMA KeptAsIsSafe ==
  ASSUME NoTemporaries, delivered \in Deliveries, NextKept \in DOMAIN delivered,
         EntriesTrue(upkeep.entries, store, stored)
  PROVE  /\ Safe(KeptAs)
         /\ \A i \in DOMAIN upkeep.entries : KeptAs \notin Range(upkeep.entries[i].saved_as)
<1>1. Settled(delivered[NextKept].name)
  <2>1. delivered[NextKept] \in Range(delivered)
    BY DEF Range
  <2> QED
    BY <2>1 DEF NoTemporaries
<1>2. /\ upkeep.entries \in Seq(Range(upkeep.entries))
      /\ \A e \in Range(upkeep.entries) : e.saved_as # <<>> => e.saved_as = <<e.saved_as[1]>>
  BY DEF EntriesTrue, EntryTrue, Range
<1>3. /\ IsFiniteSet(TakenSoFar)
      /\ \A r \in Reserved : Lower(r) \in TakenSoFar
      /\ \A e \in Range(upkeep.entries) : \A name \in Range(e.saved_as) :
           Lower(name) \in TakenSoFar
  BY <1>2, TakenSays
<1>4. Settled(KeptAs) /\ Lower(KeptAs) \notin TakenSoFar
  BY <1>1, <1>3, UniqueSays DEF KeptAs
<1>5. \A i \in DOMAIN upkeep.entries : upkeep.entries[i] \in Range(upkeep.entries)
  BY DEF Range
<1> QED
  BY <1>3, <1>4, <1>5 DEF Safe

LEMMA FormIsSafe ==
  ASSUME NoTemporaries, EntriesTrue(upkeep.entries, store, stored)
  PROVE  LET name == Unique(FormName, Taken)
         IN /\ Safe(name)
            /\ \A i \in DOMAIN upkeep.entries : name \notin Range(upkeep.entries[i].saved_as)
<1> DEFINE name == Unique(FormName, Taken)
<1>1. /\ upkeep.entries \in Seq(Range(upkeep.entries))
      /\ \A e \in Range(upkeep.entries) : e.saved_as # <<>> => e.saved_as = <<e.saved_as[1]>>
  BY DEF EntriesTrue, EntryTrue, Range
<1>2. /\ IsFiniteSet(TakenSoFar)
      /\ \A r \in Reserved : Lower(r) \in TakenSoFar
      /\ \A e \in Range(upkeep.entries) : \A n \in Range(e.saved_as) :
           Lower(n) \in TakenSoFar
  BY <1>1, TakenSays
<1>3. Settled(name) /\ Lower(name) \notin TakenSoFar
  BY <1>2, UniqueSays DEF NoTemporaries, Taken
<1>4. \A i \in DOMAIN upkeep.entries : upkeep.entries[i] \in Range(upkeep.entries)
  BY DEF Range
<1> HIDE DEF name
<1>5. /\ Safe(name)
      /\ \A i \in DOMAIN upkeep.entries : name \notin Range(upkeep.entries[i].saved_as)
  BY <1>2, <1>3, <1>4 DEF Safe
<1> QED
  BY <1>5 DEF name

\* What writing does to the disk.
LEMMA WritingSays ==
  ASSUME NEW place, NEW what
  PROVE  /\ Holds(Holding(place, what), place, what)
         /\ \A p \in DOMAIN stored : p # place =>
              p \in DOMAIN Holding(place, what) /\ Holding(place, what)[p] = stored[p]
         /\ OnlyAt(place, stored, Holding(place, what))
         /\ Holds(Replacing(place, what), place, what)
         /\ OnlyAt(place, stored, Replacing(place, what))
<1>1. /\ DOMAIN Holding(place, what) = DOMAIN stored \cup {place}
      /\ \A p \in DOMAIN stored \cup {place} :
           Holding(place, what)[p] = IF p = place THEN what ELSE stored[p]
  BY DEF Holding
<1>2. /\ DOMAIN Replacing(place, what) = (DOMAIN stored \ {Aside(place)}) \cup {place}
      /\ \A p \in (DOMAIN stored \ {Aside(place)}) \cup {place} :
           Replacing(place, what)[p] = IF p = place THEN what ELSE stored[p]
  BY DEF Replacing
<1> QED
  BY <1>1, <1>2 DEF Holds, OnlyAt

\* A settled name is not that of a file being written, nor a safe one our own.
LEMMA NotAside ==
  ASSUME NEW n, Settled(n), NEW m \in Names, NEW d, NEW x
  PROVE  <<x, n>> # Aside(<<d, m>>)
<1> DEFINE longer == Append(m.marks, Tmp)
           other == [m EXCEPT !.marks = longer]
<1>1. m.marks \in Seq(Nat)
  BY DEF Names
<1>2. longer # <<>> /\ longer[Len(longer)] = Tmp
  BY <1>1 DEF Tmp
<1>3. other.marks = longer
  BY DEF Names
<1>4. Aside(<<d, m>>) = <<d, other>>
  BY DEF Aside
<1> HIDE DEF other, longer
<1>5. n # other
  BY <1>2, <1>3 DEF Settled
<1> QED
  BY <1>4, <1>5

LEMMA NotOurs ==
  ASSUME NEW n, Safe(n)
  PROVE  n # RecordName /\ n # BodyName
BY DEF Safe, Reserved

LEMMA NoneInRange == Range(<<>>) = {} /\ DOMAIN <<>> = {} /\ Len(<<>>) = 0 /\ <<>> \in Seq({})
<1>1. DOMAIN <<>> = {} /\ <<>> \in Seq({}) /\ Len(<<>>) = 0
  OBVIOUS
<1> QED
  BY <1>1 DEF Range

\* What is true of some entries stays true when another file is written.
LEMMA EntriesStay ==
  ASSUME NEW es, NEW kind, NEW disk, NEW more, NEW d, NEW m \in Names,
         EntriesTrue(es, kind, disk), OnlyAt(<<d, m>>, disk, more),
         \A i \in DOMAIN es : \A n \in Range(es[i].saved_as) : Within(kind, n) # <<d, m>>
  PROVE  EntriesTrue(es, kind, more)
<1>1. ASSUME NEW i \in DOMAIN es PROVE EntryTrue(es[i], i, kind, more)
  <2>1. EntryTrue(es[i], i, kind, disk)
    BY DEF EntriesTrue
  <2>2. ASSUME NEW n \in Range(es[i].saved_as)
        PROVE  Safe(n) /\ Holds(more, Within(kind, n), Attachment(i))
    <3>1. Safe(n) /\ Holds(disk, Within(kind, n), Attachment(i))
      BY <2>1 DEF EntryTrue
    <3>2. Within(kind, n) # <<d, m>>
      OBVIOUS
    <3>3. Within(kind, n) # Aside(<<d, m>>)
      BY <3>1, NotAside DEF Within, Safe
    <3> QED
      BY <3>1, <3>2, <3>3 DEF Holds, OnlyAt
  <2> QED
    BY <2>1, <2>2 DEF EntryTrue
<1> QED
  BY <1>1 DEF EntriesTrue

LEMMA FormStays ==
  ASSUME NEW form, NEW kind, NEW disk, NEW more, NEW d, NEW m \in Names,
         FormTrue(form, kind, disk), OnlyAt(<<d, m>>, disk, more),
         \A p \in Range(form) : p # <<d, m>>
  PROVE  FormTrue(form, kind, more)
<1>1. ASSUME NEW p \in Range(form)
      PROVE  /\ \E n \in {p[2]} : Safe(n) /\ p = FormWithin(kind, n)
             /\ Holds(more, p, Ours("form"))
  <2>1. /\ \E n \in {p[2]} : Safe(n) /\ p = FormWithin(kind, n)
        /\ Holds(disk, p, Ours("form"))
    BY DEF FormTrue
  <2>2. PICK n : Safe(n) /\ p = FormWithin(kind, n)
    BY <2>1
  <2>3. p # Aside(<<d, m>>)
    BY <2>2, NotAside DEF FormWithin, Safe
  <2> QED
    BY <2>1, <2>3 DEF Holds, OnlyAt
<1> QED
  BY <1>1 DEF FormTrue

LEMMA RecordNameIsAName == RecordName \in Names
BY NamesAreNames

\* Writing the record disturbs nothing it speaks of.
LEMMA RecordStays ==
  ASSUME NEW r, NEW count, NEW kind, NEW disk, NEW more,
         RecordTrue(r, count, kind, disk), OnlyAt(RecordPlace, disk, more)
  PROVE  RecordTrue(r, count, kind, more)
<1>1. OnlyAt(<<"", RecordName>>, disk, more)
  BY DEF RecordPlace
<1>2. EntriesTrue(r.entries, kind, disk) /\ FormTrue(r.form, kind, disk)
  BY DEF RecordTrue
<1>3. ASSUME NEW i \in DOMAIN r.entries, NEW n \in Range(r.entries[i].saved_as)
      PROVE  Within(kind, n) # <<"", RecordName>>
  <2>1. Safe(n)
    BY <1>2 DEF EntriesTrue, EntryTrue
  <2> QED
    BY <2>1, NotOurs DEF Within
<1>4. ASSUME NEW p \in Range(r.form) PROVE p # <<"", RecordName>>
  <2>1. PICK n : Safe(n) /\ p = FormWithin(kind, n)
    BY <1>2 DEF FormTrue
  <2> QED
    BY <2>1, NotOurs DEF FormWithin
<1>5. EntriesTrue(r.entries, kind, more)
  BY <1>1, <1>2, <1>3, EntriesStay, RecordNameIsAName
<1>6. FormTrue(r.form, kind, more)
  BY <1>1, <1>2, <1>4, FormStays, RecordNameIsAName
<1> QED
  BY <1>5, <1>6 DEF RecordTrue

\* A record that names no file is as true of any disk.
LEMMA NamelessStays ==
  ASSUME NEW r, NEW count, NEW kind, NEW disk, NEW more, Nameless(r),
         RecordTrue(r, count, kind, disk)
  PROVE  RecordTrue(r, count, kind, more)
<1>1. \A i \in DOMAIN r.entries : EntryTrue(r.entries[i], i, kind, more)
  BY NoneInRange DEF Nameless, RecordTrue, EntriesTrue, EntryTrue
<1>2. FormTrue(r.form, kind, more)
  BY NoneInRange DEF Nameless, FormTrue
<1> QED
  BY <1>1, <1>2 DEF RecordTrue, EntriesTrue

LEMMA EntriesGrow ==
  ASSUME NEW es, NEW kind, NEW disk, EntriesTrue(es, kind, disk),
         NEW e, EntryTrue(e, Len(es) + 1, kind, disk)
  PROVE  EntriesTrue(Append(es, e), kind, disk) /\ Len(Append(es, e)) = Len(es) + 1
<1> DEFINE T == Range(es) \cup {e}
           more == Append(es, e)
<1>1. es \in Seq(T) /\ e \in T
  <2>1. es \in Seq(Range(es))
    BY DEF EntriesTrue
  <2> QED
    BY <2>1
<1>2. /\ DOMAIN es = 1..Len(es) /\ Len(es) \in Nat
      /\ more \in Seq(T) /\ Len(more) = Len(es) + 1 /\ DOMAIN more = 1..(Len(es) + 1)
      /\ more[Len(es) + 1] = e /\ \A i \in 1..Len(es) : more[i] = es[i]
  <2> HIDE DEF T
  <2> QED
    BY <1>1
<1> HIDE DEF more
<1>3. \A i \in DOMAIN more : EntryTrue(more[i], i, kind, disk)
  <2> TAKE i \in DOMAIN more
  <2>1. CASE i = Len(es) + 1
    BY <1>2, <2>1
  <2>2. CASE i # Len(es) + 1
    <3>1. i \in DOMAIN es /\ more[i] = es[i]
      BY <1>2, <2>2
    <3> QED
      BY <3>1 DEF EntriesTrue
  <2> QED
    BY <2>1, <2>2
<1>4. more \in Seq(Range(more))
  <2>1. more = [i \in 1..Len(more) |-> more[i]] /\ Len(more) \in Nat
    BY <1>2
  <2>2. \A i \in 1..Len(more) : more[i] \in Range(more)
    BY <1>2 DEF Range
  <2> QED
    BY <2>1, <2>2
<1>5. EntriesTrue(more, kind, disk) /\ Len(more) = Len(es) + 1
  BY <1>2, <1>3, <1>4 DEF EntriesTrue
<1> QED
  BY <1>5 DEF more

\* The customer's files and the form are written where the record is not.
LEMMA RecordIsLeftAlone ==
  ASSUME KeepingInv, \A r \in Range(noted) : Nameless(r), noted # <<>>,
         NEW d, NEW m \in Names, <<d, m>> # RecordPlace, OnlyAt(<<d, m>>, stored, stored'),
         UNCHANGED <<store, delivered, noted>>
  PROVE  Recorded'
<1>1. \A r \in Range(noted) : RecordTrue(r, Len(delivered), store, stored')
  BY NamelessStays DEF KeepingInv, Recorded
<1>2. store = "folder" => \A r \in Range(noted) : Holds(stored', RecordPlace, Ours("record"))
  <2>1. Settled(RecordName)
    BY RecordNameIsAName DEF Settled, RecordName
  <2>2. RecordPlace # Aside(<<d, m>>)
    BY <2>1, NotAside DEF RecordPlace
  <2> QED
    BY <2>2 DEF KeepingInv, Recorded, Holds, OnlyAt
<1> QED
  BY <1>1, <1>2 DEF KeepingInv, Recorded

LEMMA BodyIsWritten == KeepingInv /\ WriteBody => KeepingInv'
<1> SUFFICES ASSUME KeepingInv, WriteBody PROVE KeepingInv'
  OBVIOUS
<1> DEFINE es == [i \in DOMAIN delivered |-> [saved_as |-> <<>>, note |-> "not downloaded"]]
<1>1. noted = <<>>
  BY DEF KeepingInv, Filing, WriteBody
<1>2. delivered \in Seq(Range(delivered))
  BY NamesAreNames DEF KeepingInv
<1>3. /\ upkeep'.step = "write" /\ upkeep'.entries = es /\ upkeep'.form = <<>>
      /\ DOMAIN upkeep' = {"step", "entries", "form"}
      /\ UNCHANGED <<store, fetched, delivered, noted>>
  BY DEF WriteBody
<1>4. DOMAIN es = 1..Len(delivered) /\ Len(delivered) \in Nat
      /\ \A i \in DOMAIN es : es[i].saved_as = <<>> /\ es[i].note = "not downloaded"
  <2>1. DOMAIN delivered = 1..Len(delivered) /\ Len(delivered) \in Nat
    BY <1>2
  <2>2. /\ DOMAIN es = DOMAIN delivered
        /\ \A i \in DOMAIN es : es[i].saved_as = <<>> /\ es[i].note = "not downloaded"
    OBVIOUS
  <2> HIDE DEF es
  <2> QED
    BY <2>1, <2>2
<1>5. es = [i \in 1..Len(delivered) |-> es[i]]
  BY <1>2
<1> HIDE DEF es
<1>6. es \in Seq(Range(es)) /\ Len(es) = Len(delivered)
  <2>1. \A i \in 1..Len(delivered) : es[i] \in Range(es)
    BY <1>4 DEF Range
  <2>2. es \in [1..Len(delivered) -> Range(es)]
    BY <1>5, <2>1
  <2> DEFINE n == Len(delivered)
             T == Range(es)
  <2>3. n \in Nat /\ es \in [1..n -> T]
    BY <1>4, <2>2
  <2> HIDE DEF n, T
  <2>4. es \in Seq(T) /\ Len(es) = n
    BY <2>3
  <2> QED
    BY <2>4 DEF n, T
<1>7. \A i \in DOMAIN es : EntryTrue(es[i], i, store, stored')
  BY <1>4, NoneInRange DEF EntryTrue
<1>8. RecordTrue(upkeep', Len(delivered), store, stored') /\ Nameless(upkeep')
  BY <1>3, <1>4, <1>6, <1>7, NoneInRange DEF RecordTrue, EntriesTrue, FormTrue, Nameless
<1> QED
  BY <1>1, <1>3, <1>8, NoneInRange DEF KeepingInv, Filing, Recorded, Unfetched, Shape

LEMMA UpkeepBegins == KeepingInv /\ BeginUpkeep => KeepingInv'
<1> SUFFICES ASSUME KeepingInv, BeginUpkeep PROVE KeepingInv'
  OBVIOUS
<1>1. /\ upkeep'.step = "file" /\ upkeep'.entries = <<>> /\ upkeep'.form = <<>>
      /\ DOMAIN upkeep' = {"step", "entries", "form"} /\ fetched' = TRUE /\ ~fetched
      /\ UNCHANGED <<store, delivered, stored, noted>> /\ noted # <<>>
  BY DEF BeginUpkeep
<1>2. EntriesTrue(<<>>, store, stored)
  BY NoneInRange DEF EntriesTrue
<1>3. Len(<<>>) <= Len(delivered)
  <2>1. Len(delivered) \in Nat
    BY NamesAreNames DEF KeepingInv
  <2> QED
    BY <2>1, NoneInRange
<1>4. \A r \in Range(noted) : Nameless(r)
  BY <1>1 DEF KeepingInv, Unfetched
<1>5. Filing'
  BY <1>1, <1>2, <1>3, <1>4 DEF Filing, Shape
<1> QED
  BY <1>1, <1>5 DEF KeepingInv, Recorded, Unfetched

LEMMA FileIsNoted == KeepingInv /\ NoteFile => KeepingInv'
<1> SUFFICES ASSUME KeepingInv, NoteFile PROVE KeepingInv'
  OBVIOUS
<1> DEFINE e == AsNoted(delivered[NextKept])
<1>1. /\ upkeep.step = "file" /\ upkeep'.step = "file" /\ upkeep'.form = upkeep.form
      /\ upkeep'.entries = Append(upkeep.entries, e)
      /\ DOMAIN upkeep' = {"step", "entries", "form"}
      /\ UNCHANGED <<store, fetched, delivered, stored, noted>> /\ NextKept <= Len(delivered)
      /\ e.note # ""
  BY DEF NoteFile, KeepingInv, Filing, Shape
<1>2. e.saved_as = <<>>
  BY DEF AsNoted
<1> HIDE DEF e
<1>3. EntryTrue(e, Len(upkeep.entries) + 1, store, stored)
  BY <1>1, <1>2, NoneInRange DEF EntryTrue
<1>4. EntriesTrue(upkeep.entries, store, stored)
  BY <1>1 DEF KeepingInv, Filing
<1>5. /\ EntriesTrue(upkeep'.entries, store, stored)
      /\ Len(upkeep'.entries) = Len(upkeep.entries) + 1
  <2>1. /\ EntriesTrue(Append(upkeep.entries, e), store, stored)
        /\ Len(Append(upkeep.entries, e)) = Len(upkeep.entries) + 1
    BY ONLY <1>3, <1>4, EntriesGrow
  <2> QED
    BY <1>1, <2>1
<1> QED
  BY <1>1, <1>5 DEF KeepingInv, Filing, Recorded, Unfetched, Shape, NextKept

\* The place of the file in turn.
LEMMA FilePlace ==
  ASSUME KeepingInv, NoTemporaries, upkeep.step \in {"file", "fill"}, NextKept <= Len(delivered)
  PROVE  /\ Safe(KeptAs) /\ KeptAs \in Names
         /\ Place(KeptAs) = Within(store, KeptAs)
         /\ Place(KeptAs) # RecordPlace
         /\ \E d : Place(KeptAs) = <<d, KeptAs>>
         /\ \A i \in DOMAIN upkeep.entries : \A n \in Range(upkeep.entries[i].saved_as) :
              Within(store, n) # Place(KeptAs)
<1>1. EntriesTrue(upkeep.entries, store, stored) /\ delivered \in Deliveries
  BY DEF KeepingInv, Filing
<1>2. NextKept \in DOMAIN delivered
  <2>1. Len(upkeep.entries) \in Nat
    BY <1>1 DEF EntriesTrue
  <2>2. DOMAIN delivered = 1..Len(delivered) /\ Len(delivered) \in Nat
    BY <1>1, NamesAreNames
  <2> QED
    BY <2>1, <2>2 DEF NextKept
<1>3. /\ Safe(KeptAs)
      /\ \A i \in DOMAIN upkeep.entries : KeptAs \notin Range(upkeep.entries[i].saved_as)
  BY <1>1, <1>2, KeptAsIsSafe
<1>4. KeptAs \in Names /\ KeptAs # RecordName
  BY <1>3, NotOurs DEF Safe, Settled
<1> QED
  BY <1>3, <1>4 DEF Place, Within, RecordPlace

LEMMA FileIsEmptied == KeepingInv /\ NoTemporaries /\ EmptyFile => KeepingInv'
<1> SUFFICES ASSUME KeepingInv, NoTemporaries, EmptyFile PROVE KeepingInv'
  OBVIOUS
<1>1. /\ upkeep.step = "file" /\ upkeep'.step = "fill" /\ upkeep'.form = upkeep.form
      /\ upkeep'.entries = upkeep.entries
      /\ DOMAIN upkeep' = {"step", "entries", "form"}
      /\ UNCHANGED <<store, fetched, delivered, noted>> /\ NextKept <= Len(delivered)
      /\ AsNoted(delivered[NextKept]).note = ""
  BY DEF EmptyFile, Onto, KeepingInv, Filing, Shape
<1>2. /\ KeptAs \in Names /\ Place(KeptAs) # RecordPlace
      /\ \A i \in DOMAIN upkeep.entries : \A n \in Range(upkeep.entries[i].saved_as) :
           Within(store, n) # Place(KeptAs)
  BY <1>1, FilePlace
<1>3. PICK d : Place(KeptAs) = <<d, KeptAs>>
  BY <1>1, FilePlace
<1>4. OnlyAt(Place(KeptAs), stored, stored')
  <2>1. PICK p \in {Place(KeptAs), Aside(Place(KeptAs))} : stored' = Holding(p, Ours("torn"))
    BY DEF EmptyFile
  <2> QED
    BY <2>1, WritingSays DEF OnlyAt
<1>5. /\ \A r \in Range(noted) : Nameless(r)
      /\ noted # <<>> /\ EntriesTrue(upkeep.entries, store, stored)
  BY <1>1 DEF KeepingInv, Filing
<1>6. Recorded'
  BY <1>1, <1>2, <1>3, <1>4, <1>5, RecordIsLeftAlone
<1>7. EntriesTrue(upkeep.entries, store, stored')
  BY <1>2, <1>3, <1>4, <1>5, EntriesStay
<1> QED
  BY <1>1, <1>5, <1>6, <1>7 DEF KeepingInv, Filing, Unfetched, Shape, NextKept

LEMMA FileIsFilled == KeepingInv /\ NoTemporaries /\ FillFile => KeepingInv'
<1> SUFFICES ASSUME KeepingInv, NoTemporaries, FillFile PROVE KeepingInv'
  OBVIOUS
<1> DEFINE e == [AsNoted(delivered[NextKept]) EXCEPT !.saved_as = <<KeptAs>>]
<1>1. /\ upkeep.step = "fill" /\ upkeep'.step = "file" /\ upkeep'.form = upkeep.form
      /\ upkeep'.entries = Append(upkeep.entries, e)
      /\ DOMAIN upkeep' = {"step", "entries", "form"}
      /\ UNCHANGED <<store, fetched, delivered, noted>> /\ NextKept <= Len(delivered)
  BY DEF FillFile, KeepingInv, Filing, Shape
<1>2. /\ Safe(KeptAs) /\ KeptAs \in Names /\ Place(KeptAs) # RecordPlace
      /\ Place(KeptAs) = Within(store, KeptAs)
      /\ \A i \in DOMAIN upkeep.entries : \A n \in Range(upkeep.entries[i].saved_as) :
           Within(store, n) # Place(KeptAs)
  BY <1>1, FilePlace
<1>3. PICK d : Place(KeptAs) = <<d, KeptAs>>
  BY <1>1, FilePlace
<1>4. /\ OnlyAt(Place(KeptAs), stored, stored')
      /\ Holds(stored', Place(KeptAs), Attachment(NextKept))
  BY WritingSays DEF FillFile
<1>5. /\ \A r \in Range(noted) : Nameless(r)
      /\ noted # <<>> /\ EntriesTrue(upkeep.entries, store, stored)
  BY <1>1 DEF KeepingInv, Filing
<1>6. Recorded'
  BY <1>1, <1>2, <1>3, <1>4, <1>5, RecordIsLeftAlone
<1>7. EntriesTrue(upkeep.entries, store, stored')
  BY <1>2, <1>3, <1>4, <1>5, EntriesStay
<1>8. EntryTrue(e, Len(upkeep.entries) + 1, store, stored')
  <2>1. e.saved_as = <<KeptAs>>
    BY DEF AsNoted
  <2> HIDE DEF e
  <2>2. e.saved_as # <<>> /\ e.saved_as = <<e.saved_as[1]>> /\ Range(e.saved_as) = {KeptAs}
    BY <2>1, OneInRange
  <2>3. Holds(stored', Within(store, KeptAs), Attachment(Len(upkeep.entries) + 1))
    BY <1>2, <1>4 DEF NextKept
  <2> QED
    BY <1>2, <2>2, <2>3 DEF EntryTrue
<1> HIDE DEF e
<1>9. /\ EntriesTrue(upkeep'.entries, store, stored')
      /\ Len(upkeep'.entries) = Len(upkeep.entries) + 1
  BY <1>1, <1>7, <1>8, EntriesGrow
<1> QED
  BY <1>1, <1>5, <1>6, <1>9 DEF KeepingInv, Filing, Unfetched, Shape, NextKept

LEMMA FormIsKept == KeepingInv /\ NoTemporaries /\ KeepForm => KeepingInv'
<1> SUFFICES ASSUME KeepingInv, NoTemporaries, KeepForm PROVE KeepingInv'
  OBVIOUS
<1> DEFINE name == Unique(FormName, Taken)
<1>1. /\ upkeep.step = "file" /\ upkeep'.step = "write"
      /\ upkeep'.entries = upkeep.entries
      /\ DOMAIN upkeep' = {"step", "entries", "form"}
      /\ UNCHANGED <<store, fetched, delivered, noted>> /\ NextKept > Len(delivered)
      /\ \/ upkeep'.form = <<>> /\ stored' = stored
         \/ upkeep'.form = <<FormPlace(name)>> /\ stored' = Holding(FormPlace(name), Ours("form"))
  BY DEF KeepForm, KeepingInv, Filing, Shape
<1>2. /\ \A r \in Range(noted) : Nameless(r)
      /\ noted # <<>> /\ EntriesTrue(upkeep.entries, store, stored)
      /\ Len(upkeep.entries) <= Len(delivered) /\ fetched
  BY <1>1 DEF KeepingInv, Filing
<1>3. Len(upkeep.entries) = Len(delivered)
  <2>1. Len(upkeep.entries) \in Nat
    BY <1>2 DEF EntriesTrue
  <2>2. Len(delivered) \in Nat
    BY NamesAreNames DEF KeepingInv
  <2> QED
    BY <1>1, <1>2, <2>1, <2>2 DEF NextKept
<1>4. CASE upkeep'.form = <<>> /\ stored' = stored
  <2>1. FormTrue(<<>>, store, stored)
    BY NoneInRange DEF FormTrue
  <2>2. RecordTrue(upkeep', Len(delivered), store, stored)
    BY <1>1, <1>2, <1>3, <1>4, <2>1 DEF RecordTrue
  <2> QED
    BY <1>1, <1>2, <1>4, <2>2 DEF KeepingInv, Filing, Recorded, Unfetched, Shape
<1>5. CASE upkeep'.form = <<FormPlace(name)>> /\ stored' = Holding(FormPlace(name), Ours("form"))
  <2>1. /\ Safe(name)
        /\ \A i \in DOMAIN upkeep.entries : name \notin Range(upkeep.entries[i].saved_as)
    BY <1>2, FormIsSafe
  <2> HIDE DEF name
  <2>2. name \in Names /\ name # RecordName
    BY <2>1, NotOurs DEF Safe, Settled
  <2>3. FormPlace(name) = FormWithin(store, name) /\ FormPlace(name) # RecordPlace
    BY <2>2 DEF FormPlace, FormWithin, RecordPlace
  <2>4. PICK d : FormPlace(name) = <<d, name>>
    BY DEF FormPlace
  <2>5. OnlyAt(FormPlace(name), stored, stored') /\ Holds(stored', FormPlace(name), Ours("form"))
    BY <1>5, WritingSays
  <2>6. Recorded'
    BY <1>1, <1>2, <2>2, <2>3, <2>4, <2>5, RecordIsLeftAlone
  <2>7. EntriesTrue(upkeep.entries, store, stored')
    <3>1. \A i \in DOMAIN upkeep.entries : \A n \in Range(upkeep.entries[i].saved_as) :
            Within(store, n) # <<d, name>>
      BY <2>1, <2>4 DEF Within
    <3> QED
      BY <1>2, <2>2, <2>4, <2>5, <3>1, EntriesStay
  <2>8. FormTrue(upkeep'.form, store, stored')
    <3>1. Range(upkeep'.form) = {FormPlace(name)} /\ upkeep'.form = <<upkeep'.form[1]>>
      BY <1>5, OneInRange
    <3>2. FormPlace(name)[2] = name
      BY <2>4
    <3> QED
      BY <2>1, <2>3, <2>5, <3>1, <3>2 DEF FormTrue
  <2>9. RecordTrue(upkeep', Len(delivered), store, stored')
    BY <1>1, <1>3, <2>7, <2>8 DEF RecordTrue
  <2> QED
    BY <1>1, <1>2, <2>6, <2>9 DEF KeepingInv, Filing, Unfetched, Shape
<1> QED
  BY <1>1, <1>4, <1>5

LEMMA RewriteBegins == KeepingInv /\ Rewrite => KeepingInv'
<1> SUFFICES ASSUME KeepingInv, Rewrite PROVE KeepingInv'
  OBVIOUS
<1>1. /\ noted # <<>> /\ noted = <<noted[1]>> /\ upkeep' = [noted[1] EXCEPT !.step = "write"]
      /\ UNCHANGED <<store, fetched, delivered, stored, noted>>
  BY DEF Rewrite, KeepingInv, Recorded
<1>2. noted[1] \in Range(noted)
  BY <1>1, OneInRange
<1> DEFINE r == noted[1]
<1>3. Shape(r) /\ RecordTrue(r, Len(delivered), store, stored) /\ (~fetched => Nameless(r))
  BY <1>2 DEF KeepingInv, Recorded, Unfetched
<1>4. /\ upkeep'.step = "write" /\ upkeep'.entries = r.entries /\ upkeep'.form = r.form
      /\ DOMAIN upkeep' = {"step", "entries", "form"}
  BY <1>1, <1>3 DEF Shape
<1> HIDE DEF r
<1>5. RecordTrue(upkeep', Len(delivered), store, stored) /\ (~fetched => Nameless(upkeep'))
  BY <1>3, <1>4 DEF RecordTrue, Nameless
<1> QED
  BY <1>1, <1>4, <1>5 DEF KeepingInv, Filing, Recorded, Unfetched, Shape

LEMMA RecordIsWritten == KeepingInv /\ WriteAside => KeepingInv'
<1> SUFFICES ASSUME KeepingInv, WriteAside PROVE KeepingInv'
  OBVIOUS
<1>1. /\ upkeep.step = "write" /\ upkeep'.step = "replace" /\ upkeep'.form = upkeep.form
      /\ upkeep'.entries = upkeep.entries
      /\ DOMAIN upkeep' = {"step", "entries", "form"}
      /\ UNCHANGED <<store, fetched, delivered, noted>>
      /\ stored' = Holding(Aside(RecordPlace), Ours("torn"))
  BY DEF WriteAside, Onto, KeepingInv, Filing, Shape
<1>2. RecordPlace # Aside(RecordPlace)
  <2>1. Settled(RecordName)
    BY RecordNameIsAName DEF Settled, RecordName
  <2> QED
    BY <2>1, NotAside, RecordNameIsAName DEF RecordPlace
<1>3. /\ OnlyAt(RecordPlace, stored, stored')
      /\ Holds(stored, RecordPlace, Ours("record")) => Holds(stored', RecordPlace, Ours("record"))
  <2>1. \A p \in DOMAIN stored : p # Aside(RecordPlace) =>
          p \in DOMAIN stored' /\ stored'[p] = stored[p]
    BY <1>1, WritingSays
  <2> QED
    BY <1>2, <2>1 DEF OnlyAt, Holds
<1>4. RecordTrue(upkeep, Len(delivered), store, stored) /\ (~fetched => Nameless(upkeep))
  BY <1>1 DEF KeepingInv, Filing, Unfetched
<1>5. RecordTrue(upkeep, Len(delivered), store, stored')
  BY <1>3, <1>4, RecordStays
<1>6. RecordTrue(upkeep', Len(delivered), store, stored') /\ (~fetched => Nameless(upkeep'))
  BY <1>1, <1>4, <1>5 DEF RecordTrue, Nameless
<1>7. \A r \in Range(noted) : RecordTrue(r, Len(delivered), store, stored')
  BY <1>3, RecordStays DEF KeepingInv, Recorded
<1> QED
  BY <1>1, <1>3, <1>6, <1>7 DEF KeepingInv, Filing, Recorded, Unfetched, Shape

\* What was written is what the record says from now on.
LEMMA RecordIsReplaced == KeepingInv /\ (ReplaceRecord \/ CommitRecord) => KeepingInv'
<1> SUFFICES ASSUME KeepingInv, ReplaceRecord \/ CommitRecord PROVE KeepingInv'
  OBVIOUS
<1> DEFINE r == [upkeep EXCEPT !.step = "rest"]
<1>1. /\ upkeep.step \in {"write", "replace"} /\ upkeep' = AtRest /\ noted' = <<r>>
      /\ UNCHANGED <<store, fetched, delivered>>
      /\ \/ stored' = Replacing(RecordPlace, Ours("record"))
         \/ stored' = stored /\ store # "folder"
  BY DEF ReplaceRecord, CommitRecord
<1>2. /\ OnlyAt(RecordPlace, stored, stored')
      /\ store = "folder" => Holds(stored', RecordPlace, Ours("record"))
  BY <1>1, WritingSays DEF OnlyAt
<1>3. /\ RecordTrue(upkeep, Len(delivered), store, stored) /\ (~fetched => Nameless(upkeep))
      /\ Shape(upkeep)
  BY <1>1 DEF KeepingInv, Filing, Unfetched
<1>4. RecordTrue(upkeep, Len(delivered), store, stored')
  BY <1>2, <1>3, RecordStays
<1>5. r.entries = upkeep.entries /\ r.form = upkeep.form /\ Shape(r)
  BY <1>3 DEF Shape
<1> HIDE DEF r
<1>6. RecordTrue(r, Len(delivered), store, stored') /\ (~fetched => Nameless(r))
  BY <1>3, <1>4, <1>5 DEF RecordTrue, Nameless
<1>7. Range(noted') = {r} /\ noted' = <<noted'[1]>> /\ noted' # <<>>
  BY <1>1, OneInRange
<1>8. Shape(upkeep') /\ upkeep'.step = "rest"
  BY <1>1 DEF AtRest, Shape
<1> QED
  BY <1>1, <1>2, <1>5, <1>6, <1>7, <1>8 DEF KeepingInv, Filing, Recorded, Unfetched

LEMMA UpkeepIsGivenUp == KeepingInv /\ GiveUpUpkeep => KeepingInv'
<1> SUFFICES ASSUME KeepingInv, GiveUpUpkeep PROVE KeepingInv'
  OBVIOUS
<1>1. Shape(upkeep') /\ upkeep'.step = "rest"
  BY DEF GiveUpUpkeep, AtRest, Shape
<1> QED
  BY <1>1 DEF GiveUpUpkeep, KeepingInv, Filing, Recorded, Unfetched

LEMMA KeepingStarts == KeepingInit => KeepingInv
<1> SUFFICES ASSUME KeepingInit PROVE KeepingInv
  OBVIOUS
<1>1. Shape(upkeep) /\ upkeep.step = "body" /\ noted = <<>>
  BY DEF KeepingInit, AtRest, Shape
<1> QED
  BY <1>1, NoneInRange DEF KeepingInit, KeepingInv, Filing, Recorded, Unfetched

LEMMA KeepingGoesOn == KeepingInv /\ NoTemporaries /\ [KeepingNext]_keeping => KeepingInv'
<1> SUFFICES ASSUME KeepingInv, NoTemporaries, [KeepingNext]_keeping PROVE KeepingInv'
  OBVIOUS
<1>1. CASE UNCHANGED keeping
  BY <1>1 DEF keeping, KeepingInv, Filing, Recorded, Unfetched, NextKept
<1> QED
  BY <1>1, BodyIsWritten, UpkeepBegins, FileIsNoted, FileIsEmptied, FileIsFilled, FormIsKept,
     RewriteBegins, RecordIsWritten, RecordIsReplaced, UpkeepIsGivenUp DEF KeepingNext

LEMMA KeepingSays == KeepingInv => FilesAsTheyCame
<1> SUFFICES ASSUME KeepingInv, NEW r \in Range(noted)
             PROVE  /\ store = "folder" => BytesOf(RecordPlace) = <<Ours("record")>>
                    /\ Len(r.entries) = Len(delivered)
                    /\ \A i \in DOMAIN delivered :
                         /\ r.entries[i].saved_as = <<>> => r.entries[i].note # ""
                         /\ \A name \in Range(r.entries[i].saved_as) :
                              BytesOf(Place(name)) = <<Attachment(i)>>
                    /\ \A place \in Range(r.form) : BytesOf(place) = <<Ours("form")>>
  BY DEF FilesAsTheyCame
<1>1. /\ RecordTrue(r, Len(delivered), store, stored)
      /\ store = "folder" => Holds(stored, RecordPlace, Ours("record"))
  BY DEF KeepingInv, Recorded
<1>2. \A place, what : Holds(stored, place, what) => BytesOf(place) = <<what>>
  BY DEF Holds, BytesOf
<1>3. /\ Len(r.entries) = Len(delivered) /\ EntriesTrue(r.entries, store, stored)
      /\ FormTrue(r.form, store, stored)
  BY <1>1 DEF RecordTrue
<1>4. DOMAIN delivered = DOMAIN r.entries
  <2>1. DOMAIN r.entries = 1..Len(r.entries)
    BY <1>3 DEF EntriesTrue
  <2>2. DOMAIN delivered = 1..Len(delivered)
    BY NamesAreNames DEF KeepingInv
  <2> QED
    BY <1>3, <2>1, <2>2
<1>5. ASSUME NEW i \in DOMAIN delivered
      PROVE  /\ r.entries[i].saved_as = <<>> => r.entries[i].note # ""
             /\ \A name \in Range(r.entries[i].saved_as) :
                  BytesOf(Place(name)) = <<Attachment(i)>>
  <2>1. EntryTrue(r.entries[i], i, store, stored)
    BY <1>3, <1>4 DEF EntriesTrue
  <2>2. \A name : Place(name) = Within(store, name)
    BY DEF Place, Within
  <2> QED
    BY <1>2, <2>1, <2>2 DEF EntryTrue
<1>6. \A place \in Range(r.form) : BytesOf(place) = <<Ours("form")>>
  BY <1>2, <1>3 DEF FormTrue
<1> QED
  BY <1>1, <1>2, <1>3, <1>5, <1>6

\* A record is whole whenever a page may ask for it, each attachment is on it with the
\* reason it was not kept or with a name under which its own bytes are, and the form is
\* the form, whatever the attachments are called, as long as none is called like a file
\* being written, and wherever the service dies.
THEOREM FilesAreAsTheyCame ==
  ASSUME NoTemporaries
  PROVE  KeepingSpec => []FilesAsTheyCame
<1>1. KeepingInv /\ [KeepingNext]_keeping => KeepingInv'
  BY KeepingGoesOn
<1> QED
  BY <1>1, KeepingStarts, KeepingSays, PTL DEF KeepingSpec

-----------------------------------------------------------------------------
(* The documents of a quotation.  What a document says of a line stays true *)
(* of the record as long as what it is drawn from stays: the quantity, the  *)
(* price once signed, and the product the record was matched to.  The lines *)
(* a request has read have the prices of the record, or none of them.       *)

\* What the sheet says of a code is one of its rows.
LEMMA FoundInSheet ==
  ASSUME edition \in Editions, NEW code, InSheet(code) # <<>>
  PROVE  InSheet(code)[1] \in Range(edition)
<1> DEFINE own == {k \in DOMAIN edition : Normal[edition[k].code] = Normal[code]}
           other == {k \in DOMAIN edition : /\ edition[k].alias # ""
                                            /\ Normal[edition[k].alias] = Normal[code]}
           rows == IF own # {} THEN own ELSE other
<1>1. DOMAIN edition \subseteq Nat
  BY SheetsAreLists
<1>2. InSheet(code) = <<edition[Min(rows)]>> /\ own \cup other # {}
  BY DEF InSheet
<1>3. rows \in SUBSET Nat /\ rows # {}
  BY <1>1, <1>2
<1>4. Min(rows) \in rows
  <2> HIDE DEF rows
  <2> QED
    BY <1>3, LeastOfNumbers
<1>5. Min(rows) \in DOMAIN edition
  BY <1>4
<1> DEFINE row == edition[Min(rows)]
<1>6. row \in Range(edition)
  BY <1>5 DEF Range
<1>7. InSheet(code) = <<row>>
  BY <1>2
<1> HIDE DEF row, rows
<1> QED
  BY <1>6, <1>7

\* Two lists that agree on the totals of their lines agree on the sum.
LEMMA SameTotalsSameSum ==
  ASSUME NEW rows, NEW list, DOMAIN rows = DOMAIN list,
         \A i \in DOMAIN list : rows[i].total = TotalOf(list[i])
  PROVE  SumOfTotals(list)
           = FoldSeq(LAMBDA row, sum : IF row.total = <<>> THEN sum ELSE sum + row.total[1],
                     0, rows)
<1> DEFINE byLines(iter) ==
             iter = [s \in SUBSET (DOMAIN list) |->
                       IF s = {} THEN 0
                       ELSE LET x == CHOOSE x \in s : TRUE
                            IN IF TotalOf(list[x]) = <<>> THEN iter[s \ {x}]
                               ELSE iter[s \ {x}] + TotalOf(list[x])[1]]
           byRows(iter) ==
             iter = [s \in SUBSET (DOMAIN rows) |->
                       IF s = {} THEN 0
                       ELSE LET x == CHOOSE x \in s : TRUE
                            IN IF rows[x].total = <<>> THEN iter[s \ {x}]
                               ELSE iter[s \ {x}] + rows[x].total[1]]
<1>1. SumOfTotals(list) = (CHOOSE iter : byLines(iter))[DOMAIN list]
  BY DEF SumOfTotals, FoldSeq, FoldFunction, FoldFunctionOnSet, MapThenFoldSet
<1>2. FoldSeq(LAMBDA row, sum : IF row.total = <<>> THEN sum ELSE sum + row.total[1], 0, rows)
        = (CHOOSE iter : byRows(iter))[DOMAIN rows]
  BY DEF FoldSeq, FoldFunction, FoldFunctionOnSet, MapThenFoldSet
<1>3. ASSUME NEW iter PROVE byLines(iter) <=> byRows(iter)
  <2> DEFINE lineStep(s) == LET x == CHOOSE x \in s : TRUE
                            IN IF TotalOf(list[x]) = <<>> THEN iter[s \ {x}]
                               ELSE iter[s \ {x}] + TotalOf(list[x])[1]
             rowStep(s) == LET x == CHOOSE x \in s : TRUE
                            IN IF rows[x].total = <<>> THEN iter[s \ {x}]
                               ELSE iter[s \ {x}] + rows[x].total[1]
  <2>1. \A s \in SUBSET (DOMAIN list) : s # {} => (CHOOSE x \in s : TRUE) \in DOMAIN list
    OBVIOUS
  <2>2. \A s \in SUBSET (DOMAIN list) : s # {} => lineStep(s) = rowStep(s)
    BY <2>1
  <2>3. byLines(iter) <=> iter = [s \in SUBSET (DOMAIN list) |-> IF s = {} THEN 0 ELSE lineStep(s)]
    OBVIOUS
  <2>4. byRows(iter) <=> iter = [s \in SUBSET (DOMAIN list) |-> IF s = {} THEN 0 ELSE rowStep(s)]
    OBVIOUS
  <2> HIDE DEF lineStep, rowStep, byLines, byRows
  <2> QED
    BY <2>2, <2>3, <2>4
<1>4. (CHOOSE iter : byLines(iter)) = (CHOOSE iter : byRows(iter))
  <2> HIDE DEF byLines, byRows
  <2> QED
    BY <1>3
<1> QED
  BY <1>1, <1>2, <1>4

\* A row of a document, whatever it was drawn for, is one of these products'.
OfProduct(row, sheets) ==
  \E e \in sheets : \E r \in Range(e) :
    Normal[r.code] = Normal[row.product] /\ r.alias = row.code /\ r.words = row.words

\* The rows the record keeps, as a sheet of its own.
Kept(list) == [k \in DOMAIN list |-> list[k].row]

\* A line as it was read: the record's but for its price and its confirmation.
LineHolds(line, now) ==
  /\ DOMAIN line = {"code", "row", "confirmed", "quantity", "price"}
  /\ line.row = now.row /\ line.code = now.code /\ line.quantity = now.quantity
  /\ Normal[line.row.code] = Normal[line.code]

Unpriced(list) == \A i \in DOMAIN list : list[i].price = 0

RecordHolds ==
  /\ edition \in Editions
  /\ drawn # {} => signed
  /\ ~signed => Unpriced(record)
  /\ \A i \in DOMAIN record : LineHolds(record[i], record[i])
  /\ DOMAIN selected = DOMAIN record
  /\ \A i \in DOMAIN record : LineHolds(selected[i], record[i])
  /\ Unpriced(selected) \/ \A i \in DOMAIN record : selected[i].price = record[i].price

SumIsOfRows(d) ==
  d.sum = FoldSeq(LAMBDA row, sum : IF row.total = <<>> THEN sum ELSE sum + row.total[1],
                  0, d.rows)

DrawnFrom(d) ==
  /\ DOMAIN d.rows = DOMAIN record
  /\ \/ \A i \in DOMAIN record : d.rows[i].total = TotalOf(record[i])
     \/ ~NamesAmounts(d)
  /\ d.kind = "customer" =>
       \A i \in DOMAIN record : OfProduct(d.rows[i], Editions \cup {Kept(record)})
  /\ d.kind # "customer" => SumIsOfRows(d)

Quoted == RecordHolds /\ \A d \in drawn : DrawnFrom(d)

LEMMA QuotingStarts == QuotationInit => Quoted
BY LinesAreOfOneProduct DEF QuotationInit, Quoted, RecordHolds, LineHolds, Unpriced

\* What every document says of one line: its total and its product.
LEMMA RowPrinted ==
  ASSUME NEW kind \in {"page", "customer", "workbook"}, NEW line
  PROVE  Printed(kind, line).total = TotalOf(line)
<1>1. CASE kind = "page"
  BY <1>1 DEF Printed
<1>2. CASE kind = "customer"
  BY <1>2 DEF Printed
<1>3. CASE kind = "workbook"
  BY <1>3 DEF Printed
<1> QED
  BY <1>1, <1>2, <1>3

LEMMA CustomerRow ==
  ASSUME NEW line
  PROVE  LET row == Printed("customer", line)
             shown == MatchRow(line)
         IN row.product = shown.code /\ row.code = shown.item.alias /\ row.words = shown.item.words
BY DEF Printed

\* The customer's row of a line is of the product the line shows.
LEMMA RowIsOfProduct ==
  ASSUME Quoted, NEW i \in DOMAIN record
  PROVE  OfProduct(Printed("customer", selected[i]), Editions \cup {Kept(record)})
<1> DEFINE line == selected[i]
           shown == MatchRow(line)
           row == Printed("customer", line)
<1>1. row.product = shown.code /\ row.code = shown.item.alias /\ row.words = shown.item.words
  BY CustomerRow
<1>2. edition \in Editions /\ Normal[line.row.code] = Normal[line.code]
  BY DEF Quoted, RecordHolds, LineHolds
<1>3. /\ shown.item \in Range(edition) \/ shown.item \in Range(Kept(record))
      /\ Normal[shown.item.code] = Normal[shown.code]
  <2>1. CASE Confirmed(line) # <<>>
    <3>1. Confirmed(line) = InSheet(line.confirmed)
      BY <2>1 DEF Confirmed
    <3>2. shown.item = Confirmed(line)[1] /\ shown.code = Confirmed(line)[1].code
      BY <2>1 DEF MatchRow
    <3>3. Confirmed(line)[1] \in Range(edition)
      BY <1>2, <2>1, <3>1, FoundInSheet
    <3> QED
      BY <3>2, <3>3
  <2>2. CASE Confirmed(line) = <<>>
    <3>1. shown.item = Fields(line.code, line.row) /\ shown.code = line.code
      BY <2>2 DEF MatchRow
    <3>2. CASE InSheet(line.code) # <<>> /\ Normal[InSheet(line.code)[1].code] = Normal[line.code]
      <4>1. Fields(line.code, line.row) = InSheet(line.code)[1]
        BY <3>2 DEF Fields
      <4>2. InSheet(line.code)[1] \in Range(edition)
        BY <1>2, <3>2, FoundInSheet
      <4> QED
        BY <3>1, <3>2, <4>1, <4>2
    <3>3. CASE ~(InSheet(line.code) # <<>> /\ Normal[InSheet(line.code)[1].code] = Normal[line.code])
      <4>1. Fields(line.code, line.row) = line.row
        BY <3>3 DEF Fields
      <4>2. line.row \in Range(Kept(record))
        BY DEF Range, Kept, Quoted, RecordHolds, LineHolds
      <4> QED
        BY <1>2, <3>1, <4>1, <4>2
    <3> QED
      BY <3>2, <3>3
  <2> QED
    BY <2>1, <2>2
<1> HIDE DEF row, shown
<1>4. \E e \in Editions \cup {Kept(record)} : shown.item \in Range(e)
  BY <1>2, <1>3
<1>5. OfProduct(row, Editions \cup {Kept(record)})
  BY <1>1, <1>3, <1>4 DEF OfProduct
<1> QED
  BY <1>5 DEF row

\* A line has a total by its price and its quantity, and without a price none.
LEMMA SamePriceSameTotal ==
  ASSUME NEW a, NEW b, a.price = b.price, a.quantity = b.quantity
  PROVE  TotalOf(a) = TotalOf(b)
BY DEF TotalOf

LEMMA NoPriceNoTotal == ASSUME NEW a, a.price = 0 PROVE TotalOf(a) = <<>>
BY DEF TotalOf

\* A document, at the moment it is drawn.
LEMMA DrawnNow ==
  ASSUME Quoted, NEW kind \in {"page", "customer", "workbook"}
  PROVE  DrawnFrom(Document(kind, selected))
<1> DEFINE rows == [i \in DOMAIN selected |-> Printed(kind, selected[i])]
           d == Document(kind, selected)
<1>1. /\ d.kind = kind /\ d.rows = rows
      /\ kind # "customer" => d.sum = SumOfTotals(selected)
  BY DEF Document
<1>2. DOMAIN rows = DOMAIN selected /\ \A i \in DOMAIN selected : rows[i] = Printed(kind, selected[i])
  OBVIOUS
<1>3. DOMAIN selected = DOMAIN record
  BY DEF Quoted, RecordHolds
<1> HIDE DEF rows, d
<1>4. \A i \in DOMAIN selected : rows[i].total = TotalOf(selected[i])
  BY <1>2, RowPrinted
<1>5. SumOfTotals(selected)
        = FoldSeq(LAMBDA row, sum : IF row.total = <<>> THEN sum ELSE sum + row.total[1], 0, rows)
  BY <1>2, <1>4, SameTotalsSameSum
<1>6. kind = "customer" =>
        \A i \in DOMAIN record : OfProduct(rows[i], Editions \cup {Kept(record)})
  BY <1>2, <1>3, RowIsOfProduct
<1>7. \/ \A i \in DOMAIN record : rows[i].total = TotalOf(record[i])
      \/ ~NamesAmounts(d)
  <2>1. CASE Unpriced(selected)
    <3>1. \A i \in DOMAIN selected : TotalOf(selected[i]) = <<>>
      BY <2>1, NoPriceNoTotal DEF Unpriced
    <3> QED
      BY <1>1, <1>2, <1>4, <3>1 DEF NamesAmounts
  <2>2. CASE ~Unpriced(selected)
    <3>1. \A i \in DOMAIN record : /\ selected[i].price = record[i].price
                                   /\ selected[i].quantity = record[i].quantity
      BY <2>2 DEF Quoted, RecordHolds, LineHolds
    <3>2. \A i \in DOMAIN record : TotalOf(selected[i]) = TotalOf(record[i])
      BY <3>1, SamePriceSameTotal
    <3> QED
      BY <1>3, <1>4, <3>2
  <2> QED
    BY <2>1, <2>2
<1>8. DrawnFrom(d)
  BY <1>1, <1>2, <1>3, <1>5, <1>6, <1>7 DEF DrawnFrom, SumIsOfRows
<1> QED
  BY <1>8 DEF d

\* A step that leaves what documents are drawn from leaves the documents true.
LEMMA StillDrawnFrom ==
  ASSUME Quoted, drawn' = drawn, DOMAIN record' = DOMAIN record,
         \A i \in DOMAIN record : TotalOf(record'[i]) = TotalOf(record[i])
                                  /\ record'[i].row = record[i].row
  PROVE  \A d \in drawn' : DrawnFrom(d)'
<1>1. Kept(record') = Kept(record)
  BY DEF Kept
<1>2. ASSUME NEW d \in drawn PROVE DrawnFrom(d)'
  <2>1. DrawnFrom(d)
    BY DEF Quoted
  <2> QED
    <3>1. DOMAIN d.rows = DOMAIN record' /\ (d.kind # "customer" => SumIsOfRows(d))
      BY <2>1 DEF DrawnFrom
    <3>2. (\A i \in DOMAIN record' : d.rows[i].total = TotalOf(record'[i])) \/ ~NamesAmounts(d)
      BY <2>1 DEF DrawnFrom
    <3>3. d.kind = "customer" =>
            \A i \in DOMAIN record' : OfProduct(d.rows[i], Editions \cup {Kept(record')})
      BY <1>1, <2>1 DEF DrawnFrom
    <3>4. (SumIsOfRows(d)' <=> SumIsOfRows(d)) /\ (NamesAmounts(d)' <=> NamesAmounts(d))
      OBVIOUS
    <3> QED
      BY <3>1, <3>2, <3>3, <3>4 DEF DrawnFrom
<1> QED
  BY <1>2

LEMMA QuotingKept == Quoted /\ [QuotationNext]_quoting => Quoted'
<1> SUFFICES ASSUME Quoted, [QuotationNext]_quoting PROVE Quoted'
  OBVIOUS
\* A line that is confirmed as something, or as nothing.
<1>1. ASSUME NEW i \in DOMAIN record, NEW code,
             record' = [record EXCEPT ![i].confirmed = code],
             UNCHANGED <<edition, signed, selected, drawn>>
      PROVE  Quoted'
  <2>1. DOMAIN record' = DOMAIN record
    BY <1>1
  <2>2. ASSUME NEW k \in DOMAIN record
        PROVE  /\ DOMAIN record'[k] = DOMAIN record[k]
               /\ record'[k].row = record[k].row /\ record'[k].code = record[k].code
               /\ record'[k].price = record[k].price /\ record'[k].quantity = record[k].quantity
    <3>1. DOMAIN record[k] = {"code", "row", "confirmed", "quantity", "price"}
      BY DEF Quoted, RecordHolds, LineHolds
    <3> QED
      BY <1>1, <3>1
  <2>3. RecordHolds'
    BY <1>1, <2>1, <2>2 DEF Quoted, RecordHolds, LineHolds, Unpriced
  <2>4. \A d \in drawn' : DrawnFrom(d)'
    <3>1. \A k \in DOMAIN record : TotalOf(record'[k]) = TotalOf(record[k])
      BY <2>2, SamePriceSameTotal
    <3> QED
      BY <1>1, <2>1, <2>2, <3>1, StillDrawnFrom
  <2> QED
    BY <2>3, <2>4 DEF Quoted
<1>2. CASE Confirm
  BY <1>1, <1>2 DEF Confirm
<1>3. CASE Unconfirm
  BY <1>1, <1>3 DEF Unconfirm
<1>4. CASE Sign
  <2>1. drawn = {} /\ drawn' = {} /\ UNCHANGED <<edition, selected>> /\ signed' = TRUE
    BY <1>4 DEF Sign, Quoted, RecordHolds
  <2>2. PICK price : record' = [i \in DOMAIN record |-> [record[i] EXCEPT !.price = price[i]]]
    BY <1>4 DEF Sign
  <2>3. ASSUME NEW k \in DOMAIN record
        PROVE  /\ DOMAIN record'[k] = DOMAIN record[k]
               /\ record'[k].row = record[k].row /\ record'[k].code = record[k].code
               /\ record'[k].quantity = record[k].quantity
    <3>1. DOMAIN record[k] = {"code", "row", "confirmed", "quantity", "price"}
      BY DEF Quoted, RecordHolds, LineHolds
    <3>2. record'[k] = [record[k] EXCEPT !.price = price[k]]
      BY <2>2
    <3> QED
      BY <3>1, <3>2
  <2>4. Unpriced(selected)
    BY <1>4 DEF Sign, Quoted, RecordHolds, Unpriced
  <2>5. DOMAIN record' = DOMAIN record
    BY <2>2
  <2> QED
    BY <2>1, <2>3, <2>4, <2>5 DEF Quoted, RecordHolds, LineHolds, Unpriced
<1>5. CASE EditSheet
  <2>1. RecordHolds'
    BY <1>5 DEF EditSheet, Quoted, RecordHolds, LineHolds, Unpriced
  <2>2. \A d \in drawn' : DrawnFrom(d)'
    BY <1>5, StillDrawnFrom DEF EditSheet
  <2> QED
    BY <2>1, <2>2 DEF Quoted
<1>6. CASE ReadLines
  <2>1. RecordHolds'
    BY <1>6 DEF ReadLines, Quoted, RecordHolds, LineHolds, Unpriced
  <2>2. \A d \in drawn' : DrawnFrom(d)'
    BY <1>6, StillDrawnFrom DEF ReadLines
  <2> QED
    BY <2>1, <2>2 DEF Quoted
<1>7. CASE Draw
  <2>1. PICK kind \in {"page", "customer", "workbook"} :
          drawn' = drawn \cup {Document(kind, selected)}
    BY <1>7 DEF Draw
  <2>2. signed /\ UNCHANGED <<edition, record, signed, selected>>
    BY <1>7 DEF Draw
  <2>3. RecordHolds'
    BY <2>1, <2>2 DEF Quoted, RecordHolds, LineHolds, Unpriced
  <2>4. ASSUME NEW d \in drawn' PROVE DrawnFrom(d)'
    <3>1. DrawnFrom(d)
      BY <2>1, DrawnNow DEF Quoted
    <3>2. (SumIsOfRows(d)' <=> SumIsOfRows(d)) /\ (NamesAmounts(d)' <=> NamesAmounts(d))
      OBVIOUS
    <3>3. Kept(record') = Kept(record)
      BY <2>2
    <3> QED
      BY <2>2, <3>1, <3>2, <3>3 DEF DrawnFrom
  <2> QED
    BY <2>3, <2>4 DEF Quoted
<1>8. CASE UNCHANGED quoting
  <2>1. UNCHANGED <<edition, record, signed, selected, drawn>>
    BY <1>8 DEF quoting
  <2>2. RecordHolds'
    BY <2>1 DEF Quoted, RecordHolds, LineHolds, Unpriced
  <2>3. \A d \in drawn' : DrawnFrom(d)'
    BY <2>1, StillDrawnFrom
  <2> QED
    BY <2>2, <2>3 DEF Quoted
<1> QED
  BY <1>2, <1>3, <1>4, <1>5, <1>6, <1>7, <1>8 DEF QuotationNext

\* "One quotation, one rule for its totals": however the lines are settled, the sheet
\* edited and the pricing approved while documents are being read and drawn, any two of
\* an RFQ that name amounts ask the same of every line, and a sum is the sum of the
\* totals written above it.
THEOREM TotalsAreOne == QuotationSpec => []OneRuleForTotals
<1>1. QuotationSpec => []Quoted
  BY QuotingStarts, QuotingKept, PTL DEF QuotationSpec
<1>2. Quoted => OneRuleForTotals
  BY DEF Quoted, DrawnFrom, SumIsOfRows, OneRuleForTotals
<1> QED
  BY <1>1, <1>2, PTL

\* A customer's code that is another product's never swaps the row: the words in the
\* customer's file are of the product the document names, from a sheet there was or
\* from the record.
THEOREM RowsAreNotSwapped == QuotationSpec => []OneProductPerLine
<1>1. QuotationSpec => []Quoted
  BY QuotingStarts, QuotingKept, PTL DEF QuotationSpec
<1>2. Quoted => OneProductPerLine
  <2> SUFFICES ASSUME Quoted, NEW d \in drawn, d.kind = "customer", NEW i \in DOMAIN d.rows
               PROVE  OfProduct(d.rows[i], Editions \cup {Kept(record)})
    BY DEF OneProductPerLine, OfProduct, Kept
  <2> QED
    BY DEF Quoted, DrawnFrom
<1> QED
  BY <1>1, <1>2, PTL
=============================================================================
