---------------------------- MODULE Classification ----------------------------
(***************************************************************************)
(* One email from its text to its label and its desk: the pipeline of      *)
(* services/classification/pipeline.py - the rules that need no model      *)
(* (domain/rules/fast_path.py), else the model, then the policy            *)
(* (domain/policy.py) - and the desk the handler settles on                *)
(* (domain/rules/regions.py; handlers._region, _extract).                  *)
(*                                                                         *)
(* Confidence is in hundredths.  What a region rule finds is the set of    *)
(* desks it names.                                                         *)
(***************************************************************************)
EXTENDS Message

CONSTANTS
  Emails,         \* [body, subject, attached, sender, recipients, named]
  Drafts,         \* what the model can answer
  AutoThreshold, ReviewThreshold,   \* CONFIDENCE_AUTO_THRESHOLD, CONFIDENCE_REVIEW_THRESHOLD
  FastPath        \* FAST_PATH_ENABLED

ASSUME BodiesAreLines == \A mail \in Emails : mail.body \in Seq(Range(mail.body))
ASSUME BandsAreOrdered ==
  AutoThreshold \in 0..100 /\ ReviewThreshold \in 0..AutoThreshold /\ FastPath \in BOOLEAN

VARIABLES
  email,          \* NormalizedEmail
  thread,         \* its newest message and the history under it
  verdict,        \* ClassificationResult
  desk,           \* the RegionMatch, or none
  at              \* "read", "classify", "route", "extract", "classified"

cvars == <<email, thread, verdict, desk, at>>

EmailCategory == {"NEW_RFQ", "UPDATED_RFQ", "PORTAL_RFQ_NOTIFICATION", "CUSTOMER_ORDER_PO",
  "CUSTOMER_CLARIFICATION", "SUPPLIER_CORRESPONDENCE", "QUOTE_STATUS_NOTIFICATION", "INTERNAL",
  "OUTBOUND_OWN", "SPAM_MARKETING", "AUTO_REPLY_SYSTEM", "OTHER_NON_ACTIONABLE", "UNCERTAIN"}

\* The answer schema admits nothing else.
ASSUME DraftsAreAnswers ==
  \A d \in Drafts : d.category \in EmailCategory /\ d.confidence \in 0..100

RfqCategories == {"NEW_RFQ", "UPDATED_RFQ", "PORTAL_RFQ_NOTIFICATION"}

\* CATEGORY_ACTION.
CategoryAction(category) ==
  CASE category \in RfqCategories -> "FORWARD_TO_DST"
    [] category = "CUSTOMER_ORDER_PO" -> "ROUTE_TO_ORDER_TEAM"
    [] category \in {"CUSTOMER_CLARIFICATION", "QUOTE_STATUS_NOTIFICATION"} -> "ROUTE_TO_CS"
    [] category = "SUPPLIER_CORRESPONDENCE" -> "ROUTE_TO_SOURCING"
    [] category = "UNCERTAIN" -> "HUMAN_REVIEW"
    [] OTHER -> "IGNORE"

-----------------------------------------------------------------------------
\* domain/rules/fast_path.py

ByRule(category, confidence, rule) ==
  [category |-> category, confidence |-> confidence, path |-> "RULES_FAST_PATH",
   is_rfq |-> "not asked", priority |-> "NORMAL", rule |-> rule]

\* _internal_only (R1): our own staff to our own staff, nobody external.
InternalOnly(mail) == mail.sender = "ours" /\ mail.recipients = "ours"

\* _empty_body (R2): nothing to read and nothing attached.
EmptyBody(mail, read) == mail.attached = {} /\ Filled(read.latest) < MinBody

\* match_fast_path: the first rule that decides, or none.
MatchFastPath(mail, read) ==
  CASE ~FastPath -> <<>>
    [] FastPath /\ InternalOnly(mail) -> <<ByRule("INTERNAL", 97, "R1")>>
    [] FastPath /\ ~InternalOnly(mail) /\ EmptyBody(mail, read) ->
         <<ByRule("OTHER_NON_ACTIONABLE", 95, "R2")>>
    [] OTHER -> <<>>

-----------------------------------------------------------------------------
\* domain/policy.py

\* _has_strong_rfq_signal.
HasStrongRfqSignal(signals, attached) ==
  "form" \in attached \/ signals \cap {"reference", "unspaced", "due"} # {}

\* finalize: the action from the category, the confidence bands, then the safety
\* net under what was about to be ignored.
Finalize(draft, signals, attached, warnings) ==
  LET is_rfq == draft.category \in RfqCategories
      unsure == draft.confidence < ReviewThreshold
      action == IF unsure THEN "HUMAN_REVIEW" ELSE CategoryAction(draft.category)
      saved == action = "IGNORE" /\ HasStrongRfqSignal(signals, attached)
      hit(is, name) == IF is THEN {name} ELSE {}
  IN [category     |-> draft.category,
      is_rfq       |-> is_rfq,
      action       |-> action,
      confidence   |-> Min({Max({draft.confidence, 0}), 100}),
      needs_review |-> draft.confidence < AutoThreshold \/ saved,
      priority     |-> IF "urgent" \in signals THEN "URGENT" ELSE draft.priority,
      path         |-> IF saved /\ draft.path = "LLM" THEN "LLM_WITH_GUARDRAIL_OVERRIDE"
                       ELSE draft.path,
      hits         |-> hit(draft.rule # "", draft.rule)
                         \cup hit(draft.is_rfq = (IF is_rfq THEN "no" ELSE "yes"), "mismatch")
                         \cup hit(unsure, "low confidence")
                         \cup hit(~unsure /\ draft.confidence < AutoThreshold, "below auto")
                         \cup hit(saved, "rfq signal in ignored email"),
      warnings     |-> warnings]

-----------------------------------------------------------------------------
\* domain/rules/regions.py

\* resolve_region: the first rule that names a desk decides, and decides nothing
\* when it names two.
ResolveRegion(found) ==
  LET speaks == {i \in DOMAIN found : found[i] # {}}
  IN IF speaks = {} \/ Cardinality(found[Min(speaks)]) > 1 THEN {} ELSE found[Min(speaks)]

\* handlers._region: what each rule names - the hint, the port, the words of the
\* subject and the newest message, the mailbox.  The form's port, once it has been
\* read, is asked instead of the one the patterns found.
Evidence(mail, port) == <<mail.named.hint, port, mail.named.words, mail.named.mailbox>>

BestPort(mail) == IF mail.named.form # {} THEN mail.named.form ELSE mail.named.port

-----------------------------------------------------------------------------
NamesNoDesk == [hint |-> {}, port |-> {}, form |-> {}, words |-> {}, mailbox |-> {}]
NoThread == [latest |-> <<>>, quoted |-> <<>>, warnings |-> {}]
NoVerdict == Finalize(ByRule("UNCERTAIN", 100, ""), {}, {}, {})

\* An email just fetched, described by the hints the rules read: who it is from and
\* to, what is attached, what the subject says.
ClassificationInit ==
  /\ email \in Emails
  /\ thread = NoThread /\ verdict = NoVerdict /\ desk = {}
  /\ at = "read"

\* pipeline._read_thread.
ReadMessage ==
  /\ at = "read"
  /\ thread' = ReadThread(email.body)
  /\ at' = "classify"
  /\ UNCHANGED <<email, verdict, desk>>

Settle(draft) ==
  /\ verdict' = Finalize(draft, SignalsOf(email.subject, thread), email.attached, thread.warnings)
  /\ at' = "route"
  /\ UNCHANGED <<email, thread, desk>>

\* classify: a hard rule decides and no model is called.
DecideByRule ==
  /\ at = "classify"
  /\ \E decision \in Range(MatchFastPath(email, thread)) : Settle(decision)

\* classify: the model decides; the policy runs over what it said.
AskTheModel ==
  /\ at = "classify"
  /\ MatchFastPath(email, thread) = <<>>
  /\ \E draft \in Drafts : Settle(draft)

\* handlers._read: only an RFQ goes to a desk.
Route ==
  /\ at = "route"
  /\ IF verdict.action = "FORWARD_TO_DST"
     THEN desk' = ResolveRegion(Evidence(email, email.named.port)) /\ at' = "extract"
     ELSE desk' = desk /\ at' = "classified"
  /\ UNCHANGED <<email, thread, verdict>>

\* handlers._extract: the form has been read, so the desk is asked for again with
\* the port it names, and the earlier answer stands when there is none.
RouteAgain ==
  /\ at = "extract"
  /\ LET again == ResolveRegion(Evidence(email, BestPort(email)))
     IN desk' = IF again = {} THEN desk ELSE again
  /\ at' = "classified"
  /\ UNCHANGED <<email, thread, verdict>>

ClassificationNext == ReadMessage \/ DecideByRule \/ AskTheModel \/ Route \/ RouteAgain

ClassificationSpec == ClassificationInit /\ [][ClassificationNext]_cvars

\* No email to classify.
NothingToClassify ==
  /\ email = [body |-> <<>>, subject |-> <<>>, attached |-> {}, sender |-> "none",
              recipients |-> "none", named |-> NamesNoDesk]
  /\ thread = NoThread /\ verdict = NoVerdict /\ desk = {} /\ at = "classified"

-----------------------------------------------------------------------------
\* Properties

\* The lines that make an email an RFQ for the policy.
NamesAnRfq == {"reference", "unspaced", "due"}

\* What a cut may begin at: a disclaimer, and a sign-off as well where the line
\* to be lost is no value.
Cuts(mark) == IF IsValue(mark) THEN {"tail"} ELSE {"tail", "sign off"}

\* The newest message as far as a line with such a mark is safe in it.
Written(body, mark) ==
  LET ends == {i \in DOMAIN body : IsBoundary(body, i) \/ body[i] \in Cuts(mark)}
  IN IF ends = {} THEN body ELSE SubSeq(body, 1, Min(ends) - 1)

\* "Missing a real RFQ costs the chandler a sale": an email that carries an RFQ
\* form, or names an RFQ or a quote due date in its subject, or in its newest
\* message - above every disclaimer, and above the signature unless it is a
\* reference that reads as a value - is never put away as needing nothing unless
\* a person is told to look, whichever rule or answer put it there.
AnRfqIsNotPutAway ==
  (/\ at = "classified" /\ verdict.action = "IGNORE"
   /\ \/ "form" \in email.attached
      \/ \E mark \in NamesAnRfq :
           mark \in Range(email.subject) \cup Range(Written(email.body, mark)))
    => verdict.needs_review

\* "No regex signal lost, because the stripper will not cut a region holding a
\* price, a quantity or a vessel name" (pipeline.py): a line of the newest message
\* that names an RFQ above the disclaimers is still there after cleaning.
NoSignalIsCut ==
  at # "read" =>
    \A mark \in NamesAnRfq :
      mark \in Range(Written(email.body, "reference")) => mark \in Range(thread.latest)

\* "Both rules need a sender, so on a dump with no header block the fast path
\* declines": no rule decides an email whose sender is not known.
RulesNeedASender ==
  verdict.path = "RULES_FAST_PATH" /\ verdict # NoVerdict => email.sender # "none"

\* "A genuine conflict must not be settled by a weaker signal": when the most
\* trustworthy rule that names a desk names two, no desk gets the RFQ.
ConflictsStayOpen ==
  at = "classified" /\ verdict.action = "FORWARD_TO_DST" =>
    LET found == Evidence(email, BestPort(email))
        speaks == {i \in DOMAIN found : found[i] # {}}
    IN speaks # {} /\ Cardinality(found[Min(speaks)]) > 1 => desk = {}
=============================================================================
