---------------------------- MODULE Subscription ----------------------------
(***************************************************************************)
(* SubscriptionManager: the background task that keeps a Graph change      *)
(* subscription alive, and the start, stop and death of the service around *)
(* it.  Without a live subscription no email reaches the service; with two *)
(* of them every email is announced twice.                                 *)
(*                                                                         *)
(* Time is counted in minutes and passes while the task sleeps or the      *)
(* service is down; a request takes none, but the service may be stopped   *)
(* or die between a request and its answer.                                *)
(***************************************************************************)
EXTENDS Naturals, FiniteSets

CONSTANTS
  Quota,      \* subscriptions Graph allows for the mailbox
  Expiration, \* SUBSCRIPTION_EXPIRATION_MINUTES
  Margin,     \* SUBSCRIPTION_RENEWAL_MARGIN_MINUTES
  RetryDelay, \* RETRY_DELAY_SECONDS, in minutes
  FaultSets,  \* what may go wrong: one of these sets, for a behaviour as a whole
  MaxUpsets   \* bound: stops and deaths of the service, subscriptions dropped

\* Graph refuses a request; carries it out and the answer is lost; drops a
\* subscription on its own; the service is stopped; it dies.
AllFaults == {"refuse", "lose", "drop", "stop", "crash"}

ASSUME FaultsAreFaults == FaultSets \subseteq SUBSET AllFaults
ASSUME MinutesAreNumbers ==
  /\ {Quota, Expiration, RetryDelay} \subseteq Nat \ {0}
  /\ {Margin, MaxUpsets} \subseteq Nat
\* The configuration does not enforce it; its defaults are 60 and 15.
ASSUME RenewsBeforeExpiry == 0 < Margin /\ 1 < Expiration

VARIABLES
  left,   \* at Graph, the minutes every subscription has to live, 0 for none
  id,     \* _subscription_id, 0 for None
  step,   \* what the task does next, "off" when the service is down
  stale,  \* what the listing of _drop_stale has still to delete
  answer, \* the id in the answer on its way to _create, 0 for an error
  delay,  \* minutes the task has still to sleep
  upsets,
  faults  \* what may go wrong in this behaviour

vars == <<left, id, step, stale, answer, delay, upsets, faults>>

Ids == 1..Quota
Live == {s \in Ids : left[s] > 0}
May(fault) == fault \in faults

Steps == {"off", "starting", "dropping", "keeping", "creating", "sleeping"}

Init ==
  /\ left = [s \in Ids |-> 0]
  /\ id = 0
  /\ step = "off"
  /\ stale = {}
  /\ answer = 0
  /\ delay = 0
  /\ upsets = 0
  /\ faults \in FaultSets

\* Faulty: an interval that forgets the margin.
IntervalToTheMinute == Expiration

\* _renewal_interval_seconds
RenewalInterval == IF Expiration > Margin + 1 THEN Expiration - Margin ELSE 1

\* The service comes up; whatever earlier runs left at Graph is still there.
Start ==
  /\ step = "off"
  /\ step' = "starting"
  /\ UNCHANGED <<left, id, stale, answer, delay, upsets, faults>>

\* Faulty: a task that trusts the last run to have cleaned up.
ListNothing ==
  /\ step = "starting"
  /\ stale' = {}
  /\ step' = "dropping"
  /\ UNCHANGED <<left, id, answer, delay, upsets, faults>>

\* _drop_stale lists the subscriptions of the resource; a failure is a
\* warning and the clean-up is over.
ListStale ==
  /\ step = "starting"
  /\ \/ stale' = Live /\ step' = "dropping"
     \/ May("refuse") /\ stale' = {} /\ step' = "keeping"
  /\ UNCHANGED <<left, id, answer, delay, upsets, faults>>

\* One delete of the listing.  An answer that is an error, one about a
\* subscription that is gone included, ends the clean-up.
DropStale ==
  /\ step = "dropping"
  /\ stale # {}
  /\ \E s \in stale :
       \/ /\ s \in Live
          /\ left' = [left EXCEPT ![s] = 0]
          /\ stale' = stale \ {s}
          /\ UNCHANGED step
       \/ /\ s \notin Live \/ May("refuse")
          /\ stale' = {} /\ step' = "keeping"
          /\ UNCHANGED left
       \/ /\ May("lose")
          /\ left' = [left EXCEPT ![s] = 0]
          /\ stale' = {} /\ step' = "keeping"
  /\ UNCHANGED <<id, answer, delay, upsets, faults>>

StaleDropped ==
  /\ step = "dropping"
  /\ stale = {}
  /\ step' = "keeping"
  /\ UNCHANGED <<left, id, stale, answer, delay, upsets, faults>>

\* _create, as far as Graph: it makes the subscription, or refuses - always
\* when the quota is used up.  Its answer may not come back.
RequestCreate ==
  /\ step = "keeping"
  /\ id = 0
  /\ \/ \E s \in Ids \ Live :
          /\ left' = [left EXCEPT ![s] = Expiration]
          /\ answer' = s \/ (May("lose") /\ answer' = 0)
     \/ /\ Live = Ids \/ May("refuse")
        /\ answer' = 0
        /\ UNCHANGED left
  /\ step' = "creating"
  /\ UNCHANGED <<id, stale, delay, upsets, faults>>

\* Faulty: a manager that still believes in a subscription it failed to renew.
SleepInFaith(kept) ==
  /\ id' = IF kept = 0 THEN id ELSE kept
  /\ delay' = IF kept = 0 THEN RetryDelay ELSE RenewalInterval
  /\ step' = "sleeping"

\* The task sleeps until the next renewal, or until the retry.
SleepAfter(kept) ==
  /\ id' = kept
  /\ delay' = IF kept = 0 THEN RetryDelay ELSE RenewalInterval
  /\ step' = "sleeping"

Created ==
  /\ step = "creating"
  /\ SleepAfter(answer)
  /\ answer' = 0
  /\ UNCHANGED <<left, stale, upsets, faults>>

\* _renew: a subscription that is gone cannot be renewed.  After any error
\* the manager forgets the id, and does not delete what it stands for.
Renew ==
  /\ step = "keeping"
  /\ id # 0
  /\ \/ /\ id \in Live
        /\ left' = [left EXCEPT ![id] = Expiration]
        /\ SleepAfter(id) \/ (May("lose") /\ SleepAfter(0))
     \/ /\ id \notin Live \/ May("refuse")
        /\ SleepAfter(0)
        /\ UNCHANGED left
  /\ UNCHANGED <<stale, answer, upsets, faults>>

Wake ==
  /\ step = "sleeping"
  /\ delay = 0
  /\ step' = "keeping"
  /\ UNCHANGED <<left, id, stale, answer, delay, upsets, faults>>

\* A minute passes; the event loop wakes the task when its sleep is over.
Tick ==
  /\ (step = "sleeping" /\ delay > 0) \/ (step = "off" /\ Live # {})
  /\ left' = [s \in Ids |-> IF left[s] > 0 THEN left[s] - 1 ELSE 0]
  /\ delay' = IF delay > 0 THEN delay - 1 ELSE 0
  /\ UNCHANGED <<id, step, stale, answer, upsets, faults>>

\* Graph removes a subscription it is not content with.
GraphDrops ==
  /\ May("drop")
  /\ upsets < MaxUpsets
  /\ upsets' = upsets + 1
  /\ \E s \in Live : left' = [left EXCEPT ![s] = 0]
  /\ UNCHANGED <<id, step, stale, answer, delay, faults>>

Down ==
  /\ upsets < MaxUpsets
  /\ upsets' = upsets + 1
  /\ step' = "off"
  /\ id' = 0 /\ stale' = {} /\ answer' = 0 /\ delay' = 0
  /\ UNCHANGED faults

\* stop: the task is cancelled wherever it stands, then the subscription it
\* knows of is deleted; a failure to do so is a warning.
Stop ==
  /\ May("stop")
  /\ step # "off"
  /\ \/ /\ id # 0
        /\ left' = [left EXCEPT ![id] = 0]
     \/ /\ id = 0 \/ May("refuse")
        /\ UNCHANGED left
  /\ Down

Crash ==
  /\ May("crash")
  /\ step # "off"
  /\ Down
  /\ UNCHANGED left

Go ==
  \/ Start \/ ListStale \/ DropStale \/ StaleDropped
  \/ RequestCreate \/ Created \/ Renew \/ Wake \/ Tick

Next == Go \/ GraphDrops \/ Stop \/ Crash

Spec == Init /\ [][Next]_vars

\* The task goes on whenever it can and time passes; a Graph that is asked
\* again and again does not fail every time.
FairSpec ==
  /\ Spec
  /\ WF_vars(Go)
  /\ SF_vars(RequestCreate /\ answer' # 0)

-----------------------------------------------------------------------------
\* Properties

\* Every variable has its type; nothing is remembered of a listing or an
\* answer outside the step that waits for it.
TypeOK ==
  /\ left \in [Ids -> 0..Expiration]
  /\ id \in {0} \cup Ids
  /\ step \in Steps
  /\ stale \subseteq Ids /\ (stale # {} => step = "dropping")
  /\ answer \in {0} \cup Ids /\ (answer # 0 => step = "creating")
  /\ delay \in 0..Expiration + RetryDelay
  /\ upsets \in 0..MaxUpsets
  /\ faults \in FaultSets

\* While the task is asleep and shows an id on /health, that subscription is
\* live, unless Graph drops subscriptions on its own: the renewal always comes
\* before the expiry, so no email is missed while the manager believes it is
\* watching.
ShownIsLive == ~May("drop") /\ id # 0 => id \in Live

\* Where every request succeeds, the class keeps its promise across restarts
\* and deaths: once it holds a subscription there is no other one.
ExactlyOne ==
  step = "sleeping" /\ ~(May("refuse") \/ May("lose") \/ May("drop")) => Live = {id}

\* subscription.py: "Keeps exactly one live Graph change subscription for a
\* resource."
NeverTwo == Cardinality(Live) <= 1

\* After a failed renewal, a refusal or a subscription Graph dropped, the
\* manager holds a live subscription again, unless the service goes down.
WatchesAgain == step # "off" ~> (id # 0 /\ id \in Live) \/ step = "off"
=============================================================================
