------------------------- MODULE SubscriptionProofs -------------------------
(***************************************************************************)
(* What is proved of SubscriptionManager for every quota, expiry, margin   *)
(* and retry delay: that its state is well typed, and that an id it shows  *)
(* is live as long as Graph drops nothing on its own.                      *)
(*                                                                         *)
(* ShownIsLive is not inductive: it says nothing of how long the           *)
(* subscription has left when the task goes to sleep.  InTime adds that it *)
(* outlives the sleep, which is where RenewsBeforeExpiry comes in.         *)
(***************************************************************************)
EXTENDS Subscription, TLAPS

\* The subscription shown outlives the sleep of the task.
InTime == ~May("drop") =>
  /\ id # 0 => step \in {"keeping", "sleeping"} /\ left[id] > 0
  /\ id # 0 /\ step = "sleeping" => left[id] > delay
  /\ answer # 0 => left[answer] = Expiration

USE DEF May, Ids

\* The sleep after a success is a natural number shorter than the life of a
\* subscription.
LEMMA IntervalFits == RenewalInterval \in Nat /\ RenewalInterval < Expiration
BY MinutesAreNumbers, RenewsBeforeExpiry DEF RenewalInterval

LEMMA TypeInit == Init => TypeOK
BY MinutesAreNumbers DEF Init, TypeOK, Steps

LEMMA TypeStep == TypeOK /\ [Next]_vars => TypeOK'
<1> SUFFICES ASSUME TypeOK, [Next]_vars PROVE TypeOK'
  OBVIOUS
<1>0. faults' = faults
  BY DEF Next, Go, Start, ListStale, DropStale, StaleDropped, RequestCreate, Created,
         Renew, Wake, Tick, GraphDrops, Stop, Crash, Down, vars
<1> USE <1>0, MinutesAreNumbers, IntervalFits DEF TypeOK, Steps
<1>1. CASE Start
  BY <1>1 DEF Start
<1>2. CASE ListStale
  BY <1>2 DEF ListStale, Live
<1>3. CASE DropStale
  <2>1. PICK s \in stale : left' = left \/ left' = [left EXCEPT ![s] = 0]
    BY <1>3 DEF DropStale
  <2>2. s \in Ids /\ left' \in [Ids -> 0..Expiration]
    BY <2>1
  <2>3. /\ step' \in Steps /\ stale' \subseteq Ids
        /\ stale' # {} => step' = "dropping"
    BY <1>3 DEF DropStale
  <2> QED
    BY <1>3, <2>2, <2>3 DEF DropStale
<1>4. CASE StaleDropped
  BY <1>4 DEF StaleDropped
<1>5. CASE RequestCreate
  <2>1. step' = "creating" /\ UNCHANGED <<id, stale, delay, upsets>> /\ stale = {}
    BY <1>5 DEF RequestCreate
  <2>2. CASE \E s \in Ids \ Live : /\ left' = [left EXCEPT ![s] = Expiration]
                                   /\ answer' \in {0, s}
    <3>1. PICK s \in Ids : left' = [left EXCEPT ![s] = Expiration] /\ answer' \in {0, s}
      BY <2>2
    <3>2. left' \in [Ids -> 0..Expiration] /\ answer' \in {0} \cup Ids
      BY <3>1
    <3> QED
      BY <2>1, <3>2
  <2>3. CASE answer' = 0 /\ UNCHANGED left
    BY <2>1, <2>3
  <2> QED
    BY <1>5, <2>2, <2>3 DEF RequestCreate
<1>6. CASE Created
  BY <1>6 DEF Created, SleepAfter
<1>7. CASE Renew
  <2>1. /\ id' \in {0, id}
        /\ delay' \in {RetryDelay, RenewalInterval}
        /\ step' = "sleeping"
        /\ UNCHANGED <<stale, answer, upsets>>
    BY <1>7 DEF Renew, SleepAfter
  <2>2. left' = left \/ left' = [left EXCEPT ![id] = Expiration]
    BY <1>7 DEF Renew
  <2>3. left' \in [Ids -> 0..Expiration]
    BY <2>2
  <2>4. stale = {} /\ answer = 0
    BY <1>7 DEF Renew
  <2>5. delay' \in 0..Expiration + RetryDelay
    BY <2>1
  <2> QED
    BY <2>1, <2>3, <2>4, <2>5
<1>8. CASE Wake
  BY <1>8 DEF Wake
<1>9. CASE Tick
  BY <1>9 DEF Tick
<1>10. CASE GraphDrops
  BY <1>10 DEF GraphDrops, Live
<1>11. CASE Stop
  <2>1. Down
    BY <1>11 DEF Stop
  <2>2. /\ step' = "off" /\ id' = 0 /\ stale' = {} /\ answer' = 0 /\ delay' = 0
        /\ upsets' \in 0..MaxUpsets /\ faults' = faults
    BY <2>1 DEF Down
  <2>3. left' = left \/ left' = [left EXCEPT ![id] = 0]
    BY <1>11 DEF Stop
  <2>4. left' \in [Ids -> 0..Expiration]
    BY <2>3
  <2>5. "off" \in Steps
    BY DEF Steps
  <2> QED
    BY <2>2, <2>4, <2>5
<1>12. CASE Crash
  BY <1>12 DEF Crash, Down
<1>13. CASE UNCHANGED vars
  BY <1>13 DEF vars
<1> QED
  BY <1>1, <1>2, <1>3, <1>4, <1>5, <1>6, <1>7, <1>8, <1>9, <1>10, <1>11, <1>12,
     <1>13 DEF Next, Go

\* The state of the manager and of its subscriptions at Graph keeps its type.
THEOREM TypeCorrect == Spec => []TypeOK
BY TypeInit, TypeStep, PTL DEF Spec

LEMMA InTimeInit == Init => InTime
BY DEF Init, InTime

LEMMA InTimeStep == TypeOK /\ InTime /\ [Next]_vars => InTime'
<1> SUFFICES ASSUME TypeOK, InTime, [Next]_vars PROVE InTime'
  OBVIOUS
<1> USE MinutesAreNumbers, IntervalFits DEF TypeOK, Steps, InTime
<1>0. faults' = faults
  BY DEF Next, Go, Start, ListStale, DropStale, StaleDropped, RequestCreate, Created,
         Renew, Wake, Tick, GraphDrops, Stop, Crash, Down, vars
<1> SUFFICES ASSUME "drop" \notin faults PROVE InTime'
  BY <1>0
<1>1. CASE Start
  BY <1>1 DEF Start
<1>2. CASE ListStale
  BY <1>2 DEF ListStale, Live
<1>3. CASE DropStale
  BY <1>3 DEF DropStale, Live
<1>4. CASE StaleDropped
  BY <1>4 DEF StaleDropped
<1>5. CASE RequestCreate
  BY <1>5 DEF RequestCreate, Live
<1>6. CASE Created
  BY <1>6 DEF Created, SleepAfter
<1>7. CASE Renew
  BY <1>7 DEF Renew, SleepAfter, Live
<1>8. CASE Wake
  BY <1>8 DEF Wake
<1>9. CASE Tick
  <2>1. answer = 0 /\ answer' = 0 /\ id' = id /\ step' = step
    BY <1>9 DEF Tick
  <2>2. CASE id = 0
    BY <2>1, <2>2
  <2>3. CASE id # 0
    <3>1. step = "sleeping" /\ delay > 0 /\ left[id] > delay
      BY <1>9, <2>3 DEF Tick
    <3>2. delay' = delay - 1 /\ left'[id] = left[id] - 1
      BY <1>9, <2>3, <3>1 DEF Tick
    <3>3. left[id] \in Nat /\ delay \in Nat
      BY <2>3
    <3> QED
      BY <2>1, <3>1, <3>2, <3>3
  <2> QED
    BY <2>2, <2>3
<1>10. CASE GraphDrops
  BY <1>10 DEF GraphDrops
<1>11. CASE Stop
  BY <1>11 DEF Stop, Down
<1>12. CASE Crash
  BY <1>12 DEF Crash, Down
<1>13. CASE UNCHANGED vars
  BY <1>13 DEF vars
<1> QED
  BY <1>1, <1>2, <1>3, <1>4, <1>5, <1>6, <1>7, <1>8, <1>9, <1>10, <1>11, <1>12,
     <1>13 DEF Next, Go

\* As long as Graph drops nothing on its own, an id the manager shows stands
\* for a live subscription: no renewal comes too late, whatever requests fail
\* and wherever the service is stopped or dies.
THEOREM RenewedInTime == Spec => []ShownIsLive
<1>1. TypeOK /\ InTime => ShownIsLive
  BY DEF TypeOK, InTime, ShownIsLive, Live
<1> QED
  BY <1>1, TypeInit, TypeStep, InTimeInit, InTimeStep, PTL DEF Spec

-----------------------------------------------------------------------------
\* Where every request succeeds: what is live at Graph at each step of the
\* task.  The listing names everything that is live, so the clean-up leaves
\* nothing, and the one subscription made after it is the one the task knows.
Alone == ~(May("refuse") \/ May("lose") \/ May("drop")) =>
  /\ step \in {"off", "starting", "dropping", "creating"} => id = 0
  /\ step = "dropping" => Live = stale
  /\ step = "keeping" => Live = {id} \ {0}
  /\ step = "creating" => answer # 0 /\ Live = {answer}
  /\ step = "sleeping" => id # 0 /\ Live = {id}

LEMMA AloneInit == Init => Alone
BY DEF Init, Alone

LEMMA AloneStep == TypeOK /\ InTime /\ Alone /\ [Next]_vars => Alone'
<1> SUFFICES ASSUME TypeOK, InTime, Alone, [Next]_vars PROVE Alone'
  OBVIOUS
<1>0. faults' = faults
  BY DEF Next, Go, Start, ListStale, DropStale, StaleDropped, RequestCreate, Created,
         Renew, Wake, Tick, GraphDrops, Stop, Crash, Down, vars
<1> USE MinutesAreNumbers, IntervalFits DEF TypeOK, Steps, Alone
<1> SUFFICES ASSUME "refuse" \notin faults, "lose" \notin faults, "drop" \notin faults
             PROVE Alone'
  BY <1>0
<1>1. CASE Start
  BY <1>1 DEF Start
<1>2. CASE ListStale
  BY <1>2 DEF ListStale, Live
<1>3. CASE DropStale
  <2>1. PICK s \in stale : /\ left' = [left EXCEPT ![s] = 0]
                           /\ stale' = stale \ {s}
                           /\ step' = step
    BY <1>3 DEF DropStale
  <2>2. step = "dropping" /\ id' = id /\ Live = stale
    BY <1>3 DEF DropStale
  <2>3. Live' = Live \ {s}
    BY <2>1 DEF Live
  <2> QED
    BY <2>1, <2>2, <2>3
<1>4. CASE StaleDropped
  BY <1>4 DEF StaleDropped, Live
<1>5. CASE RequestCreate
  \* The mailbox has no subscription, so the quota is not used up.
  <2>1. Live = {} /\ 1 \in Ids
    BY <1>5 DEF RequestCreate
  <2>2. PICK s \in Ids : left' = [left EXCEPT ![s] = Expiration] /\ answer' = s
    BY <1>5, <2>1 DEF RequestCreate
  <2>3. Live' = {s} /\ s # 0
    BY <2>1, <2>2 DEF Live
  <2>4. step' = "creating" /\ id' = 0
    BY <1>5 DEF RequestCreate
  <2> QED
    BY <2>2, <2>3, <2>4
<1>6. CASE Created
  BY <1>6 DEF Created, SleepAfter, Live
<1>7. CASE Renew
  <2>1. step = "keeping" /\ id # 0 /\ Live = {id}
    BY <1>7 DEF Renew
  <2>2. left' = [left EXCEPT ![id] = Expiration] /\ SleepAfter(id)
    BY <1>7, <2>1 DEF Renew
  <2>3. Live' = {id}
    BY <2>1, <2>2 DEF Live
  <2> QED
    BY <2>1, <2>2, <2>3 DEF SleepAfter
<1>8. CASE Wake
  BY <1>8 DEF Wake, Live
<1>9. CASE Tick
  <2>1. UNCHANGED <<id, step, stale, answer>>
    BY <1>9 DEF Tick
  <2>2. left' = [s \in Ids |-> IF left[s] > 0 THEN left[s] - 1 ELSE 0]
    BY <1>9 DEF Tick
  <2>3. CASE step = "off"
    BY <2>1, <2>3
  <2>4. CASE step = "sleeping" /\ delay > 0
    \* What is shown outlives the sleep, and nothing else is live.
    <3>1. id \in Ids /\ Live = {id} /\ left[id] > delay /\ left[id] \in Nat /\ delay \in Nat
      BY <2>4 DEF InTime
    <3>2. left'[id] > 0
      BY <2>2, <2>4, <3>1
    <3>3. \A s \in Ids : left'[s] > 0 => left[s] > 0
      BY <2>2
    <3>4. Live' = {id}
      BY <3>1, <3>2, <3>3 DEF Live
    <3> QED
      BY <2>1, <2>4, <3>1, <3>4
  <2> QED
    BY <1>9, <2>3, <2>4 DEF Tick
<1>10. CASE GraphDrops
  BY <1>10 DEF GraphDrops
<1>11. CASE Stop
  BY <1>11 DEF Stop, Down
<1>12. CASE Crash
  BY <1>12 DEF Crash, Down
<1>13. CASE UNCHANGED vars
  BY <1>13 DEF vars, Live
<1> QED
  BY <1>1, <1>2, <1>3, <1>4, <1>5, <1>6, <1>7, <1>8, <1>9, <1>10, <1>11, <1>12,
     <1>13 DEF Next, Go

\* Where every request succeeds, a sleeping task watches through one live
\* subscription and no other one is left at Graph, whatever earlier runs that
\* were stopped or died had made.
THEOREM OneAndNoOther == Spec => []ExactlyOne
<1>1. Alone => ExactlyOne
  BY DEF Alone, ExactlyOne
<1> QED
  BY <1>1, TypeInit, TypeStep, InTimeInit, InTimeStep, AloneInit, AloneStep, PTL DEF Spec
=============================================================================
