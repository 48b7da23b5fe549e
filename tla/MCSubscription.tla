--------------------------- MODULE MCSubscription ---------------------------
\* What may go wrong in the behaviours TLC explores.
EXTENDS Subscription

\* A service that is stopped and dies while every request succeeds; one whose
\* requests fail on top of that; one whose subscriptions Graph drops, too.
Environments ==
  { {"stop", "crash"}, {"refuse", "lose", "stop", "crash"},
    {"refuse", "lose", "drop", "crash"} }

RefusalsOnly == {{"refuse"}}
=============================================================================
