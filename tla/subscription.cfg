\* Three environments; three stops, deaths or dropped subscriptions in each.
CONSTANTS
  Quota = 3
  Expiration = 5
  Margin = 2
  RetryDelay = 1
  FaultSets <- Environments
  MaxUpsets = 3
SPECIFICATION FairSpec
INVARIANTS ExactlyOne ShownIsLive
PROPERTIES WatchesAgain
