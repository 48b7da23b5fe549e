\* Two writers and two pages that open and close their streams at any moment.
CONSTANTS
  w1 = w1  w2 = w2  p1 = p1  p2 = p2
  Writers = {w1, w2}
  Pages = {p1, p2}
  MaxWrites = 3
  MaxVisits = 4
SPECIFICATION FairSpec
INVARIANTS QuietMeansCurrent
PROPERTIES WritesAreSeen
CHECK_DEADLOCK FALSE
