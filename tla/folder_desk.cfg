\* Two lines, one supplier, two prices, and a sheet of two codes, one of which an edition may drop.
CONSTANTS
  Lines = {l1, l2}
  Suppliers = {s1}
  Prices = {p1, p2}
  Margins = {m1}
  Codes = {c1, c2}
  None = None
SPECIFICATION Spec
INVARIANTS AskedBeforePriced PricedAndDated EveryLineOrNone
PROPERTIES ImplementsContract
