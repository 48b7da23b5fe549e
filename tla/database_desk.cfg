\* Every call on one line, letters to two firms and two approvals, two requests at a time.
CONSTANTS
  l1 = l1  l2 = l2  s1 = s1  s2 = s2  p1 = p1  m1 = m1  m2 = m2  c1 = c1
  Lines = {l1}
  Suppliers = {s1, s2}
  Prices = {p1}
  Margins = {m1, m2}
  Codes = {c1}
  None = None
  Clients = {a, b}
  Calls <- OneLine
SPECIFICATION Spec
PROPERTIES ImplementsContract
