\* One contract, two milestones, one week, two concurrent requests.
CONSTANTS
  c1 = c1  m1 = m1  m2 = m2  w1 = w1  k1 = k1  h1 = h1  h2 = h2
  None = None
  Contracts = {c1}
  Milestones = {m1, m2}
  Weeks = {w1}
  Keys = {k1}
  Amounts = {0, 1}
  Handlers = {h1, h2}
  MaxCents = 2
SPECIFICATION Spec
INVARIANTS
  ReservationsCovered
  ReleasedAsAllocated
  BooksAgree
  FundOncePerKey
  StatusFollowsMoney
PROPERTIES
  RefinesAccount
  RequestsAnswered
