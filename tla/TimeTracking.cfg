\* Two sessions of one week, two slices each, two overlapping stops.
CONSTANTS
  s1 = s1  s2 = s2  t1 = t1  t2 = t2  w1 = w1  h1 = h1  h2 = h2
  None = None
  Sessions = {s1, s2}
  Starts = {t1, t2}
  Scores <- MCScores
  Sheets = {w1}
  SheetOf <- MCSheetOf
  RateCents = 3
  Hour = 2
  Handlers = {h1, h2}
  MaxStops = 2
SYMMETRY MCSymmetry
SPECIFICATION Spec
INVARIANTS
  AccrualsAnnounced
  SheetBillsSessions
  AmountFollowsSeconds
