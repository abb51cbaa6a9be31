\* A hidden review is read by its id before the other party has reviewed.
CONSTANTS
  k1 = k1  c1 = c1  f1 = f1  r1 = r1  r2 = r2
  None = None
  Contracts = {k1}
  ClientOf <- MCClientOf
  FreelancerOf <- MCFreelancerOf
  StatusOf <- MCStatusOf
  Requests = {r1, r2}
SYMMETRY MCSymmetry
SPECIFICATION Spec
INVARIANT BlindToReaders
CHECK_DEADLOCK FALSE
