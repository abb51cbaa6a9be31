\* Both parties of one contract review in overlapping requests.
CONSTANTS
  k1 = k1  c1 = c1  f1 = f1  r1 = r1  r2 = r2
  None = None
  Contracts = {k1}
  ClientOf <- MCClientOf
  FreelancerOf <- MCFreelancerOf
  StatusOf <- MCStatusOf
  Requests = {r1, r2}
SYMMETRY MCSymmetry
SPECIFICATION Spec
INVARIANT BothReviewedPublished
CHECK_DEADLOCK FALSE
