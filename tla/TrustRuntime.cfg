SPECIFICATION Spec
CONSTANTS
  r1 = r1
  r2 = r2
  verifier = verifier
  other = other
  NoToken = NoToken
  Requests = {r1, r2}
  RequestTimeout = 1
  Margin = 3
  Offers <- MCOffers
  Expected = verifier
  States = {"active", "absent"}
  NoRecord = "absent"
  LastSecond = 5
SYMMETRY MCSymmetry
INVARIANTS
  TypeOK
  NeverRefusedForAge
  OnlyEntitledReads
PROPERTIES
  ReadsAreTrue
