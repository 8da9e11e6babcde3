SPECIFICATION Spec
CONSTANTS
  r1 = r1
  r2 = r2
  r3 = r3
  alice = alice
  bob = bob
  mallory = mallory
  acme = acme
  zeta = zeta
  body1 = body1
  body2 = body2
  body3 = body3
  kyc = kyc
  other = other
  k1 = k1
  k2 = k2
  NoKey = NoKey
  Requests = {r1, r2}
  OrgOf <- MCOrgOf
  TemplateOf <- MCTemplateOf
  Calls <- MCStatusCalls
  Budget <- MCNoFailures
  Preissued <- MCOne
  IssuerTables <- MCOneTable
CHECK_DEADLOCK FALSE
PROPERTIES
  TerminalStatusIsFinal
