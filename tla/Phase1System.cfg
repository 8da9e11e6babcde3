SPECIFICATION Spec
CONSTANTS
  i1 = i1
  v1 = v1
  v2 = v2
  alice = alice
  carol = carol
  acme = acme
  exch = exch
  body1 = body1
  kyc = kyc
  kycPolicy = kycPolicy
  k1 = k1
  NoKey = NoKey
  NoClaim = NoClaim
  DefaultPolicy = kycPolicy
  DefaultTemplate = kyc
  IssuerRequests = {i1}
  VerifierRequests = {v1, v2}
  IssuerCalls <- MCIssuerCalls
  VerifierCalls <- MCVerifierCalls
  IssuerBudget <- MCFailures
  VerifierBudget <- MCFailures
  OrgOf <- MCOrgOf
  TemplateOf <- MCTemplateOf
  ExpiresOf <- MCExpiresOf
  Preissued <- MCPreissued
  TrustTables <- MCTrustTables
CHECK_DEADLOCK FALSE
SYMMETRY MCSymmetry
INVARIANTS
  HandedOutIsKnown
  AllowPredatesRevocation
  SuccessesAreAudited
PROPERTIES
  IssuerIsTheVerifiersWorld
