SPECIFICATION Spec
CONSTANTS
  r1 = r1
  r2 = r2
  alice = alice
  mallory = mallory
  exch = exch
  rival = rival
  did = did
  text1 = text1
  text2 = text2
  text3 = text3
  junk = junk
  kycPolicy = kycPolicy
  kyc = kyc
  other = other
  k1 = k1
  NoKey = NoKey
  NoClaim = NoClaim
  DefaultPolicy = kycPolicy
  DefaultTemplate = kyc
  Requests = {r1, r2}
  OrgOf <- MCOrgOf
  Envelope <- MCEnvelopes
  Issuable <- MCIssuable
  Issued <- MCOneIssued
  TrustTables <- MCTrusted
  Calls <- MCRetriedCalls
  Budget <- MCNoFailures
  LastMinute = 1
CHECK_DEADLOCK FALSE
INVARIANTS
  AllowMeansNotExpired
