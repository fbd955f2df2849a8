SPECIFICATION FairSpec
CONSTANTS
  sa = sa
  root = root
  sub = sub
  leaf = leaf
  user = user
  old = old
  new = new
  badIP = badIP
  noIssuer = noIssuer
  brief = brief
  None = None
  Specs <- MCSpecs
  Kind <- MCKind
  NameRank <- MCNameRank
  IssuerRef <- MCIssuerRef
  ClientRef <- MCClientRef
  CARef <- MCCARef
  Contents <- MCContents
  Shown <- MCShown
  Rejected = {noIssuer}
  Invalid = {badIP}
  ShortLived = {brief}
  Initially = old
  Keys <- MCKeys
  Serials <- MCSerials
  MaxEdits = 2
  MaxCrashes = 1
INVARIANTS  FailureIsTheSpecs
PROPERTIES  KeysSurviveRuns Recovers
