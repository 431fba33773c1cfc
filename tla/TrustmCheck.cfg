SPECIFICATION CheckSpec
CONSTANTS
  Clients = {me}
  Nobody = Nobody
  Me = me
  Certificates <- SomeCertificates
  Signatures <- SomeSignatures
CHECK_DEADLOCK FALSE
INVARIANTS
  ExitZeroIsEarned
  SkipsFollowFailures
  KeyIsTheCertifiedOne
