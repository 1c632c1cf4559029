\* One connection, every kind of request from every peer, consumers that fork
\* and clients that stop reading.
CONSTANTS
  c1 = c1
  c2 = c2
  alice = alice
  mallory = mallory
  Conns = {c1}
  Uids = {alice, mallory}
  Refs <- MCRefs
  Declared <- MCDeclared
  Secrets <- MCSecrets
  SecretsOf <- MCSecretsOf
  Authz <- MCAuthz
  Requests <- MCEvery
  ForkOps = {"op"}
  BigOps = {"op"}
SPECIFICATION FairSpec
INVARIANTS
  CredentialOnlyIfEntitled
  
  NoExistenceOracle
PROPERTIES
  ConnectionsEnd
  ShutdownEnds
CHECK_DEADLOCK FALSE
