\* Two connections that each carry an operation to its end: every interleaving
\* of two handlers, the signal, a killed broker and a power loss.
CONSTANTS
  c1 = c1
  c2 = c2
  alice = alice
  mallory = mallory
  Conns = {c1, c2}
  Uids = {alice}
  Refs <- MCRefs
  Declared <- MCDeclared
  Secrets <- MCSecrets
  SecretsOf <- MCSecretsOf
  Authz <- MCAuthz
  Requests <- MCGood
  ForkOps = {}
  BigOps = {}
SPECIFICATION Spec
SYMMETRY Interchangeable
INVARIANTS
  OKHasDurableRecord
  LogAgreesWithAnswer
  DecidedIsAudited
  NothingSurvivesServe
PROPERTIES
  KeepsPromise
CHECK_DEADLOCK FALSE
