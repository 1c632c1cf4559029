SPECIFICATION Spec
CONSTANTS
    Glob <- MCGlob
    Patterns <- MCPatterns
    Refs <- MCRefs
    Labels <- MCLabels
    Times <- MCTimes
    Star <- MCStar
    Empty <- MCEmpty
    ModeGet <- MCGet
    ModeExec <- MCExec
    ModeMount <- MCMount
    Days <- MCDays
    Written <- MCWritten
    Candidates <- MCCandidates
    Grants <- MCGrants
    MaxRules = 3
INVARIANTS
      NoBypass
    DeadIsDead
    OverlapsReported
    
    NearMissesExplain
PROPERTIES
    Confined
    DisturbsNothing
    OverrulesOnlyWider
CHECK_DEADLOCK FALSE
