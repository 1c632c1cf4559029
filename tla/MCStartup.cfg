SPECIFICATION Spec
CONSTANTS
    Letters = {"a", "x", "y"}
    Controls = {"nul"}
    DefaultMax = 4
    Nodes <- MCNodes
    Above <- MCAbove
    DefNames = {"a", "b", "c"}
    DefPath <- MCDefPath
    ProfileNames = {"p"}
    ProfilePath <- MCProfilePath
    AuthzPath = "authz.json"
    Keys <- MCKeys
    Trees <- MCTrees
    Edits <- MCEdits
    Forgeries <- MCForgeries
    Calls <- MCCalls
    MaxEdits = 2
INVARIANTS
    
    Coherent
    
    AsMeant
CHECK_DEADLOCK FALSE
