SPECIFICATION Spec
CONSTANTS
    q1 = q1
    q2 = q2
    Requests = {q1, q2}
    Refs <- MCRefs
    Policies <- MCPolicies
    Profiles <- MCProfiles
    Absent = Absent
    Unreadable = Unreadable
    MaxEdits = 2
    Assignments <- MCAssignments
INVARIANTS
    AdmittedFirst
    AuditTrail
    FreshAndWhole
    NothingLingers
CHECK_DEADLOCK FALSE
