SPECIFICATION Spec
CONSTANTS
    Editors = {ann, bob}
    Grants = {g1, g2}
    Slots <- MCSlots
    Attempts = 2
    MaxRuns = 1
    Absent = Absent
    Torn = Torn
    WholeFile = WholeFile
PROPERTIES
    OnlyApprovedChanges
