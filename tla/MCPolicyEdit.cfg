SPECIFICATION Spec
CONSTANTS
    Editors = {ann}
    Grants = {g1, g2}
    Slots <- MCSlots
    Attempts = 2
    MaxRuns = 3
    Absent = Absent
    Torn = Torn
    WholeFile = WholeFile
INVARIANTS
    LiveIsWhole
    ReportsAreTrue
    TempsRemoved
PROPERTIES
    OnlyApprovedChanges
    ReplacedIsKept
    BackupsNeverChange
