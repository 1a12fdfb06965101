SPECIFICATION Spec
CONSTANTS
    Network = {"home", "open"}
    Open = {"open"}
    Detected = 1
    Borders = 2
    Visible = 2
    MaxShown = 4
    Absent = Absent
    Files <- MCFiles
INVARIANTS
    BackendFixed
