\* Overlays drawn, undone, accepted and saved while documents are opened and selected.
CONSTANTS
    report = report
    plan = plan
    Docs = {report, plan}
    MaxOpens = 2
    MaxObjects = 2
    MaxLaunches = 1
    Uses <- Editing
SPECIFICATION Spec
INVARIANTS
    OnlyAcceptanceStrays
    StacksFitObjects
SYMMETRY AnyDocs
CHECK_DEADLOCK FALSE
