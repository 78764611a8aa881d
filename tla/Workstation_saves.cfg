\* Overlays drawn, accepted and saved from the menu while documents are opened and selected.
CONSTANTS
    report = report
    plan = plan
    Docs = {report, plan}
    MaxOpens = 2
    MaxObjects = 2
    MaxLaunches = 1
    Uses <- Accepting
SPECIFICATION Spec
INVARIANTS
    OnlyAcceptanceStrays
SYMMETRY AnyDocs
CHECK_DEADLOCK FALSE
