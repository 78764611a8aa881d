\* A second document is opened.
CONSTANTS
    report = report
    plan = plan
    Docs = {report, plan}
    MaxOpens = 2
    MaxObjects = 1
    MaxLaunches = 1
    Uses <- Saves
SPECIFICATION Spec
PROPERTY OpeningKeepsOverlays
CHECK_DEADLOCK FALSE
