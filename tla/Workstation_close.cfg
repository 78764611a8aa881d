\* Tabs are closed and restored while documents are opened.
CONSTANTS
    report = report
    plan = plan
    Docs = {report}
    MaxOpens = 2
    MaxObjects = 0
    MaxLaunches = 2
    Uses <- Restores
SPECIFICATION Spec
PROPERTY ClosingTakesOneTab
CHECK_DEADLOCK FALSE
