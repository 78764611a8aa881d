\* An overlay is drawn and the page is turned.
CONSTANTS
    report = report
    plan = plan
    Docs = {report}
    MaxOpens = 1
    MaxObjects = 1
    MaxLaunches = 1
    Uses <- PageTurns
SPECIFICATION Spec
INVARIANT UnsavedIsShown
CHECK_DEADLOCK FALSE
