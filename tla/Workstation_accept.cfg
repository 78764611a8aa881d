\* Recognised text is accepted while a second document is opened.
CONSTANTS
    report = report
    plan = plan
    Docs = {report, plan}
    MaxOpens = 2
    MaxObjects = 1
    MaxLaunches = 1
    Uses <- Acceptances
SPECIFICATION Spec
INVARIANT NoForeignOverlays
CHECK_DEADLOCK FALSE
