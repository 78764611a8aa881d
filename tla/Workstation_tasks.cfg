\* Tasks over each other and over two launches; no overlays, every call answered.
CONSTANTS
    report = report
    plan = plan
    Docs = {report}
    MaxOpens = 2
    MaxObjects = 0
    MaxLaunches = 2
    Uses <- Lifecycle
SPECIFICATION FairSpec
INVARIANTS
    TypeOK
    TabsAreSound
PROPERTY TasksEnd
CHECK_DEADLOCK FALSE
