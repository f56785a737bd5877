SPECIFICATION FairSpec
CONSTANTS
    Caller = {u1, u2}
    Scheduler = scheduler
    Interval = 3
    StartupDelay = 2
    None = None
INVARIANTS
    StatusNamesTheRun
    AnnouncedIsArmed
PROPERTIES
    RunsUntilStopped
    ScheduledRunsApart
