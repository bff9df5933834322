SPECIFICATION EventsSpec
CONSTANTS
    Wrap = 4
    MaxDelay = 2
    MaxAdd = 2
    Used = {0, 3}
    Func = {5}
    ev2_misc = 1
    ev2_max = 3
    None = None
PROPERTY KeepsCalendar
PROPERTY EventsRun
