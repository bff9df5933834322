\* Two tasks, two traps that nest and overlap, two calls of guest code.
CONSTANTS
    Tasks = {t1, t2}
    MaxTraps = 2
    MaxCalls = 2
    NoRetval = {2}
    Joins = FALSE
SPECIFICATION TrapsFairSpec
INVARIANTS OneAtATime NeverContended RightTask RightAnswer
PROPERTIES Transparent TrapsReturn
