SPECIFICATION Spec
CONSTANTS
    t1 = t1
    t2 = t2
    t3 = t3
    counter = counter
    subcounter = subcounter
    d1 = d1
    d2 = d2
    d3 = d3
INVARIANTS
    DeviceGuarded
    AnswersAlternate
    CountersCount
    NothingLeftBehind
CHECK_DEADLOCK FALSE
