CONSTANTS
    Tasks = {t1, t2, t3}
    Collectors = {c1}
    Lanes = {l1, l2}
    Pulls = {p1, p2}
    NoTask = NoTask
    NoWorker = NoWorker
    MaxInFlight = 2
    MaxAttempts = 2
SPECIFICATION Spec
SYMMETRY Symmetry
INVARIANTS NoLostWakeup PlacesHaveCallers ToldTheTruth
