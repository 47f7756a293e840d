SPECIFICATION DeskSpec
CONSTANTS
    t1 = t1
    t2 = t2
    t3 = t3
    Tasks = {t1, t2, t3}
    NoTask = NoTask
    Shown = {"downloading", "paused"}
    Filters = {"all", "running"}
SYMMETRY Symmetry
INVARIANT PartsTypeOK
PROPERTIES TableFollows QueueMoves  CookiesKept
CHECK_DEADLOCK FALSE
