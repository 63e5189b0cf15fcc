\* Two users send product ids of every sort and ask for recommendations.
SPECIFICATION Spec
CONSTANTS
    u1 = u1
    u2 = u2
    Users = {u1, u2}
    Values <- MCValues
    Catalog = {1, 2, 3}
    Related = {2}
    Max64 = 3
    HistoryDays = 2
    PopularDays = 1
    MaxDay = 3
    MaxRows = 3
SYMMETRY Symmetry
INVARIANTS TypeOK ShownWereSent OnlyStringsFail ReadersAgree
CHECK_DEADLOCK FALSE
