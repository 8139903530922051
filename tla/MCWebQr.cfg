SPECIFICATION Spec
CONSTANTS
    Codes = {c1}
    Tickets = {t1, t2}
    Users = {ana, binh}
    Apps = {forum}
    Requests = {q1, q2}
    CODE_TTL = 3
    GRACE = 1
    FINISH_TTL = 1
    PwFailLimit = 1
    MaxNow = 5
    MaxChanges = 1
    NoUser = NoUser
    NoCode = NoCode
CONSTRAINT OneStory
SYMMETRY Symmetry
PROPERTY KeepsPromise
CHECK_DEADLOCK FALSE
