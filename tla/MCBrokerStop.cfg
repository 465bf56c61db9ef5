\* What an ordinary stop emits.
SPECIFICATION Spec
CONSTANTS
    Keys = {k1}
    Values = {1}
    Threads = {t1, t2}
    MaxHistory = 2
    MaxUpsets = 2
PROPERTY StopEmitted
CHECK_DEADLOCK FALSE
