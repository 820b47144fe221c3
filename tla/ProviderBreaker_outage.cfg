SPECIFICATION BreakerSpec
CONSTANTS
    w1 = w1
    w2 = w2
    w3 = w3
    w4 = w4
    w5 = w5
    w6 = w6
    w7 = w7
    w8 = w8
    Callers = {w1, w2, w3, w4, w5, w6, w7, w8}
    Direct = {}
    Threshold = 5
SYMMETRY Symmetry
INVARIANT FailsOnlyWithFallback
