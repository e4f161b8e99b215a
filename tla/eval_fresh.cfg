SPECIFICATION Spec
CONSTANTS
    Systems = {s1}
    Readers = {l1, l2}
    Evaluators = {e1, e2}
    Jsons = {j1}
    Yums = {y1, y2}
    Advisories = {j1, y1, y2}
    Report <- MCReport
    Second = 2
    MaxRetries = 1
    MaxTime = 3
    MaxUploads = 2
    MaxMsgs = 1
    MaxFaults = 0
SYMMETRY MCSymmetry
INVARIANTS TypeOK FreshUnlessRaced
CHECK_DEADLOCK FALSE
