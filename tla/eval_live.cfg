SPECIFICATION FairSpec
CONSTANTS
    Systems = {s1}
    Readers = {l1}
    Evaluators = {e1}
    Jsons = {j1}
    Yums = {y1, y2}
    Advisories = {j1, y1, y2}
    Report <- MCReport
    Second = 2
    MaxRetries = 1
    MaxTime = 2
    MaxUploads = 2
    MaxMsgs = 0
    MaxFaults = 2
PROPERTIES RequestsConsumed UploadEvaluated
CHECK_DEADLOCK FALSE
