SPECIFICATION Spec
CONSTANTS
    Systems = {s1, s2}
    Advisories = {a1}
    Evaluators = {e1, e2}
    MaxEvals = 2
    MaxFlips = 2
    MaxFaults = 1
SYMMETRY MCSymmetry
INVARIANTS TypeOK CountsExactUnlessDrifted ValidIsExactUnlessMissed InstallableWasAnnouncedUnlessSilent
CHECK_DEADLOCK FALSE
