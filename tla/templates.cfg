SPECIFICATION Spec
CONSTANTS
    Templates = {t1, t2}
    None = None
    Systems = {s1}
    Advisories = {a1}
    Readers = {r1, r2}
    Requests = {m1, m2}
    Evaluators = {e1, e2}
    MaxChanges = 3
    MaxFaults = 1
SYMMETRY MCSymmetry
INVARIANTS TypeOK InstallableCurrentUnlessMissed AssignmentAgreesUnlessApart TemplateCurrentUnlessLagging
CHECK_DEADLOCK FALSE
