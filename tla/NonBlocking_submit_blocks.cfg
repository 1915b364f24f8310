\* The spec says submitting never blocks the caller.
CONSTANTS
    s1 = s1
    s2 = s2
    Submitters <- MCSubmitters
    MaxEvents = 3
SPECIFICATION Spec
INVARIANT
    SubmitNeverWaitsOnCallback
