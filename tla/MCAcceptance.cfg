\* The suite against servers with up to as many workers as it needs.  The backlog
\* takes all its receivers, as the default of 32 takes those of the real suite.
CONSTANTS
    Tests <- Suite
    Backlog = 11
    NumWorkers = 5
    extended = TRUE
SPECIFICATION Spec
INVARIANT VerdictsAreRight
INVARIANT TestsAreIsolated
