\* ticoind and ticoin-qt, each with every outcome of AppInit2 and a shutdown
\* request at any moment or never.
CONSTANTS
    NoLabels = NoLabels
    p1 = p1
    NoRead = NoRead
SPECIFICATION Spec
INVARIANT NoModelAfterTeardown
\* The process exits.
CHECK_DEADLOCK FALSE
