\* ticoind and ticoin-qt, each with every outcome of AppInit2 and a shutdown
\* request at any moment or never; the coin control dialog and the
\* wallet's key records (see MC_Startup).
CONSTANTS
    NoLabels = NoLabels
    p1 = p1
    NoRead = NoRead
SPECIFICATION Spec
INVARIANTS TypeOK ShutdownAfterJoin ShutdownBeforeExit CheckedIsSelected LockedNeverSelected ChangeSound RoundTrip
PROPERTIES ExitsWhenAsked
\* The process exits; the dialog's user and wallet may stop at any time.
CHECK_DEADLOCK FALSE
