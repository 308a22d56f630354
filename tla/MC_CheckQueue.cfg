\* Two workers and the master.  nBatchSize 2 and up to 6 checks per block
\* (Adds of 1 or 2 checks, so both notify_one and notify_all happen): a lone
\* thread facing 6 checks is capped at nBatchSize, a crowded one gets the
\* floor of 1, and in between it takes its share; a failing check can sit in
\* one thread's batch while others still hold theirs.
CONSTANTS
    w1 = w1
    w2 = w2
    m = m
    None = None
    Workers <- MC_Workers
    Master = m
    nBatchSize = 2
    MaxAdd = 2
    MaxBlockChecks = 6
SPECIFICATION Spec
INVARIANTS TypeOK Bookkeeping WaitResult
\* After interrupt_all() and join_all() every thread has ended and the
\* program stops.
CHECK_DEADLOCK FALSE
