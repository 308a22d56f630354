\* Liveness of the queue and of its shutdown: two workers and the master,
\* nBatchSize 2, Adds of 1 or 2 checks and up to 3 checks per block, so a
\* block leaves checks queued, batches held and threads in both condition
\* variables when interrupt_all() comes, at any step.
CONSTANTS
    w1 = w1
    w2 = w2
    m = m
    None = None
    Workers <- MC_Workers
    Master = m
    nBatchSize = 2
    MaxAdd = 2
    MaxBlockChecks = 3
SPECIFICATION Spec
PROPERTIES WaitReturns ThreadsEnd
\* After interrupt_all() and join_all() every thread has ended and the
\* program stops.
CHECK_DEADLOCK FALSE
