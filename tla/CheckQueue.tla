----------------------------- MODULE CheckQueue -----------------------------
(***************************************************************************)
(* CCheckQueue<T> and CCheckQueueControl<T> of src/checkqueue.h.           *)
(*                                                                         *)
(* One master thread runs blocks: it constructs a CCheckQueueControl,     *)
(* Adds batches of checks and Waits; Wait is Loop(true), in which the     *)
(* master joins the worker threads (Thread() = Loop(false)) until every   *)
(* check of the block has completed.  A check is its boolean result.      *)
(*                                                                         *)
(* A step is what a thread does between taking and releasing the mutex,   *)
(* or its work outside it.  Returning from cond.wait is two steps: the     *)
(* thread takes the mutex back (nIdle--), then re-tests the loop; the      *)
(* asserts of the control constructor read the fields without the mutex.  *)
(* Waits may wake spuriously, as boost::condition_variable allows.        *)
(***************************************************************************)
EXTENDS Integers, Sequences, FiniteSets, SequencesExt

CONSTANTS
    Workers,        \* the worker threads running Thread()
    Master,         \* the thread that runs CCheckQueueControl and Wait()
    None,           \* no thread holds the mutex
    nBatchSize,     \* CCheckQueue(nBatchSizeIn)
    MaxAdd,         \* longest vector one Add call passes
    MaxBlockChecks  \* most checks the master adds for one block

Threads == Workers \cup {Master}

ASSUME
    /\ Master \notin Workers
    /\ nBatchSize \in Nat \ {0}
    /\ MaxAdd \in 1 .. MaxBlockChecks

\* fQuit: no code in the repository sets it, so it stays false.
fQuit == FALSE

VARIABLES
    queue,      \* std::vector<T> queue, used as a stack
    nIdle,      \* workers (including the master) waiting
    nTotal,     \* workers (including the master) inside Loop
    fAllOk,     \* the running result
    nTodo,      \* checks added and not yet accounted for
    mutex,      \* the thread inside a split critical section, or None
    pc,         \* where each thread is
    vChecks,    \* each thread's local batch
    nNow,       \* each thread's batch size (0 before the first batch)
    fOk,        \* each thread's local result
    blockOk,    \* history: the conjunction of the checks of the current block
    added,      \* history: checks the master added in the current block
    ret,        \* the value the master's last Wait returned, or None
    intr,       \* threads with an interruption request not yet thrown
    shutdown,   \* threadGroup.interrupt_all() has been called
    unwinding   \* the master is in ~CCheckQueueControl's Wait, unwinding

interruptVars == <<intr, shutdown, unwinding>>

vars == <<queue, nIdle, nTotal, fAllOk, nTodo, mutex, pc, vChecks, nNow, fOk,
          blockOk, added, ret, interruptVars>>

-----------------------------------------------------------------------------

\* The conjunction of a sequence of check results.
AllTrue(s) == \A i \in DOMAIN s : s[i]

Init ==
    /\ queue = <<>>
    /\ nIdle = 0
    /\ nTotal = 0
    /\ fAllOk = TRUE
    /\ nTodo = 0
    /\ mutex = None
    /\ pc = [t \in Threads |-> IF t = Master THEN "ctor" ELSE "top"]
    /\ vChecks = [t \in Threads |-> <<>>]
    /\ nNow = [t \in Threads |-> 0]
    /\ fOk = [t \in Threads |-> TRUE]
    /\ blockOk = TRUE
    /\ added = 0
    /\ ret = None
    /\ intr = {}
    /\ shutdown = FALSE
    /\ unwinding = FALSE

\* Fault seed: the last batch done without condMaster.notify_one().
CleanupNoNotify(t) ==
    /\ pc[t] = "top"
    /\ mutex = None
    /\ mutex' = t
    /\ IF nNow[t] # 0
       THEN /\ fAllOk' = (fAllOk /\ fOk[t])
            /\ nTodo' = nTodo - nNow[t]
            /\ pc' = [pc EXCEPT ![t] = "test"]
            /\ UNCHANGED nTotal
       ELSE /\ nTotal' = nTotal + 1
            /\ pc' = [pc EXCEPT ![t] = "test"]
            /\ UNCHANGED <<fAllOk, nTodo>>
    /\ UNCHANGED <<queue, nIdle, vChecks, nNow, fOk, blockOk, added, ret>>
    /\ UNCHANGED interruptVars

\* Loop's clean-up and its first iteration, from taking the mutex at the top
\* of the do-loop: fold the finished batch into fAllOk and nTodo, telling
\* the master when the last check is done (a worker only), or count this
\* thread in.
Cleanup(t) ==
    /\ pc[t] = "top"
    /\ mutex = None
    /\ mutex' = t
    /\ IF nNow[t] # 0
       THEN /\ fAllOk' = (fAllOk /\ fOk[t])
            /\ nTodo' = nTodo - nNow[t]
            /\ pc' = [pc EXCEPT ![t] = "test",
                                ![Master] = IF nTodo' = 0 /\ t # Master
                                                 /\ @ = "waiting"
                                            THEN "woken" ELSE @]
            /\ UNCHANGED nTotal
       ELSE /\ nTotal' = nTotal + 1
            /\ pc' = [pc EXCEPT ![t] = "test"]
            /\ UNCHANGED <<fAllOk, nTodo>>
    /\ UNCHANGED <<queue, nIdle, vChecks, nNow, fOk, blockOk, added, ret>>
    /\ UNCHANGED interruptVars

\* Fault seed: the batch size not capped at nBatchSize.
BatchSizeUncapped ==
    LET share == Len(queue) \div (nTotal + nIdle + 1)
    IN  IF share < 1 THEN 1 ELSE share

\* std::max(1U, std::min(nBatchSize, queue.size() / (nTotal + nIdle + 1)))
BatchSize ==
    LET share == Len(queue) \div (nTotal + nIdle + 1)
    IN  IF share >= nBatchSize THEN nBatchSize
        ELSE IF share < 1 THEN 1 ELSE share

\* Fault seed: the thread_interrupted that ~CCheckQueueControl's Wait ran
\* under swallowed, so that the master goes on to its next block.
AfterWaitSwallows == "ctor"

\* Where the master goes when Loop(true) returns: CCheckQueueControl::Wait
\* returns the result to the block; the Wait ~CCheckQueueControl runs while
\* thread_interrupted unwinds the stack (fDone still false) returns into the
\* unwinding, which ends the thread.
AfterWait == IF unwinding THEN "exit" ELSE "ctor"

\* Fault seed: the master returning without resetting fAllOk.
ReturnKeepsAllOk(t) ==
    /\ pc[t] = "test"
    /\ mutex = t
    /\ queue = <<>>
    /\ (t = Master \/ fQuit) /\ nTodo = 0
    /\ nTotal' = nTotal - 1
    /\ fAllOk' = fAllOk
    /\ ret' = IF t = Master /\ ~unwinding THEN fAllOk ELSE ret
    /\ pc' = [pc EXCEPT ![t] = IF t = Master THEN AfterWait ELSE "exit"]
    /\ nNow' = [nNow EXCEPT ![t] = 0]
    /\ fOk' = [fOk EXCEPT ![t] = TRUE]
    /\ mutex' = None
    /\ UNCHANGED <<queue, nIdle, nTodo, vChecks, blockOk, added>>
    /\ UNCHANGED interruptVars

\* "while (queue.empty())" with the mutex held: the master returns once
\* nothing is left to do, resetting fAllOk for the next block ...
Return(t) ==
    /\ pc[t] = "test"
    /\ mutex = t
    /\ queue = <<>>
    /\ (t = Master \/ fQuit) /\ nTodo = 0
    /\ nTotal' = nTotal - 1
    /\ fAllOk' = IF t = Master THEN TRUE ELSE fAllOk
    /\ ret' = IF t = Master /\ ~unwinding THEN fAllOk ELSE ret
    /\ pc' = [pc EXCEPT ![t] = IF t = Master THEN AfterWait ELSE "exit"]
    /\ nNow' = [nNow EXCEPT ![t] = 0]
    /\ fOk' = [fOk EXCEPT ![t] = TRUE]
    /\ mutex' = None
    /\ UNCHANGED <<queue, nIdle, nTodo, vChecks, blockOk, added>>
    /\ UNCHANGED interruptVars

\* ... the others count themselves idle and wait on their condition ...
Sleep(t) ==
    /\ pc[t] = "test"
    /\ mutex = t
    /\ queue = <<>>
    /\ ~((t = Master \/ fQuit) /\ nTodo = 0)
    /\ nIdle' = nIdle + 1
    /\ pc' = [pc EXCEPT ![t] = "waiting"]
    /\ mutex' = None
    /\ UNCHANGED <<queue, nTotal, fAllOk, nTodo, vChecks, nNow, fOk,
                   blockOk, added, ret>>
    /\ UNCHANGED interruptVars

\* ... and with work queued, a thread swaps a batch off the back of the
\* queue and snapshots fAllOk, releasing the mutex.
TakeBatch(t) ==
    /\ pc[t] = "test"
    /\ mutex = t
    /\ queue # <<>>
    /\ LET n == BatchSize IN
       /\ queue' = SubSeq(queue, 1, Len(queue) - n)
       /\ vChecks' = [vChecks EXCEPT ![t] = Reverse(SubSeq(queue, Len(queue) - n + 1, Len(queue)))]
       /\ nNow' = [nNow EXCEPT ![t] = n]
    /\ fOk' = [fOk EXCEPT ![t] = fAllOk]
    /\ pc' = [pc EXCEPT ![t] = "work"]
    /\ mutex' = None
    /\ UNCHANGED <<nIdle, nTotal, fAllOk, nTodo, blockOk, added, ret>>
    /\ UNCHANGED interruptVars

\* Fault seed: nIdle left counting the thread after its wait returns.
WakeKeepsIdle(t) ==
    /\ pc[t] = "woken"
    /\ mutex = None
    /\ mutex' = t
    /\ pc' = [pc EXCEPT ![t] = "test"]
    /\ UNCHANGED <<queue, nIdle, nTotal, fAllOk, nTodo, vChecks, nNow, fOk,
                   blockOk, added, ret>>
    /\ UNCHANGED interruptVars

\* cond.wait returning: the thread takes the mutex back and nIdle--.
\* With an interruption pending, it throws instead (Interrupted).
Wake(t) ==
    /\ pc[t] = "woken"
    /\ t \notin intr
    /\ mutex = None
    /\ mutex' = t
    /\ nIdle' = nIdle - 1
    /\ pc' = [pc EXCEPT ![t] = "test"]
    /\ UNCHANGED <<queue, nTotal, fAllOk, nTodo, vChecks, nNow, fOk,
                   blockOk, added, ret>>
    /\ UNCHANGED interruptVars

\* A wait that returns without a notify.
SpuriousWake(t) ==
    /\ pc[t] = "waiting"
    /\ pc' = [pc EXCEPT ![t] = "woken"]
    /\ UNCHANGED <<queue, nIdle, nTotal, fAllOk, nTodo, mutex, vChecks, nNow,
                   fOk, blockOk, added, ret>>
    /\ UNCHANGED interruptVars

\* The batch runs outside the mutex; once a check fails, the rest are
\* skipped.
Work(t) ==
    /\ pc[t] = "work"
    /\ fOk' = [fOk EXCEPT ![t] = @ /\ AllTrue(vChecks[t])]
    /\ vChecks' = [vChecks EXCEPT ![t] = <<>>]
    /\ pc' = [pc EXCEPT ![t] = "top"]
    /\ UNCHANGED <<queue, nIdle, nTotal, fAllOk, nTodo, mutex, nNow,
                   blockOk, added, ret>>
    /\ UNCHANGED interruptVars

-----------------------------------------------------------------------------
(* Shutdown: the daemon's threadGroup.interrupt_all().  cond.wait is a     *)
(* boost interruption point; Loop has no handler, so thread_interrupted   *)
(* leaves it between nIdle++ and nIdle--, with nTotal never decremented.  *)

\* interrupt_all() requests an interruption of every thread of the group;
\* each sees it at its own next interruption point, in any order.
InterruptThreads ==
    /\ ~shutdown
    /\ shutdown' = TRUE
    /\ intr' = Threads
    /\ UNCHANGED <<queue, nIdle, nTotal, fAllOk, nTodo, mutex, pc, vChecks, nNow,
                   fOk, blockOk, added, ret, unwinding>>

\* cond.wait throws thread_interrupted, with the mutex taken back (entering
\* the wait, or woken by the interruption or a notify) and released by the
\* unwinding; the request is cleared.  Loop has no handler: the nIdle++
\* before the wait and the nTotal++ of the clean-up are never undone.  A worker's Thread() ends.  The
\* master's exception leaves CCheckQueueControl::Wait with fDone false, so
\* the control's destructor calls Wait, a fresh Loop(true).
Interrupted(t) ==
    /\ pc[t] \in {"waiting", "woken"}
    /\ t \in intr
    /\ mutex = None
    /\ intr' = intr \ {t}
    /\ pc' = [pc EXCEPT ![t] = IF t = Master THEN "top" ELSE "exit"]
    /\ nNow' = [nNow EXCEPT ![t] = 0]
    /\ fOk' = [fOk EXCEPT ![t] = TRUE]
    /\ unwinding' = (unwinding \/ t = Master)
    /\ UNCHANGED <<queue, nIdle, nTotal, fAllOk, nTodo, mutex, vChecks,
                   blockOk, added, ret, shutdown>>

\* Between blocks the master's thread reaches an interruption point of its
\* own and ends.
MasterExit ==
    /\ pc[Master] = "ctor"
    /\ Master \in intr
    /\ intr' = intr \ {Master}
    /\ pc' = [pc EXCEPT ![Master] = "exit"]
    /\ UNCHANGED <<queue, nIdle, nTotal, fAllOk, nTodo, mutex, vChecks, nNow,
                   fOk, blockOk, added, ret, shutdown, unwinding>>

-----------------------------------------------------------------------------
(* The master's side: CCheckQueueControl.                                  *)

\* The constructor: its asserts read the queue's fields without the mutex.
Control ==
    /\ pc[Master] = "ctor"
    /\ pc' = [pc EXCEPT ![Master] = "add"]
    /\ blockOk' = TRUE
    /\ added' = 0
    /\ UNCHANGED <<queue, nIdle, nTotal, fAllOk, nTodo, mutex, vChecks, nNow,
                   fOk, ret>>
    /\ UNCHANGED interruptVars

\* The workers inside condWorker.wait.
WaitingWorkers == {w \in Workers : pc[w] = "waiting"}

\* Add(vChecks): push every check under the mutex, count them in nTodo,
\* and wake one waiting worker for one check, every worker for more.
Add(v) ==
    /\ pc[Master] = "add"
    /\ mutex = None
    /\ added + Len(v) <= MaxBlockChecks
    /\ queue' = queue \o v
    /\ nTodo' = nTodo + Len(v)
    /\ \/ Len(v) = 1 /\ \E w \in WaitingWorkers : pc' = [pc EXCEPT ![w] = "woken"]
       \/ Len(v) = 1 /\ WaitingWorkers = {} /\ UNCHANGED pc
       \/ Len(v) > 1 /\ pc' = [x \in Threads |-> IF x \in WaitingWorkers
                                                THEN "woken" ELSE pc[x]]
    /\ blockOk' = (blockOk /\ AllTrue(v))
    /\ added' = added + Len(v)
    /\ UNCHANGED <<nIdle, nTotal, fAllOk, mutex, vChecks, nNow, fOk, ret>>
    /\ UNCHANGED interruptVars

\* Wait(): the master enters Loop(true) with nNow = 0 and fOk = true.
Wait ==
    /\ pc[Master] = "add"
    /\ pc' = [pc EXCEPT ![Master] = "top"]
    /\ UNCHANGED <<queue, nIdle, nTotal, fAllOk, nTodo, mutex, vChecks, nNow,
                   fOk, blockOk, added, ret>>
    /\ UNCHANGED interruptVars

\* The vectors of checks one Add may pass.
Batches == UNION {[1 .. n -> BOOLEAN] : n \in 1 .. MaxAdd}

Step(t) ==
    \/ Cleanup(t) \/ Return(t) \/ Sleep(t) \/ TakeBatch(t) \/ Wake(t)
    \/ Work(t) \/ Interrupted(t)

Next ==
    \/ \E t \in Threads : Step(t) \/ SpuriousWake(t)
    \/ Control
    \/ \E v \in Batches : Add(v)
    \/ Wait
    \/ InterruptThreads
    \/ MasterExit

\* The scheduler runs every thread that can run (weak fairness), and a
\* thread blocked on the mutex, which other threads keep releasing, is
\* eventually granted it (strong fairness of the two lock-taking steps).
\* Nothing is assumed of spurious wake-ups, which may happen or not, nor of
\* when a shutdown comes or whether the master starts another block.  A
\* block the master has begun ends in Wait: ConnectBlock calls it, or the
\* control's destructor does on an early return.  The master's thread
\* passes an interruption point every round of its loop, however many
\* blocks a round connects, so one interrupted between blocks ends
\* (strong fairness: it may start more blocks first).
Fairness ==
    /\ \A t \in Threads :
          WF_vars(Step(t)) /\ SF_vars(Cleanup(t) \/ Wake(t) \/ Interrupted(t))
    /\ WF_vars(Wait)
    /\ SF_vars(MasterExit)

Spec == Init /\ [][Next]_vars /\ Fairness

-----------------------------------------------------------------------------
(* Properties.                                                             *)

PC == {"ctor", "add", "top", "test", "waiting", "woken", "work", "exit"}

TypeOK ==
    /\ queue \in Seq(BOOLEAN) /\ Len(queue) <= MaxBlockChecks
    /\ nIdle \in 0 .. 2 * Cardinality(Threads)
    /\ nTotal \in 0 .. 2 * Cardinality(Threads)
    /\ fAllOk \in BOOLEAN
    /\ nTodo \in 0 .. MaxBlockChecks
    /\ mutex \in Threads \cup {None}
    /\ pc \in [Threads -> PC]
    /\ \A t \in Threads : vChecks[t] \in Seq(BOOLEAN)
    /\ nNow \in [Threads -> 0 .. nBatchSize]
    /\ fOk \in [Threads -> BOOLEAN]
    /\ blockOk \in BOOLEAN
    /\ added \in 0 .. MaxBlockChecks
    /\ ret \in BOOLEAN \cup {None}
    /\ intr \subseteq Threads
    /\ shutdown \in BOOLEAN
    /\ unwinding \in BOOLEAN

\* Thread t has incremented nTotal and not yet decremented it.
InLoop(t) == pc[t] \in {"test", "waiting", "woken", "work"}
             \/ (pc[t] = "top" /\ nNow[t] # 0)

\* Thread t holds a batch whose checks nTodo still counts.
Holding(t) == pc[t] \in {"work", "top"}

\* The threads inside cond.wait (woken ones not yet holding the mutex).
InWait == {t \in Threads : pc[t] \in {"waiting", "woken"}}

\* Whenever no thread is inside the mutex, the counters of CCheckQueue
\* agree with the threads.  nTodo is the queue plus every batch still held.
\* nTotal - nIdle, which the batch size and the control's asserts read as
\* the threads at work, is exactly the threads inside Loop and not in
\* cond.wait.  Before interrupt_all, nIdle is exactly the threads in
\* cond.wait; after it, a Loop left by thread_interrupted keeps one count in
\* both counters, so nIdle may only exceed them.
Bookkeeping ==
    mutex = None =>
      /\ nTodo = Len(queue) + SumFunction([t \in Threads |-> IF Holding(t) THEN nNow[t] ELSE 0])
      /\ nTotal - nIdle = Cardinality({t \in Threads : InLoop(t)} \ InWait)
      /\ IF shutdown THEN nIdle >= Cardinality(InWait)
                     ELSE nIdle = Cardinality(InWait)

\* What Wait() returns for a block is true exactly when every check the
\* master Added for it succeeds, whichever threads ran them and whatever
\* the previous block returned.
WaitResult ==
    pc[Master] = "ctor" /\ ret # None => ret = blockOk

\* Every Wait() returns: Loop(true) ends with nTodo = 0 however the workers'
\* and the master's waits, notifies and batches interleave.
WaitReturns == pc[Master] = "top" ~> pc[Master] \in {"ctor", "exit"}

\* After interrupt_all() every thread of the group ends, so join_all()
\* returns: no worker is left in cond.wait, and the master, interrupted in
\* Wait, finishes the block's checks in the control's destructor and exits.
ThreadsEnd == shutdown ~> \A t \in Threads : pc[t] = "exit"

\* The asserts of the CCheckQueueControl constructor: a new control finds
\* the queue unused (nTotal == nIdle, nTodo == 0, fAllOk), read as the
\* constructor reads them, without the mutex.
ControlAsserts ==
    pc[Master] = "ctor" => nTotal = nIdle /\ nTodo = 0 /\ fAllOk
=============================================================================
