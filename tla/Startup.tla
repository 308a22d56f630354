------------------------------- MODULE Startup --------------------------------
(***************************************************************************)
(* Start-up and shutdown of a node process, by either front end:           *)
(*   - ticoind: AppInit and DetectShutdownThread of src/bitcoind.cpp;      *)
(*   - ticoin-qt: main, ticoinApplication and the ticoinCore object on its *)
(*     own QThread, of src/qt/bitcoin.cpp.                                 *)
(* Both drive the same core: AppInit2 starts the node threads in a         *)
(* boost::thread_group, StartShutdown sets fRequestShutdown, Shutdown()    *)
(* tears the node down.  init.cpp is not in the tree; those three are      *)
(* written from how the two front ends use them.                           *)
(*                                                                         *)
(* The node threads are one variable `group`: "empty" (none started),      *)
(* "running", "interrupted" (interrupt_all reached them) or "stopped".     *)
(***************************************************************************)
EXTENDS Integers, Sequences

CONSTANTS
    Frontends,     \* the binaries: a subset of {"daemon", "qt"}
    DaemonEarly,   \* how AppInit's argument handling may end early
    QtEarly        \* how the GUI's main may end before the window

None == "none"

\* exitCode before the process has exited.
Running == -1

VARIABLES
    front,        \* the binary this process is
    shutdownReq,  \* fRequestShutdown
    group,        \* the node threads of threadGroup
    initResult,   \* AppInit2's outcome: None, "ok", "fail" or "throw"
    coreDown,     \* Shutdown() has run
    exitCode,     \* the process's exit status once it has exited, else Running
    \* ticoind
    mpc,          \* AppInit's main thread
    detect,       \* DetectShutdownThread: None (not created), its pc, "exited"
    detectInt,    \* detectShutdownThread->interrupt() was called
    \* ticoin-qt
    gpc,          \* the GUI thread: main and its two event loops
    cpc,          \* the core thread: "idle" in its event loop, "joining"
                  \* inside shutdown(), "finished"
    guiQ,         \* signals queued to the GUI thread
    coreQ,        \* signals queued to the core thread
    coreQuit,     \* coreThread->quit() was called
    clientModel,  \* a ClientModel exists and is set on the window
    windowShown,  \* the main window is visible
    timerOn,      \* pollShutdownTimer is running
    tornDown,     \* requestShutdown has run
    returnValue   \* ticoinApplication::returnValue

core == <<front, shutdownReq, group, initResult, coreDown, exitCode>>
daemon == <<mpc, detect, detectInt>>
qt == <<gpc, cpc, guiQ, coreQ, coreQuit, clientModel, windowShown, timerOn,
        tornDown, returnValue>>
vars == <<core, daemon, qt>>

-----------------------------------------------------------------------------
(* The core (init.cpp).                                                     *)

\* AppInit2(threadGroup) returning res: "ok" leaves the node threads
\* running; a failure or an exception may come before or after it started
\* some.  It returns true only if no shutdown was requested by the time it
\* returns, which ticoind relies on: its DetectShutdownThread may already
\* have joined an empty group.
AppInit2(res) ==
    /\ res = "ok" => ~shutdownReq
    /\ group' \in IF res = "ok" THEN {"running"} ELSE {"empty", "running"}
    /\ initResult' = res

\* thread_group::interrupt_all.
InterruptAll(g) == IF g = "running" THEN "interrupted" ELSE g

\* Fault seed: join_all taken as done once the threads are interrupted.
JoinedOnInterrupt(g) == g \in {"empty", "stopped", "interrupted"}

\* thread_group::join_all can return: every thread has ended.
Joined(g) == g \in {"empty", "stopped"}

Alive == exitCode = Running

\* StartShutdown: a signal, the RPC "stop", closing the splash screen or
\* WM_QUERYENDSESSION (qt/winshutdownmonitor.cpp).
RequestShutdown ==
    /\ Alive /\ ~shutdownReq
    /\ shutdownReq' = TRUE
    /\ UNCHANGED <<front, group, initResult, coreDown, exitCode, daemon, qt>>

\* An interrupted node thread reaches an interruption point and ends.
NodeThreadsStop ==
    /\ group = "interrupted" /\ Alive
    /\ group' = "stopped"
    /\ UNCHANGED <<front, shutdownReq, initResult, coreDown, exitCode, daemon, qt>>

-----------------------------------------------------------------------------
(* ticoind (bitcoind.cpp).                                                  *)

\* The exit status main returns for an early end of AppInit: the error
\* returns give false, the daemon's parent true, the RPC client exits with
\* the command's status (taken as 0).
DaemonEarlyCode(p) == IF p \in {"daemonParent", "rpcClient"} THEN 0 ELSE 1

\* AppInit returning (or exiting) before the detect thread is created.
DaemonEarlyExit(p) ==
    /\ mpc = "start"
    /\ exitCode' = DaemonEarlyCode(p)
    /\ mpc' = "exited"
    /\ UNCHANGED <<front, shutdownReq, group, initResult, coreDown, detect, detectInt, qt>>

\* An exception before the detect thread exists: caught, fRet stays false,
\* detectShutdownThread is NULL, and Shutdown() still runs.
DaemonThrow ==
    /\ mpc = "start"
    /\ coreDown' = TRUE
    /\ exitCode' = 1
    /\ mpc' = "exited"
    /\ UNCHANGED <<front, shutdownReq, group, initResult, detect, detectInt, qt>>

\* new boost::thread(DetectShutdownThread), then fRet = AppInit2(...),
\* an exception leaving fRet false.
DaemonAppInit2 ==
    /\ mpc = "start"
    /\ detect' = "check"
    /\ \E res \in {"ok", "fail", "throw"} : AppInit2(res)
    /\ mpc' = "afterInit"
    /\ UNCHANGED <<front, shutdownReq, coreDown, exitCode, detectInt, qt>>

\* if (!fRet) { detectShutdownThread->interrupt(); threadGroup.interrupt_all(); }
DaemonAfterInit ==
    /\ mpc = "afterInit"
    /\ IF initResult = "ok"
       THEN UNCHANGED <<detectInt, group>>
       ELSE detectInt' = TRUE /\ group' = InterruptAll(group)
    /\ mpc' = "joinDetect"
    /\ UNCHANGED <<front, shutdownReq, initResult, coreDown, exitCode, detect, qt>>

\* Fault seed: main returning -1 on failure, an exit status of 255.
DaemonExitCodeNegative(fRet) == IF fRet THEN 0 ELSE (-1) % 256

\* main: return (fRet ? 0 : 1) (and 0 for the daemon, whose fRet is true).
DaemonExitCode(fRet) == IF fRet THEN 0 ELSE 1

\* detectShutdownThread->join(); Shutdown(); return fRet; then main.
DaemonShutdown ==
    /\ mpc = "joinDetect" /\ detect = "exited"
    /\ coreDown' = TRUE
    /\ exitCode' = DaemonExitCode(initResult = "ok")
    /\ mpc' = "exited"
    /\ UNCHANGED <<front, shutdownReq, group, initResult, detect, detectInt, qt>>

\* bool fShutdown = ShutdownRequested();
DetectCheck ==
    /\ detect = "check" /\ Alive
    /\ detect' = IF shutdownReq THEN "interruptAll" ELSE "sleep"
    /\ UNCHANGED <<core, mpc, detectInt, qt>>

\* Fault seed: a sleep that is not an interruption point.
DetectSleepUninterruptible ==
    /\ detect = "sleep" /\ Alive
    /\ shutdownReq
    /\ detect' = "interruptAll"
    /\ UNCHANGED <<core, mpc, detectInt, qt>>

\* One pass of while (!fShutdown) { MilliSleep(200); fShutdown = ...; }:
\* MilliSleep is an interruption point and ends the thread if interrupted.
DetectSleep ==
    /\ detect = "sleep" /\ Alive
    /\ detectInt \/ shutdownReq
    /\ detect' = IF detectInt THEN "exited" ELSE "interruptAll"
    /\ UNCHANGED <<core, mpc, detectInt, qt>>

\* threadGroup->interrupt_all();
DetectInterruptAll ==
    /\ detect = "interruptAll" /\ Alive
    /\ group' = InterruptAll(group)
    /\ detect' = "joinAll"
    /\ UNCHANGED <<front, shutdownReq, initResult, coreDown, exitCode, mpc, detectInt, qt>>

\* threadGroup->join_all(): join is an interruption point too.
DetectJoinAll ==
    /\ detect = "joinAll" /\ Alive
    /\ detectInt \/ Joined(group)
    /\ detect' = "exited"
    /\ UNCHANGED <<core, mpc, detectInt, qt>>

-----------------------------------------------------------------------------
(* ticoin-qt (qt/bitcoin.cpp).  Signals between the GUI thread and the     *)
(* core thread are queued connections: a FIFO of posted events per thread. *)

\* main's early returns and exits: help, a missing data directory and bad
\* -regtest/-testnet return 1; a configuration file that does not parse
\* returns false; a URI handed to a running instance exits with 0.
QtEarlyCode(p) == IF p \in {"badConfig", "ipcHandled"} THEN 0 ELSE 1

QtEarlyExit(p) ==
    /\ gpc = "start"
    /\ exitCode' = QtEarlyCode(p)
    /\ gpc' = "exited"
    /\ UNCHANGED <<front, shutdownReq, group, initResult, coreDown, daemon,
                   cpc, guiQ, coreQ, coreQuit, clientModel, windowShown, timerOn,
                   tornDown, returnValue>>

\* ticoinApplication app (startThread: the core thread starts its event
\* loop), createOptionsModel, createSplashScreen, createWindow (starts
\* pollShutdownTimer), requestInitialize (posts initialize), app.exec().
QtStart ==
    /\ gpc = "start"
    /\ cpc' = "idle"
    /\ timerOn' = TRUE
    /\ coreQ' = <<"initialize">>
    /\ gpc' = "loop1"
    /\ UNCHANGED <<core, daemon, guiQ, coreQuit, clientModel, windowShown,
                   tornDown, returnValue>>

\* Fault seed: main returning as soon as its first app.exec() returns.
AfterLoopSingleExec(pc) == "return"

\* Where main goes when an event loop quits.
AfterLoop(pc) == IF pc = "loop1" THEN "requestShutdown" ELSE "return"

InLoop == gpc \in {"loop1", "loop2"}

\* ticoinApplication::initializeResult(retval): returnValue = retval ? 0 : 1;
\* on success a ClientModel is created and set on the window, which is
\* shown; on failure quit().
InitializeResult(ok) ==
    /\ returnValue' = IF ok THEN 0 ELSE 1
    /\ IF ok
       THEN /\ clientModel' = TRUE /\ windowShown' = TRUE
            /\ UNCHANGED gpc
       ELSE /\ gpc' = AfterLoop(gpc)
            /\ UNCHANGED <<clientModel, windowShown>>

\* The GUI thread's event loop delivers the oldest posted signal.
GuiEvent ==
    /\ InLoop /\ guiQ # <<>> /\ Alive
    /\ guiQ' = Tail(guiQ)
    /\ CASE Head(guiQ) = "initOk"   -> InitializeResult(TRUE) /\ UNCHANGED exitCode
         [] Head(guiQ) = "initFail" -> InitializeResult(FALSE) /\ UNCHANGED exitCode
            \* shutdownResult: quit().
         [] Head(guiQ) = "shutdownDone" ->
               /\ gpc' = AfterLoop(gpc)
               /\ UNCHANGED <<exitCode, returnValue, clientModel, windowShown>>
            \* handleRunawayException: a message box, then ::exit(1).
         [] Head(guiQ) = "runaway" ->
               /\ exitCode' = 1 /\ gpc' = "exited"
               /\ UNCHANGED <<returnValue, clientModel, windowShown>>
    /\ UNCHANGED <<front, shutdownReq, group, initResult, coreDown, daemon,
                   cpc, coreQ, coreQuit, timerOn, tornDown>>

\* pollShutdownTimer fires window->detectShutdown (bitcoingui.cpp, not in
\* the tree), which quits the application once a shutdown is requested.
DetectShutdownTimer ==
    /\ InLoop /\ timerOn /\ shutdownReq /\ Alive
    /\ gpc' = AfterLoop(gpc)
    /\ UNCHANGED <<core, daemon, cpc, guiQ, coreQ, coreQuit, clientModel,
                   windowShown, timerOn, tornDown, returnValue>>

\* ticoinApplication::requestShutdown: hide the window, detach and delete
\* the client (and wallet) model, stop the timer, show the shutdown window,
\* post requestedShutdown; then main's second app.exec().
RequestShutdownQt ==
    /\ gpc = "requestShutdown" /\ Alive
    /\ windowShown' = FALSE /\ clientModel' = FALSE /\ timerOn' = FALSE
    /\ tornDown' = TRUE
    /\ coreQ' = Append(coreQ, "shutdown")
    /\ gpc' = "loop2"
    /\ UNCHANGED <<core, daemon, cpc, guiQ, coreQuit, returnValue>>

\* main returns: ~ticoinApplication emits stopThread, whose direct
\* connection calls coreThread->quit(), and then coreThread->wait().
QtReturn ==
    /\ gpc = "return" /\ Alive
    /\ coreQuit' = TRUE
    /\ gpc' = "waitCore"
    /\ UNCHANGED <<core, daemon, cpc, guiQ, coreQ, clientModel, windowShown,
                   timerOn, tornDown, returnValue>>

\* coreThread->wait() returns; main returns app.getReturnValue().
QtExit ==
    /\ gpc = "waitCore" /\ cpc = "finished" /\ Alive
    /\ exitCode' = returnValue
    /\ gpc' = "exited"
    /\ UNCHANGED <<front, shutdownReq, group, initResult, coreDown, daemon,
                   cpc, guiQ, coreQ, coreQuit, clientModel, windowShown, timerOn,
                   tornDown, returnValue>>

\* ticoinCore::initialize: AppInit2, then initializeResult(rv), or
\* runawayException if it throws.
CoreInitialize ==
    /\ cpc = "idle" /\ coreQ # <<>> /\ Head(coreQ) = "initialize" /\ Alive
    /\ coreQ' = Tail(coreQ)
    /\ \E res \in {"ok", "fail", "throw"} :
          /\ AppInit2(res)
          /\ guiQ' = Append(guiQ, CASE res = "ok"   -> "initOk"
                                    [] res = "fail" -> "initFail"
                                    [] OTHER        -> "runaway")
    /\ UNCHANGED <<front, shutdownReq, coreDown, exitCode, daemon, gpc, cpc,
                   coreQuit, clientModel, windowShown, timerOn, tornDown, returnValue>>

\* ticoinCore::shutdown: threadGroup.interrupt_all(), then join_all().
CoreShutdownStart ==
    /\ cpc = "idle" /\ coreQ # <<>> /\ Head(coreQ) = "shutdown" /\ Alive
    /\ coreQ' = Tail(coreQ)
    /\ group' = InterruptAll(group)
    /\ cpc' = "joining"
    /\ UNCHANGED <<front, shutdownReq, initResult, coreDown, exitCode, daemon,
                   gpc, guiQ, coreQuit, clientModel, windowShown, timerOn,
                   tornDown, returnValue>>

\* join_all returns; Shutdown(); emit shutdownResult(1).
CoreShutdownFinish ==
    /\ cpc = "joining" /\ Joined(group) /\ Alive
    /\ coreDown' = TRUE
    /\ guiQ' = Append(guiQ, "shutdownDone")
    /\ cpc' = "idle"
    /\ UNCHANGED <<front, shutdownReq, group, initResult, exitCode, daemon,
                   gpc, coreQ, coreQuit, clientModel, windowShown, timerOn,
                   tornDown, returnValue>>

\* The core thread's event loop sees quit() (called from the GUI thread)
\* between two events and ends: an event posted before it may be delivered
\* first or never, as the two threads race.
CoreQuit ==
    /\ cpc = "idle" /\ coreQuit /\ Alive
    /\ cpc' = "finished"
    /\ UNCHANGED <<core, daemon, gpc, guiQ, coreQ, coreQuit, clientModel,
                   windowShown, timerOn, tornDown, returnValue>>

-----------------------------------------------------------------------------

Init ==
    /\ front \in Frontends
    /\ shutdownReq = FALSE
    /\ group = "empty"
    /\ initResult = None
    /\ coreDown = FALSE
    /\ exitCode = Running
    /\ mpc = IF front = "daemon" THEN "start" ELSE None
    /\ detect = None
    /\ detectInt = FALSE
    /\ gpc = IF front = "qt" THEN "start" ELSE None
    /\ cpc = None
    /\ guiQ = <<>>
    /\ coreQ = <<>>
    /\ coreQuit = FALSE
    /\ clientModel = FALSE
    /\ windowShown = FALSE
    /\ timerOn = FALSE
    /\ tornDown = FALSE
    /\ returnValue = 0

Daemon ==
    \/ \E p \in DaemonEarly : DaemonEarlyExit(p)
    \/ DaemonThrow \/ DaemonAppInit2 \/ DaemonAfterInit \/ DaemonShutdown
    \/ DetectCheck \/ DetectSleep \/ DetectInterruptAll \/ DetectJoinAll

Gui ==
    \/ \E p \in QtEarly : QtEarlyExit(p)
    \/ QtStart \/ GuiEvent \/ DetectShutdownTimer \/ RequestShutdownQt
    \/ QtReturn \/ QtExit

Core == CoreInitialize \/ CoreShutdownStart \/ CoreShutdownFinish \/ CoreQuit

Next == RequestShutdown \/ NodeThreadsStop \/ Daemon \/ Gui \/ Core

\* Every thread of the process is scheduled; the timer keeps firing while
\* it runs.  A shutdown request carries no fairness: nobody has to ask.
Spec ==
    /\ Init /\ [][Next]_vars
    /\ WF_vars(NodeThreadsStop) /\ WF_vars(Daemon) /\ WF_vars(Gui) /\ WF_vars(Core)

-----------------------------------------------------------------------------

TypeOK ==
    /\ front \in {"daemon", "qt"}
    /\ group \in {"empty", "running", "interrupted", "stopped"}
    /\ initResult \in {None, "ok", "fail", "throw"}
    /\ exitCode \in {Running, 0, 1}
    /\ mpc \in {None, "start", "afterInit", "joinDetect", "exited"}
    /\ detect \in {None, "check", "sleep", "interruptAll", "joinAll", "exited"}
    /\ gpc \in {None, "start", "loop1", "requestShutdown", "loop2", "return",
                "waitCore", "exited"}
    /\ cpc \in {None, "idle", "joining", "finished"}
    /\ guiQ \in Seq({"initOk", "initFail", "shutdownDone", "runaway"})
    /\ coreQ \in Seq({"initialize", "shutdown"})
    /\ returnValue \in {0, 1}
    /\ {shutdownReq, coreDown, detectInt, coreQuit, clientModel, windowShown,
        timerOn, tornDown} \subseteq BOOLEAN

\* Shutdown() tears down what the node threads use, so it runs only once
\* they have all ended (join_all returned) -- ticoind after its detect
\* thread joined the group, ticoin-qt's core thread after its own
\* join_all -- with the one exception bitcoind.cpp:157-159 documents: after
\* AppInit2 failed, ticoind interrupts the threads and does not join them.
ShutdownAfterJoin ==
    coreDown =>
        \/ group \in {"empty", "stopped"}
        \/ front = "daemon" /\ initResult # "ok" /\ group = "interrupted"

\* Once a shutdown is requested, or AppInit2 has failed, the process exits:
\* no thread waits forever on another (the detect thread's sleep and join
\* are interruption points; the GUI's second loop ends on shutdownResult).
ExitsWhenAsked == (shutdownReq \/ initResult \in {"fail", "throw"}) ~> ~Alive

\* Once AppInit2 has returned true, neither binary exits before Shutdown()
\* has run: ticoind's main reaches it after the detect thread's join, and
\* ticoin-qt's second event loop ends only on shutdownResult, which the
\* core thread emits after Shutdown().  (After a failed AppInit2 this does
\* not hold in ticoin-qt: a failing initializeResult delivered in the
\* second loop makes main return, and the core thread may then quit with
\* requestedShutdown still queued.)
ShutdownBeforeExit == ~Alive /\ initResult = "ok" => coreDown

\* After requestShutdown has hidden the window and deleted the client
\* model, the GUI never shows the window or attaches a client model again:
\* the node under it is being shut down.
NoModelAfterTeardown == tornDown => ~clientModel /\ ~windowShown

=============================================================================
