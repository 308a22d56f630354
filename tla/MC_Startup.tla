----------------------------- MODULE MC_Startup ------------------------------
(***************************************************************************)
(* ticoind and ticoin-qt: start-up and shutdown of both binaries, the      *)
(* wallet's public key records and the GUI's coin control dialog, which    *)
(* share no state, checked in one model: a behaviour picks one unit and    *)
(* steps only that one, the others stay in their initial states.           *)
(*   Startup:     both binaries, every early end of their argument         *)
(*                handling, every outcome of AppInit2, a shutdown request  *)
(*                at any moment or never.                                  *)
(*   CoinControl: three outputs at two addresses, one with an uncompressed *)
(*                key, valued so that the change after the fee is          *)
(*                negative, zero, dust, below nMinTxFee, below CENT and    *)
(*                above it, with GetMinFee returning 0 or nMinTxFee.       *)
(*   PubKey:      one CPubKey with keys of 2 and 3 bytes standing for 33   *)
(*                and 65 (the header bytes unchanged), set from vectors    *)
(*                of the right, a wrong and no length, and a stream of up  *)
(*                to 6 bytes holding its records and damaged records that  *)
(*                declare a length of 0, 1, 2 and 4 (past PubKeySize).     *)
(***************************************************************************)
EXTENDS Integers, Sequences, TLC

VARIABLES
    unit,
    front, shutdownReq, group, initResult, coreDown, exitCode, mpc, detect,
    detectInt, gpc, cpc, guiQ, coreQ, coreQuit, clientModel, windowShown,
    timerOn, tornDown, returnValue,                             \* Startup
    open, mode, selected, locked, spent, payAmounts, shown, checked,
    disabled, labels, menu,                                     \* CoinControl
    key, stream, pending, last                                  \* PubKey

CONSTANTS NoLabels, p1, NoRead

MC_DaemonEarly == {"help", "badDatadir", "badConfig", "badParams", "forkFailed",
                   "daemonParent", "rpcClient"}
MC_QtEarly == {"help", "badDatadir", "badConfig", "badParams", "ipcHandled"}

S == INSTANCE Startup
       WITH Frontends <- {"daemon", "qt"}, DaemonEarly <- MC_DaemonEarly,
            QtEarly <- MC_QtEarly
\* The idle start-up unit: ticoind before it runs.
SIdle == INSTANCE Startup
           WITH Frontends <- {"daemon"}, DaemonEarly <- MC_DaemonEarly,
                QtEarly <- MC_QtEarly

\* Bitcoin 0.9's amounts, in satoshi.
MC_CENT == 1000000
MC_nMinTxFee == 10000
MC_Coins == {"o1", "o2", "o3"}
CC == INSTANCE CoinControl
        WITH Coins <- MC_Coins,
             AddrOf <- [c \in MC_Coins |-> IF c = "o3" THEN "a2" ELSE "a1"],
             Value <- ("o1" :> 1000000 @@ "o2" :> 20000 @@ "o3" :> 3000),
             InputSize <- ("o1" :> 148 @@ "o2" :> 148 @@ "o3" :> 180),
             PayAmountSets <- {<<>>, <<1000000>>, <<1009800>>, <<20000, 3000>>},
             nTransactionFee <- 0,
             MinFees <- {0, MC_nMinTxFee},
             CENT <- MC_CENT,
             nMinTxFee <- MC_nMinTxFee,
             DustThreshold <- 543,
             None <- NoLabels   \* no labels, no context menu

PK == INSTANCE PubKey
        WITH CompressedSize <- 2, PubKeySize <- 3, Bytes <- {0, 1, 2, 4, 255},
             Garbage <- {0}, Objects <- {p1},
             Inputs <- {<<2, 1>>, <<4, 0, 1>>, <<4, 1>>, <<>>},
             Damaged <- {<<0>>, <<1, 2>>, <<2, 4, 1>>, <<4, 2, 0, 1, 1>>},
             MaxStream <- 6, None <- NoRead

sVars == <<front, shutdownReq, group, initResult, coreDown, exitCode, mpc, detect,
           detectInt, gpc, cpc, guiQ, coreQ, coreQuit, clientModel, windowShown,
           timerOn, tornDown, returnValue>>
ccVars == <<open, mode, selected, locked, spent, payAmounts, shown, checked,
            disabled, labels, menu>>
pkVars == <<key, stream, pending, last>>
vars == <<unit, sVars, ccVars, pkVars>>

Init ==
    /\ unit \in {"startup", "coincontrol", "pubkey"}
    /\ IF unit = "startup" THEN S!Init ELSE SIdle!Init
    /\ CC!Init
    /\ PK!Init

\* A step of the start-up unit.
InStartup(A) == unit = "startup" /\ A /\ UNCHANGED <<unit, ccVars, pkVars>>

Next ==
    \/ InStartup(S!Next)
    \/ unit = "coincontrol" /\ CC!Next /\ UNCHANGED <<unit, sVars, pkVars>>
    \/ unit = "pubkey" /\ PK!Next /\ UNCHANGED <<unit, sVars, ccVars>>

\* Startup's fairness (see there), for its unit; the dialog and the key
\* records have none.
Spec ==
    /\ Init /\ [][Next]_vars
    /\ WF_vars(InStartup(S!NodeThreadsStop)) /\ WF_vars(InStartup(S!Daemon))
    /\ WF_vars(InStartup(S!Gui)) /\ WF_vars(InStartup(S!Core))

-----------------------------------------------------------------------------
(* The units' properties; see Startup, CoinControl and PubKey.  A unit not run     *)
(* stays in its initial state, where each holds.                           *)

\* Every unit's variables keep their types.
TypeOK == S!TypeOK /\ CC!TypeOK /\ PK!TypeOK

\* Startup: Shutdown() never runs before the node's threads are joined,
\* except on ticoind's failure path.
ShutdownAfterJoin == S!ShutdownAfterJoin

\* Startup: after a successful AppInit2 the process exits only once
\* Shutdown() has run.
ShutdownBeforeExit == S!ShutdownBeforeExit

\* Startup: a requested shutdown, or a failed or throwing AppInit2, always
\* ends the process.
ExitsWhenAsked == S!ExitsWhenAsked

\* Startup: no client model is created or the window shown after
\* requestShutdown tore them down.
NoModelAfterTeardown == S!NoModelAfterTeardown

\* CoinControl: an open dialog's checkboxes match the selection.
CheckedIsSelected == CC!CheckedIsSelected

\* CoinControl: no output the dialog shows locked is selected.
LockedNeverSelected == CC!LockedNeverSelected

\* CoinControl: the labels add up and the change is never dust.
ChangeSound == CC!ChangeSound

\* PubKey: a valid key read back from its record is the key written, with
\* damaged records of any declared length between.
RoundTrip == PK!RoundTrip
=============================================================================
