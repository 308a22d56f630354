----------------------------- MODULE CoinControl -----------------------------
(***************************************************************************)
(* The coin control dialog of ticoin-qt (src/qt/coincontroldialog.cpp).    *)
(*                                                                         *)
(* The dialog lists the wallet's unspent outputs, one checkbox each, under *)
(* their address (tree mode) or flat (list mode).  A checkbox change       *)
(* emits itemChanged, which Qt delivers synchronously to viewItemChanged;  *)
(* that handler may set the check state again, so the handlers below fold  *)
(* the re-entrant calls into one step.  The selection lives in the static  *)
(* CCoinControl, which outlives the dialog; locks and spends live in the  *)
(* wallet, which RPC and other wallets change while the dialog is open.   *)
(* Labels are what updateLabels computes, before formatting.              *)
(***************************************************************************)
EXTENDS Integers, Sequences, FiniteSets, Functions

CONSTANTS
    Coins,          \* the wallet's outputs (COutPoint)
    AddrOf,         \* the address each output pays to
    Value,          \* each output's nValue
    InputSize,      \* 148 or 180: the input's size by its public key
    PayAmountSets,  \* CoinControlDialog::payAmounts the send dialog may set
    nTransactionFee,
    MinFees,        \* what GetMinFee may return (main.cpp, not in the tree)
    CENT,
    nMinTxFee,      \* CTransaction::nMinTxFee
    DustThreshold,  \* IsDust(nMinRelayTxFee) of a 24-byte-script output:
                    \* nValue below it
    None            \* no labels: the dialog does not exist

VARIABLES
    open,       \* the dialog exists (exec() is running)
    mode,       \* "tree" or "list": radioTreeMode / radioListMode
    selected,   \* coinControl->setSelected
    locked,     \* the wallet's setLockedCoins
    spent,      \* outputs the wallet knows spent
    payAmounts, \* CoinControlDialog::payAmounts
    shown,      \* outputs with an item in treeWidget
    checked,    \* items whose checkbox is Checked
    disabled,   \* items setDisabled(true) (shown with a lock)
    labels,     \* what the last updateLabels displayed, or None
    menu        \* the context menu being exec()uted: its item and whether
                \* lockAction and unlockAction are enabled, or None

vars == <<open, mode, selected, locked, spent, payAmounts, shown, checked,
          disabled, labels, menu>>

Addresses == {AddrOf[c] : c \in Coins}

-----------------------------------------------------------------------------
(* viewItemChanged and setCheckState.  The item changed is an output's     *)
(* (its txhash column has 64 characters); v is [checked, selected].        *)

RECURSIVE SetCheckState(_, _, _), ViewItemChanged(_, _)

\* Fault seed: a disabled item checked through its parent is selected.
ViewItemChangedSelectsLocked(v, c) ==
    IF c \notin v.checked THEN [v EXCEPT !.selected = @ \ {c}]
    ELSE [v EXCEPT !.selected = @ \cup {c}]

\* Unchecked: UnSelect; checked but disabled (a locked output checked through
\* its parent or by select all): set it back to Unchecked, which re-enters
\* this handler; checked: Select.
ViewItemChanged(v, c) ==
    IF c \notin v.checked THEN [v EXCEPT !.selected = @ \ {c}]
    ELSE IF c \in disabled THEN SetCheckState(v, c, FALSE)
    ELSE [v EXCEPT !.selected = @ \cup {c}]

\* QTreeWidgetItem::setCheckState: a new state is stored and itemChanged
\* emitted; the same state changes nothing.
SetCheckState(v, c, on) ==
    IF (c \in v.checked) = on THEN v
    ELSE ViewItemChanged([v EXCEPT !.checked = IF on THEN @ \cup {c} ELSE @ \ {c}], c)

\* setCheckState on each of a set of items, in any order.
RECURSIVE SetAll(_, _, _)
SetAll(v, S, on) ==
    IF S = {} THEN v
    ELSE LET c == CHOOSE x \in S : TRUE
         IN  SetAll(SetCheckState(v, c, on), S \ {c}, on)

-----------------------------------------------------------------------------
(* updateLabels.                                                           *)

\* nPayAmount.
PayTotal(p) == SumFunction(p)

\* The selected outputs updateLabels counts, after it unselects the spent.
Live(sel) == sel \ spent

\* nBytes before the change output is known: the inputs, one output per
\* amount and one for change (two when there are no amounts), and 10.
TxBytes(sel, p) ==
    SumFunctionOnSet(InputSize, Live(sel))
      + (IF Len(p) > 0 THEN Len(p) + 1 ELSE 2) * 34 + 10

\* Fault seed: the sub-cent change raised to nMinTxFee keeps the old fee.
SubCentKeepsFee(fee, change) ==
    IF fee < nMinTxFee /\ change > 0 /\ change < CENT
    THEN IF change < nMinTxFee THEN [fee |-> fee + change, change |-> 0]
         ELSE [fee |-> fee, change |-> change + fee - nMinTxFee]
    ELSE [fee |-> fee, change |-> change]

\* Sub-cent change needs a fee of at least nMinTxFee: change below it all
\* goes to the fee, otherwise the fee is raised out of the change.
SubCent(fee, change) ==
    IF fee < nMinTxFee /\ change > 0 /\ change < CENT
    THEN IF change < nMinTxFee THEN [fee |-> fee + change, change |-> 0]
         ELSE [fee |-> nMinTxFee, change |-> change + fee - nMinTxFee]
    ELSE [fee |-> fee, change |-> change]

\* Dust change is never created: it is added to the fee.
NoDust(r) ==
    IF r.change > 0 /\ r.change < CENT /\ r.change < DustThreshold
    THEN [fee |-> r.fee + r.change, change |-> 0]
    ELSE r

\* Fault seed: nAfterFee not clamped at zero.
AfterFeeUnclamped(amount, fee) == amount - fee

\* nAfterFee: what is left of the inputs after the fee, never below zero.
AfterFee(amount, fee) == IF amount - fee < 0 THEN 0 ELSE amount - fee

\* The numbers updateLabels displays for the live selection, given what
\* GetMinFee returned.
Labels(sel, p, minFee) ==
    LET amount == SumFunctionOnSet(Value, Live(sel))
        pay    == PayTotal(p)
        bytes0 == TxBytes(sel, p)
        nFee   == nTransactionFee * (1 + bytes0 \div 1000)
        fee0   == IF nFee >= minFee THEN nFee ELSE minFee
        r      == IF pay > 0 THEN NoDust(SubCent(fee0, amount - fee0 - pay))
                  ELSE [fee |-> fee0, change |-> 0]
        bytes  == IF pay > 0 /\ r.change = 0 THEN bytes0 - 34 ELSE bytes0
    IN  IF Live(sel) = {}
        THEN [quantity |-> 0, amount |-> 0, pay |-> pay, fee |-> 0, afterFee |-> 0,
              change |-> 0, bytes |-> 0, insufficient |-> FALSE]
        ELSE [quantity |-> Cardinality(Live(sel)), amount |-> amount, pay |-> pay,
              fee |-> r.fee,
              afterFee |-> AfterFee(amount, r.fee),
              change |-> r.change, bytes |-> bytes, insufficient |-> r.change < 0]

\* updateLabels(model, this) on the selection sel: spent outputs are
\* unselected, the rest shown.
UpdateLabels(sel) ==
    /\ selected' = Live(sel)
    /\ \E minFee \in MinFees : labels' = Labels(sel, payAmounts, minFee)

-----------------------------------------------------------------------------
(* updateView and the dialog's handlers.                                   *)

\* The current checkboxes and selection.
Boxes == [checked |-> checked, selected |-> selected]

\* Fault seed: updateView leaves every checkbox unchecked.
ViewUnchecked ==
    LET list == Coins \ spent
    IN  [shown |-> list, disabled |-> locked \cap list,
         selected |-> selected \ (locked \cap list), checked |-> {}]

\* updateView: one item per output listCoins returns (the unspent ones,
\* locked included); a locked output is unselected and disabled; an item
\* is checked when its output is selected.  The tree is disabled
\* meanwhile, so no labels are updated.
View ==
    LET list == Coins \ spent
        sel  == selected \ (locked \cap list)
    IN  [shown |-> list, disabled |-> locked \cap list, selected |-> sel,
         checked |-> list \cap sel]

\* The send dialog opens the dialog: setModel runs updateView,
\* updateLabelLocked (display only) and updateLabels.  Which radio button starts checked is
\* set in the form, not in the tree.
Open ==
    /\ ~open
    /\ open' = TRUE
    /\ mode' \in {"tree", "list"}
    /\ LET v == View
       IN  /\ shown' = v.shown
           /\ disabled' = v.disabled
           /\ checked' = v.checked
           /\ UpdateLabels(v.selected)
    /\ UNCHANGED <<locked, spent, payAmounts, menu>>

\* radioTreeMode / radioListMode: the view is rebuilt, the labels are not.
ToggleMode ==
    /\ open
    /\ menu = None
    /\ mode' = IF mode = "tree" THEN "list" ELSE "tree"
    /\ LET v == View
       IN  /\ shown' = v.shown
           /\ disabled' = v.disabled
           /\ checked' = v.checked
           /\ selected' = v.selected
    /\ UNCHANGED <<open, locked, spent, payAmounts, labels, menu>>

\* The user clicks an output's checkbox; a disabled item takes no clicks.
ClickOutput(c) ==
    /\ open
    /\ menu = None
    /\ c \in shown \ disabled
    /\ LET v == SetCheckState(Boxes, c, c \notin checked)
       IN  checked' = v.checked /\ UpdateLabels(v.selected)
    /\ UNCHANGED <<open, mode, locked, spent, payAmounts, shown, disabled, menu>>

\* The outputs under address a in tree mode.
Children(a) == {c \in shown : AddrOf[c] = a}

\* The user clicks an address in tree mode: Qt sets the tristate parent
\* Unchecked if it was Checked (all children checked), else Checked, and
\* passes that state to every child, disabled ones included; each child
\* that changes runs viewItemChanged, which updates the labels.
ClickAddress(a) ==
    /\ open
    /\ menu = None
    /\ mode = "tree"
    /\ Children(a) # {}
    /\ LET v == SetAll(Boxes, Children(a), ~(Children(a) \subseteq checked))
       IN  checked' = v.checked /\ UpdateLabels(v.selected)
    /\ UNCHANGED <<open, mode, locked, spent, payAmounts, shown, disabled, menu>>

\* buttonSelectAllClicked: Unchecked if any top-level item is not
\* Unchecked, else Checked, set on every item with the tree disabled;
\* unchecking ends with UnSelectAll, then the labels are updated.
SelectAll ==
    /\ open
    /\ menu = None
    /\ LET on == checked = {}
           v  == SetAll(Boxes, shown, on)
       IN  /\ checked' = v.checked
           /\ UpdateLabels(IF on THEN v.selected ELSE {})
    /\ UNCHANGED <<open, mode, locked, spent, payAmounts, shown, disabled, menu>>

\* The items a right click can hit: every output, and in tree mode the
\* address nodes above them.
MenuItems == shown \cup (IF mode = "tree" THEN {AddrOf[c] : c \in shown} ELSE {})

\* showMenu: the item under the cursor becomes contextMenuItem; for an
\* output, lock is enabled when the wallet says it is not locked and unlock
\* when it is, for an address both are disabled.  contextMenu->exec() then
\* runs a nested event loop that grabs the input: the dialog takes no other
\* clicks until the menu closes, while RPC and the wallet go on.
ShowMenu(i) ==
    /\ open
    /\ menu = None
    /\ i \in MenuItems
    /\ menu' = [item |-> i, lock |-> i \in Coins \ locked,
                 unlock |-> i \in Coins \cap locked]
    /\ UNCHANGED <<open, mode, selected, locked, spent, payAmounts, shown,
                   checked, disabled, labels>>

\* The menu closes without lock or unlock: dismissed, or a copy action.
DismissMenu ==
    /\ menu # None
    /\ menu' = None
    /\ UNCHANGED <<open, mode, selected, locked, spent, payAmounts, shown,
                   checked, disabled, labels>>

\* lockCoin, the menu's lock action on contextMenuItem c, enabled by the
\* wallet's state when the menu opened: a checked item is unchecked first
\* (viewItemChanged unselects it and updates the labels), then the wallet
\* locks it and the item is disabled.  The trailing updateLabelLocked only
\* sets the text of labelLocked, which no property reads.
LockCoin(c) ==
    /\ open
    /\ menu # None /\ menu.lock /\ menu.item = c
    /\ LET v == SetCheckState(Boxes, c, FALSE)
       IN  /\ checked' = v.checked
           /\ IF c \in checked THEN UpdateLabels(v.selected)
              ELSE UNCHANGED <<selected, labels>>
    /\ locked' = locked \cup {c}
    /\ disabled' = disabled \cup {c}
    /\ menu' = None
    /\ UNCHANGED <<open, mode, spent, payAmounts, shown>>

\* unlockCoin, the menu's unlock action: the wallet unlocks c, the item is
\* enabled and keeps its checkbox (updateLabelLocked: display only).
UnlockCoin(c) ==
    /\ open
    /\ menu # None /\ menu.unlock /\ menu.item = c
    /\ locked' = locked \ {c}
    /\ disabled' = disabled \ {c}
    /\ menu' = None
    /\ UNCHANGED <<open, mode, selected, spent, payAmounts, shown, checked, labels>>

\* OK or close: exec() returns and the dialog and its items are destroyed;
\* the selection stays in the static CCoinControl.
Close ==
    /\ open
    /\ menu = None
    /\ open' = FALSE
    /\ shown' = {} /\ checked' = {} /\ disabled' = {}
    /\ labels' = None
    /\ UNCHANGED <<mode, selected, locked, spent, payAmounts, menu>>

-----------------------------------------------------------------------------
(* The wallet and the send dialog, which the coin control dialog does not  *)
(* observe.                                                                *)

\* Another wallet with the same keys spends an output.
SpendElsewhere(c) ==
    /\ c \notin spent
    /\ spent' = spent \cup {c}
    /\ UNCHANGED <<open, mode, selected, locked, payAmounts, shown, checked,
                   disabled, labels, menu>>

\* The lockunspent RPC, served on another thread while the dialog is open.
RpcLock(c, on) ==
    /\ locked' = IF on THEN locked \cup {c} ELSE locked \ {c}
    /\ locked' # locked
    /\ UNCHANGED <<open, mode, selected, spent, payAmounts, shown, checked,
                   disabled, labels, menu>>

\* The send dialog's amounts, set while the modal dialog is closed.
SetPayAmounts(p) ==
    /\ ~open
    /\ payAmounts' = p
    /\ payAmounts # p
    /\ UNCHANGED <<open, mode, selected, locked, spent, shown, checked,
                   disabled, labels, menu>>

Init ==
    /\ open = FALSE
    /\ mode = "tree"
    /\ selected = {}
    /\ locked = {}
    /\ spent = {}
    /\ payAmounts = <<>>
    /\ shown = {} /\ checked = {} /\ disabled = {}
    /\ labels = None
    /\ menu = None

Next ==
    \/ Open \/ ToggleMode \/ SelectAll \/ Close \/ DismissMenu
    \/ \E i \in Coins \cup Addresses : ShowMenu(i)
    \/ \E c \in Coins : ClickOutput(c) \/ LockCoin(c) \/ UnlockCoin(c) \/ SpendElsewhere(c)
    \/ \E a \in Addresses : ClickAddress(a)
    \/ \E c \in Coins, on \in BOOLEAN : RpcLock(c, on)
    \/ \E p \in PayAmountSets : SetPayAmounts(p)

\* The user and the wallet may stop at any time: no fairness.
Spec == Init /\ [][Next]_vars

-----------------------------------------------------------------------------
(* Properties.                                                             *)

LabelsType ==
    [quantity : 0 .. Cardinality(Coins), amount : Nat, pay : Nat, fee : Nat,
     afterFee : Nat, change : Int, bytes : Nat, insufficient : BOOLEAN]

TypeOK ==
    /\ open \in BOOLEAN
    /\ mode \in {"tree", "list"}
    /\ selected \subseteq Coins /\ locked \subseteq Coins /\ spent \subseteq Coins
    /\ payAmounts \in PayAmountSets \cup {<<>>}
    /\ shown \subseteq Coins /\ checked \subseteq shown /\ disabled \subseteq shown
    /\ labels \in LabelsType \cup {None}
    /\ menu \in {None} \cup [item : Coins \cup Addresses, lock : BOOLEAN, unlock : BOOLEAN]

\* While the dialog is open, the checkbox of every unspent output it shows
\* is checked exactly when coin control has the output selected, through
\* clicks on outputs and addresses, select all, locking, unlocking and
\* rebuilding the view, with viewItemChanged re-entered from setCheckState.
CheckedIsSelected ==
    open => \A c \in shown \ spent : (c \in checked) <=> (c \in selected)

\* No output the dialog shows locked (disabled) is selected: checking a
\* locked output through its address or select all is undone by
\* viewItemChanged, and updateView unselects outputs locked meanwhile.
LockedNeverSelected ==
    open => disabled \cap selected = {}

\* When the selected outputs cover the amounts to pay, the labels add up:
\* amount = pay + fee + change, and the change is zero, at least CENT, or a
\* non-dust amount paying at least nMinTxFee in fee.
ChangeSound ==
    labels # None /\ labels.pay > 0 /\ labels.quantity > 0 /\ ~labels.insufficient =>
      /\ labels.amount = labels.pay + labels.fee + labels.change
      /\ \/ labels.change = 0
         \/ labels.change >= CENT
         \/ labels.change >= DustThreshold /\ labels.fee >= nMinTxFee
====
