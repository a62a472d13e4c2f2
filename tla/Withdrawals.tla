----------------------------- MODULE Withdrawals -----------------------------
(***************************************************************************)
(* A partner's wallet and withdrawals: createWithdrawal by the partner     *)
(* against approve, complete and reject by the administrators.             *)
(*                                                                         *)
(* createWithdrawal is a read and three statements without a transaction.  *)
(* An administrator's decision reads the withdrawal and then writes it,    *)
(* its transaction rows and, for a rejection, the wallet in one            *)
(* transaction that does not look at the status again.                     *)
(***************************************************************************)
EXTENDS Integers, FiniteSets, Functions

CONSTANTS
  Requests,      \* the ids of the withdrawals
  NoRequest,     \* no withdrawal: a call that is not about one
  Calls,         \* API calls in flight at the same time
  Amount,        \* the amount asked for in each withdrawal
  SaleAmount,    \* what the partner gets for an order
  MaxSales       \* bound of the model: orders paid

ASSUME WithdrawalsAssumption ==
  /\ IsFiniteSet(Requests) /\ NoRequest \notin Requests
  /\ Amount \in [Requests -> Nat \ {0}]
  /\ SaleAmount \in Nat \ {0}
  /\ MaxSales \in Nat

VARIABLES
  wallet,        \* the PartnerWallet row: [exists, balance, totalEarned, totalWithdrawn]
  withdrawal,    \* Withdrawal.status, or "none" before the row exists
  entry,         \* status of the WITHDRAWAL transaction of a withdrawal, or "none"
  sales,         \* orders paid so far
  call,          \* where each API call is
  overlapped     \* whether two calls have been in flight at one time (history)

vars == <<wallet, withdrawal, entry, sales, call, overlapped>>

WithdrawalStatus  == {"PENDING", "PROCESSING", "COMPLETED", "FAILED", "CANCELLED"}
TransactionStatus == {"PENDING", "COMPLETED", "FAILED", "CANCELLED"}
WalletRow == [exists : BOOLEAN, balance : Int, totalEarned : Nat, totalWithdrawn : Nat]

\* A call's pc names the statement or transaction it executes next.
CallPC == {"idle", "createWallet", "testBalance", "decrementBalance", "insertWithdrawal",
           "insertEntry", "approve", "complete", "reject"}
CallState == [pc : CallPC, id : Requests \cup {NoRequest}]
IdleCall  == [pc |-> "idle", id |-> NoRequest]

At(c, pc)    == call[c].pc = pc
Goto(c, pc)  == call' = [call EXCEPT ![c].pc = pc] /\ UNCHANGED overlapped
Begin(c, pc, w) == /\ call[c] = IdleCall
                   /\ call' = [call EXCEPT ![c] = [pc |-> pc, id |-> w]]
                   /\ overlapped' = (overlapped \/ \E d \in Calls : call[d] # IdleCall)
Return(c)    == call' = [call EXCEPT ![c] = IdleCall] /\ UNCHANGED overlapped

Init ==
  /\ wallet = [exists |-> FALSE, balance |-> 0, totalEarned |-> 0, totalWithdrawn |-> 0]
  /\ withdrawal = [w \in Requests |-> "none"]
  /\ entry = [w \in Requests |-> "none"]
  /\ sales = 0
  /\ call = [c \in Calls |-> IdleCall]
  /\ overlapped = FALSE

-----------------------------------------------------------------------------
(* The rows.                                                               *)
\* A debit that forgets the running total.
DebitBalanceOnly(amount) == wallet' = [wallet EXCEPT !.balance = @ - amount]

DecrementBalance(amount) ==
  wallet' = [wallet EXCEPT !.balance = @ - amount, !.totalWithdrawn = @ + amount]

IncrementOnReject(amount) == wallet' = [wallet EXCEPT !.balance = @ + amount]

InsertWallet == wallet' = [wallet EXCEPT !.exists = TRUE]

\* transaction.updateMany where { withdrawalId }: no row, no write.
UpdateEntries(w, status) ==
  entry' = [entry EXCEPT ![w] = IF @ = "none" THEN @ ELSE status]

\* The transaction rows alone.
DecideEntriesOnly(w, status, entryStatus) ==
  /\ UpdateEntries(w, entryStatus)
  /\ UNCHANGED withdrawal

Decide(w, status, entryStatus) ==
  /\ withdrawal' = [withdrawal EXCEPT ![w] = status]
  /\ UpdateEntries(w, entryStatus)

-----------------------------------------------------------------------------
(* The partner.                                                            *)
GetWallet(c, w) ==
  /\ withdrawal[w] = "none"
  /\ \A d \in Calls : call[d].id # w
  /\ Begin(c, IF wallet.exists THEN "testBalance" ELSE "createWallet", w)
  /\ UNCHANGED <<wallet, withdrawal, entry, sales>>

\* The insert fails when another call has created the wallet since.
CreateWallet(c) ==
  /\ At(c, "createWallet")
  /\ IF wallet.exists THEN Return(c) /\ UNCHANGED wallet
                      ELSE Goto(c, "testBalance") /\ InsertWallet
  /\ UNCHANGED <<withdrawal, entry, sales>>

\* The debit without the test of the balance.
NoBalanceTest(c) ==
  /\ At(c, "testBalance")
  /\ Goto(c, "decrementBalance")
  /\ UNCHANGED <<wallet, withdrawal, entry, sales>>

\* The wallet is read again only after an insert; nothing happens between the
\* read and the test.
TestBalance(c) ==
  /\ At(c, "testBalance")
  /\ IF wallet.balance < Amount[call[c].id] THEN Return(c) ELSE Goto(c, "decrementBalance")
  /\ UNCHANGED <<wallet, withdrawal, entry, sales>>

DebitWallet(c) ==
  /\ At(c, "decrementBalance")
  /\ DecrementBalance(Amount[call[c].id])
  /\ Goto(c, "insertWithdrawal")
  /\ UNCHANGED <<withdrawal, entry, sales>>

InsertWithdrawal(c) ==
  /\ At(c, "insertWithdrawal")
  /\ withdrawal' = [withdrawal EXCEPT ![call[c].id] = "PENDING"]
  /\ Goto(c, "insertEntry")
  /\ UNCHANGED <<wallet, entry, sales>>

InsertEntry(c) ==
  /\ At(c, "insertEntry")
  /\ entry' = [entry EXCEPT ![call[c].id] = "PENDING"]
  /\ Return(c)
  /\ UNCHANGED <<wallet, withdrawal, sales>>

-----------------------------------------------------------------------------
(* The administrators: the status is read when the call starts.            *)
ReadWithdrawal(c, w, statuses, decision) ==
  /\ withdrawal[w] \in statuses
  /\ Begin(c, decision, w)
  /\ UNCHANGED <<wallet, withdrawal, entry, sales>>

ApproveWithdrawal(c, w) == ReadWithdrawal(c, w, {"PENDING"}, "approve")

\* The test of the status forgotten.
CompleteAnyStatus(c, w) == ReadWithdrawal(c, w, WithdrawalStatus, "complete")

CompleteWithdrawal(c, w) == ReadWithdrawal(c, w, {"PENDING", "PROCESSING"}, "complete")

RejectWithdrawal(c, w) == ReadWithdrawal(c, w, {"PENDING", "PROCESSING"}, "reject")

ApproveCommit(c) ==
  /\ At(c, "approve")
  /\ Decide(call[c].id, "PROCESSING", "PENDING")
  /\ Return(c)
  /\ UNCHANGED <<wallet, sales>>

CompleteCommit(c) ==
  /\ At(c, "complete")
  /\ Decide(call[c].id, "COMPLETED", "COMPLETED")
  /\ Return(c)
  /\ UNCHANGED <<wallet, sales>>

RejectCommit(c) ==
  /\ At(c, "reject")
  /\ Decide(call[c].id, "FAILED", "FAILED")
  /\ IncrementOnReject(Amount[call[c].id])
  /\ Return(c)
  /\ UNCHANGED sales

-----------------------------------------------------------------------------
\* confirmMockPayment's upsert of the wallet.
Sale ==
  /\ sales < MaxSales
  /\ sales' = sales + 1
  /\ wallet' = [wallet EXCEPT !.exists = TRUE, !.balance = @ + SaleAmount,
                              !.totalEarned = @ + SaleAmount]
  /\ UNCHANGED <<withdrawal, entry, call, overlapped>>

\* The process dies or the database refuses the next statement.
CallFails(c) ==
  /\ call[c] # IdleCall
  /\ Return(c)
  /\ UNCHANGED <<wallet, withdrawal, entry, sales>>

PartnerStep(c) ==
  \/ \E w \in Requests : GetWallet(c, w)
  \/ CreateWallet(c) \/ TestBalance(c) \/ DebitWallet(c)
  \/ InsertWithdrawal(c) \/ InsertEntry(c)

AdminStep(c) ==
  \/ \E w \in Requests : \/ ApproveWithdrawal(c, w)
                         \/ CompleteWithdrawal(c, w)
                         \/ RejectWithdrawal(c, w)
  \/ ApproveCommit(c) \/ CompleteCommit(c) \/ RejectCommit(c)

Next == Sale \/ \E c \in Calls : PartnerStep(c) \/ AdminStep(c) \/ CallFails(c)

Spec == Init /\ [][Next]_vars

-----------------------------------------------------------------------------
(* Properties.                                                             *)
\* Rows and calls keep their shape.
TypeOK ==
  /\ wallet \in WalletRow
  /\ withdrawal \in [Requests -> WithdrawalStatus \cup {"none"}]
  /\ entry \in [Requests -> TransactionStatus \cup {"none"}]
  /\ sales \in Nat
  /\ call \in [Calls -> CallState]
  /\ overlapped \in BOOLEAN

\* A settled ledger entry agrees with the withdrawal it belongs to, whatever
\* the order in which decisions that read an older status commit: approve,
\* complete and reject write both rows at once, and createWithdrawal's late
\* insert is PENDING.
EntryFollowsWithdrawal ==
  \A w \in Requests : entry[w] \in {"COMPLETED", "FAILED"} => withdrawal[w] = entry[w]

\* Money paid out left the wallet first: the wallet's running total covers
\* every withdrawal that has a row, although the debit and the insert of the
\* row are separate statements and either may be the last before a crash.
WithdrawnCoversRows ==
  SumFunctionOnSet(Amount, {w \in Requests : withdrawal[w] # "none"}) <= wallet.totalWithdrawn

\* The balance is what was earned, less what was debited, plus what rejections
\* gave back: while calls have not overlapped, a crash of createWithdrawal may
\* leave a debit without a withdrawal, never the other way round.
BalanceAccounted ==
  ~overlapped =>
    wallet.balance = wallet.totalEarned - wallet.totalWithdrawn
                     + SumFunctionOnSet(Amount, {w \in Requests : withdrawal[w] = "FAILED"})

\* "Insufficient balance" is the only limit on a withdrawal: createWithdrawal
\* tests the balance before it debits it.  As long as calls have not
\* overlapped, nothing takes the balance below zero, crashes included.
NeverOverdrawn == ~overlapped => wallet.balance >= 0

\* A withdrawal that was completed or rejected is never decided again ("cannot
\* be completed / rejected in current status"), as long as calls have not
\* overlapped.
DecisionIsFinal ==
  [][~overlapped' =>
       \A w \in Requests :
         withdrawal[w] \in {"COMPLETED", "FAILED"} => withdrawal'[w] = withdrawal[w]]_vars

\* The wallet explains its numbers: what was paid out was debited first, and
\* the balance follows earnings, debits and rejections.
WalletAccounted == TypeOK /\ WithdrawnCoversRows /\ BalanceAccounted
=============================================================================
