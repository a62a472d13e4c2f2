-------------------------- MODULE WithdrawalsProofs --------------------------
(***************************************************************************)
(* Proofs about Withdrawals, for any withdrawals, amounts and calls.       *)
(***************************************************************************)
EXTENDS Withdrawals, SumTheorems, FiniteSetTheorems, TLAPS

Creating == {"createWallet", "testBalance", "decrementBalance", "insertWithdrawal"}

\* A call knows the withdrawal it is about.  The call that creates one has it
\* to itself until its row exists, and only that call inserts its entry.
CallInv ==
  /\ \A c \in Calls : call[c].pc # "idle" => call[c].id \in Requests
  /\ \A c \in Calls : call[c].pc \in Creating => withdrawal[call[c].id] = "none"
  /\ \A c, d \in Calls :
       call[c].pc \in Creating \cup {"insertEntry"} /\ call[d].id = call[c].id
         /\ call[d].pc \in Creating \cup {"insertEntry"} => c = d
  /\ \A c \in Calls : call[c].pc \notin Creating \cup {"idle"} => withdrawal[call[c].id] # "none"

\* There is no entry before the call that creates the withdrawal has inserted
\* it, and none without the row of the withdrawal.
EntryInv ==
  /\ \A c \in Calls : call[c].pc \in Creating \cup {"insertEntry"} => entry[call[c].id] = "none"
  /\ \A w \in Requests : entry[w] # "none" => withdrawal[w] # "none"
  /\ EntryFollowsWithdrawal

LedgerInv == TypeOK /\ CallInv /\ EntryInv

-----------------------------------------------------------------------------
(***************************************************************************)
(* Types.                                                                  *)
(***************************************************************************)
LEMMA WalletUpdates ==
  ASSUME NEW row \in WalletRow, NEW n \in Nat
  PROVE  /\ [row EXCEPT !.exists = TRUE] \in WalletRow
         /\ [row EXCEPT !.balance = @ + n] \in WalletRow
         /\ [row EXCEPT !.balance = @ - n, !.totalWithdrawn = @ + n] \in WalletRow
         /\ [row EXCEPT !.exists = TRUE, !.balance = @ + n, !.totalEarned = @ + n] \in WalletRow
  <1>1. /\ row.balance + n \in Int /\ row.balance - n \in Int
        /\ row.totalWithdrawn + n \in Nat /\ row.totalEarned + n \in Nat
    BY DEF WalletRow
  <1> QED BY <1>1 DEF WalletRow

LEMMA CallMoves ==
  ASSUME TypeOK, NEW c \in Calls,
         \/ Return(c)
         \/ \E pc \in CallPC : Goto(c, pc)
         \/ \E pc \in CallPC, w \in Requests : Begin(c, pc, w)
  PROVE  /\ call' \in [Calls -> CallState]
         /\ \A d \in Calls \ {c} : call'[d] = call[d]
         /\ overlapped' \in BOOLEAN
  <1>1. call' \in [Calls -> CallState] /\ \A d \in Calls \ {c} : call'[d] = call[d]
    BY DEF TypeOK, CallState, CallPC, IdleCall, Return, Goto, Begin
  <1>2. overlapped' \in BOOLEAN
    BY DEF TypeOK, Return, Goto, Begin
  <1> QED BY <1>1, <1>2

LEMMA NextTypeOK ==
  ASSUME TypeOK, CallInv, [Next]_vars
  PROVE  TypeOK'
  <1>1. CASE Sale
    <2>1. SaleAmount \in Nat /\ wallet \in WalletRow
      BY WithdrawalsAssumption DEF TypeOK
    <2>2. wallet' \in WalletRow
      BY <1>1, <2>1, WalletUpdates DEF Sale
    <2>3. sales' \in Nat
      BY <1>1 DEF Sale, TypeOK
    <2> QED BY <1>1, <2>2, <2>3 DEF Sale, TypeOK
  <1>2. ASSUME NEW c \in Calls, PartnerStep(c) PROVE TypeOK'
    <2>1. call' \in [Calls -> CallState] /\ overlapped' \in BOOLEAN
      BY <1>2, CallMoves DEF PartnerStep, GetWallet, CreateWallet, TestBalance, DebitWallet,
         InsertWithdrawal, InsertEntry, CallPC
    <2>2. wallet' \in WalletRow
      <3>1. CASE DebitWallet(c)
        BY <3>1, WalletUpdates, WithdrawalsAssumption
        DEF DebitWallet, DecrementBalance, TypeOK, CallInv, At
      <3>2. CASE CreateWallet(c)
        BY <3>2, WalletUpdates DEF CreateWallet, InsertWallet, TypeOK
      <3>3. ~DebitWallet(c) /\ ~CreateWallet(c) => UNCHANGED wallet
        BY <1>2 DEF PartnerStep, GetWallet, TestBalance, InsertWithdrawal, InsertEntry
      <3> QED BY <3>1, <3>2, <3>3 DEF TypeOK
    <2>3. /\ withdrawal' \in [Requests -> WithdrawalStatus \cup {"none"}]
          /\ entry' \in [Requests -> TransactionStatus \cup {"none"}]
          /\ sales' \in Nat
      BY <1>2 DEF PartnerStep, GetWallet, CreateWallet, TestBalance, DebitWallet, InsertWithdrawal,
         InsertEntry, TypeOK, WithdrawalStatus, TransactionStatus
    <2> QED BY <2>1, <2>2, <2>3 DEF TypeOK
  <1>3. ASSUME NEW c \in Calls, AdminStep(c) PROVE TypeOK'
    <2>1. call' \in [Calls -> CallState] /\ overlapped' \in BOOLEAN
      BY <1>3, CallMoves DEF AdminStep, ApproveWithdrawal, CompleteWithdrawal, RejectWithdrawal,
         ReadWithdrawal, ApproveCommit, CompleteCommit, RejectCommit, CallPC
    <2>2. wallet' \in WalletRow
      <3>1. CASE RejectCommit(c)
        BY <3>1, WalletUpdates, WithdrawalsAssumption
        DEF RejectCommit, IncrementOnReject, TypeOK, CallInv, At
      <3>2. ~RejectCommit(c) => UNCHANGED wallet
        BY <1>3 DEF AdminStep, ApproveWithdrawal, CompleteWithdrawal, RejectWithdrawal,
           ReadWithdrawal, ApproveCommit, CompleteCommit
      <3> QED BY <3>1, <3>2 DEF TypeOK
    <2>3. /\ withdrawal' \in [Requests -> WithdrawalStatus \cup {"none"}]
          /\ entry' \in [Requests -> TransactionStatus \cup {"none"}]
          /\ sales' \in Nat
      BY <1>3 DEF AdminStep, ApproveWithdrawal, CompleteWithdrawal, RejectWithdrawal, ReadWithdrawal,
         ApproveCommit, CompleteCommit, RejectCommit, Decide, UpdateEntries, TypeOK,
         WithdrawalStatus, TransactionStatus
    <2> QED BY <2>1, <2>2, <2>3 DEF TypeOK
  <1>4. ASSUME NEW c \in Calls, CallFails(c) PROVE TypeOK'
    BY <1>4, CallMoves DEF CallFails, TypeOK
  <1>5. CASE UNCHANGED vars
    BY <1>5 DEF vars, TypeOK
  <1> QED BY <1>1, <1>2, <1>3, <1>4, <1>5 DEF Next

-----------------------------------------------------------------------------
(***************************************************************************)
(* The ledger.                                                             *)
(***************************************************************************)
\* A call that only moves on, or ends, or begins about a withdrawal it may be
\* about.
LEMMA QuietCall ==
  ASSUME LedgerInv, TypeOK', UNCHANGED <<withdrawal, entry>>, NEW c \in Calls,
         \/ Return(c)
         \/ \E pc \in Creating : Goto(c, pc) /\ call[c].pc \in Creating
         \/ \E w \in Requests, pc \in Creating :
              Begin(c, pc, w) /\ withdrawal[w] = "none" /\ \A d \in Calls : call[d].id # w
         \/ \E w \in Requests, pc \in {"approve", "complete", "reject"} :
              Begin(c, pc, w) /\ withdrawal[w] # "none"
  PROVE  LedgerInv'
  <1>0. TypeOK /\ CallInv /\ EntryInv
    BY DEF LedgerInv
  <1>1. \A d \in Calls \ {c} : call'[d] = call[d]
    BY <1>0 DEF TypeOK, Return, Goto, Begin
  <1>2. \/ call'[c].pc = "idle"
        \/ call'[c].pc \in Creating /\ call[c].pc \in Creating /\ call'[c].id = call[c].id
        \/ /\ call'[c].pc \in Creating /\ call'[c].id \in Requests
           /\ withdrawal[call'[c].id] = "none" /\ \A d \in Calls : call[d].id # call'[c].id
        \/ /\ call'[c].pc \in {"approve", "complete", "reject"} /\ call'[c].id \in Requests
           /\ withdrawal[call'[c].id] # "none"
    BY <1>0 DEF TypeOK, CallState, Return, Goto, Begin, IdleCall
  <1>3. "idle" \notin Creating \cup {"insertEntry"}
        /\ Creating \cap {"insertEntry", "approve", "complete", "reject"} = {}
    BY DEF Creating
  <1> HIDE DEF Creating
  <1>4. CallInv'
    BY <1>0, <1>1, <1>2, <1>3 DEF CallInv
  <1>5. EntryInv'
    BY <1>0, <1>1, <1>2, <1>3 DEF EntryInv, EntryFollowsWithdrawal
  <1> QED BY <1>4, <1>5 DEF LedgerInv

LEMMA PartnerStepInv ==
  ASSUME LedgerInv, TypeOK', NEW c \in Calls, PartnerStep(c)
  PROVE  LedgerInv'
  <1>0. TypeOK /\ CallInv /\ EntryInv
    BY DEF LedgerInv
  <1>1. ASSUME NEW w \in Requests, GetWallet(c, w) PROVE LedgerInv'
    BY <1>1, QuietCall DEF GetWallet, Creating
  <1>2. CASE CreateWallet(c) \/ TestBalance(c)
    BY <1>2, QuietCall DEF CreateWallet, TestBalance, Creating, At
  <1>3. CASE DebitWallet(c)
    BY <1>3, QuietCall DEF DebitWallet, Creating, At
  <1>4. CASE InsertWithdrawal(c)
    <2>1. /\ call[c].id \in Requests /\ call[c].pc = "insertWithdrawal"
          /\ withdrawal' = [withdrawal EXCEPT ![call[c].id] = "PENDING"]
          /\ call'[c].pc = "insertEntry" /\ call'[c].id = call[c].id
          /\ \A d \in Calls \ {c} : call'[d] = call[d]
          /\ entry' = entry /\ entry[call[c].id] = "none"
      BY <1>0, <1>4 DEF InsertWithdrawal, At, Goto, CallInv, EntryInv, TypeOK, CallState, Creating
    <2>2. CallInv'
      BY <1>0, <2>1 DEF CallInv, TypeOK, Creating
    <2>3. EntryInv'
      BY <1>0, <2>1 DEF EntryInv, EntryFollowsWithdrawal, TypeOK, Creating
    <2> QED BY <2>2, <2>3 DEF LedgerInv
  <1>5. CASE InsertEntry(c)
    <2>1. /\ call[c].id \in Requests /\ call[c].pc = "insertEntry"
          /\ entry' = [entry EXCEPT ![call[c].id] = "PENDING"]
          /\ call'[c].pc = "idle"
          /\ \A d \in Calls \ {c} : call'[d] = call[d]
          /\ withdrawal' = withdrawal /\ withdrawal[call[c].id] # "none"
      BY <1>0, <1>5 DEF InsertEntry, At, Return, IdleCall, CallInv, TypeOK, Creating
    <2>2. CallInv'
      BY <1>0, <2>1 DEF CallInv, Creating
    <2>3. \A d \in Calls : call'[d].pc \in Creating \cup {"insertEntry"} => call'[d].id # call[c].id
      BY <1>0, <2>1 DEF CallInv, Creating
    <2>4. EntryInv'
      BY <1>0, <2>1, <2>3 DEF EntryInv, EntryFollowsWithdrawal, TypeOK, CallInv, Creating
    <2> QED BY <2>2, <2>4 DEF LedgerInv
  <1> QED BY <1>1, <1>2, <1>3, <1>4, <1>5 DEF PartnerStep

LEMMA AdminStepInv ==
  ASSUME LedgerInv, TypeOK', NEW c \in Calls, AdminStep(c)
  PROVE  LedgerInv'
  <1>0. TypeOK /\ CallInv /\ EntryInv
    BY DEF LedgerInv
  <1>1. ASSUME NEW w \in Requests,
               ApproveWithdrawal(c, w) \/ CompleteWithdrawal(c, w) \/ RejectWithdrawal(c, w)
        PROVE  LedgerInv'
    BY <1>1, QuietCall DEF ApproveWithdrawal, CompleteWithdrawal, RejectWithdrawal, ReadWithdrawal
  <1>2. ASSUME NEW status \in WithdrawalStatus, NEW e \in TransactionStatus,
               Decide(call[c].id, status, e), e \in {"COMPLETED", "FAILED"} => status = e,
               Return(c), call[c].pc \in {"approve", "complete", "reject"}
        PROVE  LedgerInv'
    <2>1. /\ call[c].id \in Requests /\ withdrawal[call[c].id] # "none"
          /\ call'[c].pc = "idle"
          /\ \A d \in Calls \ {c} : call'[d] = call[d]
      BY <1>0, <1>2 DEF CallInv, TypeOK, Return, IdleCall, Creating
    <2>2. /\ \A w \in Requests : withdrawal'[w] = IF w = call[c].id THEN status ELSE withdrawal[w]
          /\ \A w \in Requests : entry'[w] = IF w = call[c].id /\ entry[w] # "none" THEN e ELSE entry[w]
      BY <1>0, <1>2 DEF Decide, UpdateEntries, TypeOK
    <2>3. status # "none" /\ e # "none"
      BY DEF WithdrawalStatus, TransactionStatus
    <2>4. CallInv'
      BY <1>0, <2>1, <2>2, <2>3 DEF CallInv, Creating
    <2>5. EntryInv'
      BY <1>0, <1>2, <2>1, <2>2, <2>3 DEF EntryInv, EntryFollowsWithdrawal, CallInv, Creating
    <2> QED BY <2>4, <2>5 DEF LedgerInv
  <1>3. CASE ApproveCommit(c) \/ CompleteCommit(c) \/ RejectCommit(c)
    BY <1>2, <1>3 DEF ApproveCommit, CompleteCommit, RejectCommit, At, WithdrawalStatus, TransactionStatus
  <1> QED BY <1>1, <1>3 DEF AdminStep

LEMMA InitLedgerInv == Init => LedgerInv
  <1>1. Init => TypeOK
    <2>1. Init => overlapped \in BOOLEAN
      BY Zenon DEF Init
    <2> QED BY <2>1 DEF Init, TypeOK, WalletRow, CallState, CallPC, IdleCall
  <1>2. Init => CallInv /\ EntryInv
    BY DEF Init, CallInv, EntryInv, EntryFollowsWithdrawal, IdleCall, Creating
  <1> QED BY <1>1, <1>2 DEF LedgerInv

LEMMA NextLedgerInv == LedgerInv /\ [Next]_vars => LedgerInv'
  <1> SUFFICES ASSUME LedgerInv, [Next]_vars PROVE LedgerInv' OBVIOUS
  <1>0. TypeOK'
    BY NextTypeOK DEF LedgerInv
  <1>1. CASE Sale \/ UNCHANGED vars
    BY <1>0, <1>1 DEF Sale, vars, LedgerInv, CallInv, EntryInv, EntryFollowsWithdrawal
  <1>2. ASSUME NEW c \in Calls, PartnerStep(c) \/ AdminStep(c) PROVE LedgerInv'
    BY <1>0, <1>2, PartnerStepInv, AdminStepInv
  <1>3. ASSUME NEW c \in Calls, CallFails(c) PROVE LedgerInv'
    BY <1>0, <1>3, QuietCall DEF CallFails
  <1> QED BY <1>1, <1>2, <1>3 DEF Next

\* The rows of the wallet, the withdrawals and the ledger, and the calls about
\* them, always agree as LedgerInv says.
THEOREM LedgerInvariant == Spec => []LedgerInv
  BY InitLedgerInv, NextLedgerInv, PTL DEF Spec

\* A settled entry agrees with its withdrawal, in any interleaving of creation
\* and of decisions that read an older status, and through any crash.
THEOREM EntriesFollow == Spec => []EntryFollowsWithdrawal
  <1>1. LedgerInv => EntryFollowsWithdrawal
    BY DEF LedgerInv, EntryInv
  <1> QED BY <1>1, LedgerInvariant, PTL

-----------------------------------------------------------------------------
(***************************************************************************)
(* Calls that have not overlapped.                                         *)
(***************************************************************************)
\* One call is in flight at most, and what it has read still holds when it
\* writes.
AloneInv ==
  /\ \A c, d \in Calls : c # d => call[c] = IdleCall \/ call[d] = IdleCall
  /\ wallet.balance >= 0
  /\ \A c \in Calls : At(c, "decrementBalance") => wallet.balance >= Amount[call[c].id]
  /\ \A c \in Calls : call[c].pc \in {"approve", "complete", "reject"} =>
       withdrawal[call[c].id] \in {"PENDING", "PROCESSING"}

SerialInv == LedgerInv /\ (~overlapped => AloneInv)

LEMMA InitSerialInv == Init => SerialInv
  BY InitLedgerInv DEF Init, SerialInv, AloneInv, At, IdleCall

\* A call that has not overlapped with another is the only one in flight.
LEMMA Alone ==
  ASSUME TypeOK, NEW c \in Calls, PartnerStep(c) \/ AdminStep(c) \/ CallFails(c),
         ~overlapped => \A d, e \in Calls : d # e => call[d] = IdleCall \/ call[e] = IdleCall,
         ~overlapped'
  PROVE  /\ ~overlapped
         /\ \A d \in Calls \ {c} : call[d] = IdleCall /\ call'[d] = IdleCall
  <1>1. ASSUME NEW pc, NEW w, Begin(c, pc, w)
        PROVE  ~overlapped /\ \A d \in Calls \ {c} : call[d] = IdleCall /\ call'[d] = IdleCall
    BY <1>1 DEF Begin, TypeOK
  <1>2. ASSUME call[c] # IdleCall, Return(c) \/ \E pc \in CallPC : Goto(c, pc)
        PROVE  ~overlapped /\ \A d \in Calls \ {c} : call[d] = IdleCall /\ call'[d] = IdleCall
    BY <1>2 DEF Return, Goto, TypeOK
  <1>3. CASE \E w \in Requests : GetWallet(c, w)
    BY <1>1, <1>3 DEF GetWallet
  <1>4. CASE \/ CreateWallet(c) \/ TestBalance(c) \/ DebitWallet(c)
             \/ InsertWithdrawal(c) \/ InsertEntry(c)
    BY <1>2, <1>4 DEF CreateWallet, TestBalance, DebitWallet, InsertWithdrawal, InsertEntry,
       At, IdleCall, CallPC
  <1>5. CASE AdminStep(c)
    <2>1. CASE \E w \in Requests : \/ ApproveWithdrawal(c, w)
                                   \/ CompleteWithdrawal(c, w)
                                   \/ RejectWithdrawal(c, w)
      BY <1>1, <2>1 DEF ApproveWithdrawal, CompleteWithdrawal, RejectWithdrawal, ReadWithdrawal
    <2>2. CASE ApproveCommit(c) \/ CompleteCommit(c) \/ RejectCommit(c)
      BY <1>2, <2>2 DEF ApproveCommit, CompleteCommit, RejectCommit, At, IdleCall
    <2> QED BY <1>5, <2>1, <2>2 DEF AdminStep
  <1>6. CASE CallFails(c)
    BY <1>2, <1>6 DEF CallFails
  <1> QED BY <1>3, <1>4, <1>5, <1>6 DEF PartnerStep

LEMMA NextSerialInv == SerialInv /\ [Next]_vars => SerialInv'
  <1> SUFFICES ASSUME SerialInv, [Next]_vars PROVE SerialInv' OBVIOUS
  <1> SUFFICES ASSUME ~overlapped' PROVE AloneInv'
    BY NextLedgerInv DEF SerialInv
  <1>0. /\ TypeOK /\ CallInv /\ LedgerInv' /\ wallet.balance \in Int /\ wallet \in WalletRow
        /\ \A w \in Requests : Amount[w] \in Nat
    BY NextLedgerInv, WithdrawalsAssumption DEF SerialInv, LedgerInv, TypeOK, WalletRow
  <1>1. CASE Sale
    <2>1. /\ wallet'.balance = wallet.balance + SaleAmount /\ SaleAmount \in Nat
          /\ UNCHANGED <<withdrawal, call>>
          /\ AloneInv
      BY <1>0, <1>1, WithdrawalsAssumption DEF Sale, WalletRow, SerialInv
    <2>2. \A c \in Calls : At(c, "decrementBalance") => Amount[call[c].id] \in Nat
      BY <1>0 DEF At, CallInv
    <2> QED BY <1>0, <2>1, <2>2 DEF AloneInv, At
  <1>2. ASSUME NEW c \in Calls, PartnerStep(c) \/ AdminStep(c) \/ CallFails(c) PROVE AloneInv'
    <2>0. /\ AloneInv /\ wallet.balance >= 0
          /\ \A d \in Calls \ {c} : call[d] = IdleCall /\ call'[d] = IdleCall
      BY <1>0, <1>2, Alone DEF SerialInv, AloneInv
    <2>1. call[c].pc # "idle" => call[c].id \in Requests /\ Amount[call[c].id] \in Nat
      BY <1>0 DEF CallInv
    <2>2. wallet'.balance \in Int /\ wallet'.balance >= 0
      <3>1. CASE DebitWallet(c)
        BY <1>0, <2>0, <2>1, <3>1 DEF DebitWallet, DecrementBalance, AloneInv, At, WalletRow
      <3>2. CASE RejectCommit(c)
        BY <1>0, <2>0, <2>1, <3>2 DEF RejectCommit, IncrementOnReject, At, WalletRow
      <3>3. ~DebitWallet(c) /\ ~RejectCommit(c) => wallet'.balance = wallet.balance
        BY <1>0, <1>2 DEF PartnerStep, AdminStep, CallFails, GetWallet, CreateWallet, InsertWallet,
           TestBalance, InsertWithdrawal, InsertEntry, ApproveWithdrawal, CompleteWithdrawal,
           RejectWithdrawal, ReadWithdrawal, ApproveCommit, CompleteCommit, WalletRow
      <3> QED BY <1>0, <2>0, <3>1, <3>2, <3>3
    <2>3. call'[c].pc = "decrementBalance" => wallet'.balance >= Amount[call'[c].id]
      <3> SUFFICES ASSUME call'[c].pc = "decrementBalance"
                   PROVE  wallet'.balance >= Amount[call'[c].id]
        OBVIOUS
      <3>1. TestBalance(c)
        <4>1. CASE PartnerStep(c)
          BY <1>0, <4>1 DEF PartnerStep, GetWallet, CreateWallet, DebitWallet, InsertWithdrawal,
             InsertEntry, Goto, Begin, Return, IdleCall, TypeOK, CallState
        <4>2. CASE AdminStep(c)
          BY <1>0, <4>2 DEF AdminStep, ApproveWithdrawal, CompleteWithdrawal, RejectWithdrawal,
             ReadWithdrawal, ApproveCommit, CompleteCommit, RejectCommit, Begin, Return, IdleCall, TypeOK
        <4>3. CASE CallFails(c)
          BY <1>0, <4>3 DEF CallFails, Return, IdleCall, TypeOK
        <4> QED BY <1>2, <4>1, <4>2, <4>3
      <3>2. wallet' = wallet /\ call'[c].id = call[c].id /\ ~(wallet.balance < Amount[call[c].id])
        BY <1>0, <3>1 DEF TestBalance, Goto, Return, IdleCall, TypeOK, CallState
      <3> QED BY <1>0, <2>1, <3>1, <3>2 DEF TestBalance, At
    <2>4. call'[c].pc \in {"approve", "complete", "reject"} =>
            withdrawal'[call'[c].id] \in {"PENDING", "PROCESSING"}
      <3>1. CASE PartnerStep(c)
        BY <1>0, <3>1 DEF PartnerStep, GetWallet, CreateWallet, TestBalance, DebitWallet,
           InsertWithdrawal, InsertEntry, Goto, Begin, Return, IdleCall, TypeOK, CallState
      <3>2. CASE AdminStep(c)
        BY <1>0, <3>2 DEF AdminStep, ApproveWithdrawal, CompleteWithdrawal, RejectWithdrawal,
           ReadWithdrawal, ApproveCommit, CompleteCommit, RejectCommit, Begin, Return, IdleCall, TypeOK
      <3>3. CASE CallFails(c)
        BY <1>0, <3>3 DEF CallFails, Return, IdleCall, TypeOK
      <3> QED BY <1>2, <3>1, <3>2, <3>3
    <2> QED BY <1>0, <2>0, <2>2, <2>3, <2>4 DEF AloneInv, At, IdleCall
  <1>3. CASE UNCHANGED vars
    BY <1>0, <1>3 DEF vars, SerialInv, AloneInv, At
  <1> QED BY <1>1, <1>2, <1>3 DEF Next

\* Calls that have not overlapped never overdraw the wallet, whatever crashes:
\* an overdraft is due to interleaving alone.
THEOREM SerialNeverOverdraws == Spec => []NeverOverdrawn
  <1>1. SerialInv => NeverOverdrawn
    BY DEF SerialInv, AloneInv, NeverOverdrawn
  <1> QED BY <1>1, InitSerialInv, NextSerialInv, PTL DEF Spec

\* Calls that have not overlapped never decide a withdrawal twice.
THEOREM SerialDecidesOnce == Spec => DecisionIsFinal
  <1>1. SerialInv /\ [Next]_vars =>
          [~overlapped' =>
             \A w \in Requests :
               withdrawal[w] \in {"COMPLETED", "FAILED"} => withdrawal'[w] = withdrawal[w]]_vars
    <2> SUFFICES ASSUME SerialInv, [Next]_vars, ~overlapped', NEW w \in Requests,
                        withdrawal[w] \in {"COMPLETED", "FAILED"}
                 PROVE  withdrawal'[w] = withdrawal[w]
      OBVIOUS
    <2>0. TypeOK /\ CallInv
      BY DEF SerialInv, LedgerInv
    <2>1. ASSUME NEW c \in Calls, InsertWithdrawal(c) PROVE withdrawal'[w] = withdrawal[w]
      <3>1. withdrawal[call[c].id] = "none"
        BY <2>0, <2>1 DEF InsertWithdrawal, At, CallInv, Creating
      <3> QED BY <2>0, <2>1, <3>1 DEF InsertWithdrawal, TypeOK
    <2>2. ASSUME NEW c \in Calls, ApproveCommit(c) \/ CompleteCommit(c) \/ RejectCommit(c)
          PROVE  withdrawal'[w] = withdrawal[w]
      <3>1. withdrawal[call[c].id] \in {"PENDING", "PROCESSING"}
        BY <2>2 DEF ApproveCommit, CompleteCommit, RejectCommit, Return, At, SerialInv, AloneInv
      <3> QED BY <2>0, <2>2, <3>1 DEF ApproveCommit, CompleteCommit, RejectCommit, Decide, TypeOK
    <2>3. ASSUME NEW c \in Calls,
                 PartnerStep(c) \/ AdminStep(c) \/ CallFails(c)
          PROVE  withdrawal'[w] = withdrawal[w]
      BY <2>1, <2>2, <2>3 DEF PartnerStep, AdminStep, CallFails, GetWallet, CreateWallet, TestBalance,
         DebitWallet, InsertEntry, ApproveWithdrawal, CompleteWithdrawal, RejectWithdrawal,
         ReadWithdrawal
    <2> QED BY <2>3 DEF Next, Sale, vars
  <1> QED BY <1>1, InitSerialInv, NextSerialInv, PTL DEF Spec, DecisionIsFinal

-----------------------------------------------------------------------------
(***************************************************************************)
(* The wallet explains its numbers.                                        *)
(***************************************************************************)
\* The withdrawals that were debited: those with a row, and those whose row is
\* about to be inserted (a crash leaves such a debit without a row).
Debited ==
  {w \in Requests :
     withdrawal[w] # "none" \/ \E c \in Calls : At(c, "insertWithdrawal") /\ call[c].id = w}
Rejected == {w \in Requests : withdrawal[w] = "FAILED"}

AccountInv ==
  /\ SerialInv
  /\ SumFunctionOnSet(Amount, Debited) <= wallet.totalWithdrawn
  /\ BalanceAccounted

LEMMA Amounts ==
  ASSUME NEW S \in SUBSET Requests
  PROVE  /\ IsFiniteSet(S) /\ \A w \in S : Amount[w] \in Nat /\ Amount[w] \in Int
         /\ SumFunctionOnSet(Amount, S) \in Int
  <1>1. IsFiniteSet(S) /\ \A w \in S : Amount[w] \in Nat /\ Amount[w] \in Int
    BY WithdrawalsAssumption, FS_Subset
  <1> QED BY <1>1, SumInt

LEMMA InitAccountInv == Init => AccountInv
  <1> SUFFICES ASSUME Init PROVE AccountInv OBVIOUS
  <1>1. Debited = {} /\ {w \in Requests : withdrawal[w] = "FAILED"} = {}
    BY DEF Init, Debited, At, IdleCall
  <1>2. wallet.balance = 0 /\ wallet.totalEarned = 0 /\ wallet.totalWithdrawn = 0
    BY DEF Init
  <1> QED BY <1>1, <1>2, InitSerialInv, SumEmpty DEF AccountInv, BalanceAccounted

\* What a step debits: the amount of one withdrawal, or nothing.
LEMMA StepDebits ==
  ASSUME SerialInv, [Next]_vars
  PROVE  \/ /\ wallet'.totalWithdrawn = wallet.totalWithdrawn
            /\ Debited' \subseteq Debited
         \/ \E w \in Requests :
              /\ wallet'.totalWithdrawn = wallet.totalWithdrawn + Amount[w]
              /\ Debited' \subseteq Debited \cup {w}
  <1>0. TypeOK /\ CallInv /\ wallet \in WalletRow
    BY DEF SerialInv, LedgerInv, TypeOK
  <1>1. ASSUME NEW c \in Calls, DebitWallet(c)
        PROVE  \E w \in Requests :
                 /\ wallet'.totalWithdrawn = wallet.totalWithdrawn + Amount[w]
                 /\ Debited' \subseteq Debited \cup {w}
    <2>1. call[c].id \in Requests
      BY <1>0, <1>1 DEF DebitWallet, At, CallInv
    <2>2. wallet'.totalWithdrawn = wallet.totalWithdrawn + Amount[call[c].id]
      BY <1>0, <1>1 DEF DebitWallet, DecrementBalance, WalletRow
    <2>3. Debited' \subseteq Debited \cup {call[c].id}
      BY <1>0, <1>1 DEF DebitWallet, Goto, At, Debited, TypeOK, CallState
    <2> QED BY <2>1, <2>2, <2>3
  <1>2. ASSUME NEW c \in Calls, PartnerStep(c) \/ AdminStep(c) \/ CallFails(c), ~DebitWallet(c)
        PROVE  wallet'.totalWithdrawn = wallet.totalWithdrawn /\ Debited' \subseteq Debited
    <2>1. wallet'.totalWithdrawn = wallet.totalWithdrawn
      BY <1>0, <1>2 DEF PartnerStep, AdminStep, CallFails, GetWallet, CreateWallet, InsertWallet,
         TestBalance, InsertWithdrawal, InsertEntry, ApproveWithdrawal, CompleteWithdrawal,
         RejectWithdrawal, ReadWithdrawal, ApproveCommit, CompleteCommit, RejectCommit,
         IncrementOnReject, WalletRow
    <2>2. \A d \in Calls : call'[d].pc = "insertWithdrawal" => call'[d] = call[d]
      <3>1. CASE PartnerStep(c)
        BY <1>0, <1>2, <3>1 DEF PartnerStep, GetWallet, CreateWallet, TestBalance,
           InsertWithdrawal, InsertEntry, Goto, Begin, Return, IdleCall, TypeOK, CallState
      <3>2. CASE AdminStep(c)
        BY <1>0, <3>2 DEF AdminStep, ApproveWithdrawal, CompleteWithdrawal, RejectWithdrawal,
           ReadWithdrawal, ApproveCommit, CompleteCommit, RejectCommit, Begin, Return, IdleCall, TypeOK
      <3>3. CASE CallFails(c)
        BY <1>0, <3>3 DEF CallFails, Return, IdleCall, TypeOK
      <3> QED BY <1>2, <3>1, <3>2, <3>3
    <2>3. \A w \in Requests : withdrawal'[w] # "none" => w \in Debited
      <3>1. CASE InsertWithdrawal(c)
        BY <1>0, <3>1 DEF InsertWithdrawal, Debited, TypeOK
      <3>2. CASE ApproveCommit(c) \/ CompleteCommit(c) \/ RejectCommit(c)
        <4>1. withdrawal[call[c].id] # "none"
          BY <1>0, <3>2 DEF ApproveCommit, CompleteCommit, RejectCommit, At, CallInv, Creating
        <4> QED BY <1>0, <3>2, <4>1 DEF ApproveCommit, CompleteCommit, RejectCommit, Decide, Debited, TypeOK
      <3>3. CASE withdrawal' = withdrawal
        BY <3>3 DEF Debited
      <3>4. withdrawal' = withdrawal \/ InsertWithdrawal(c) \/ ApproveCommit(c) \/ CompleteCommit(c) \/ RejectCommit(c)
        BY <1>2 DEF PartnerStep, AdminStep, CallFails, GetWallet, CreateWallet,
           TestBalance, InsertEntry, ApproveWithdrawal, CompleteWithdrawal,
           RejectWithdrawal, ReadWithdrawal
      <3> QED BY <3>1, <3>2, <3>3, <3>4
    <2>4. Debited' \subseteq Debited
      BY <2>2, <2>3 DEF Debited, At
    <2> QED BY <2>1, <2>4
  <1>3. CASE Sale \/ UNCHANGED vars
    BY <1>0, <1>3 DEF Sale, vars, WalletRow, Debited, At
  <1> QED BY <1>1, <1>2, <1>3 DEF Next

\* While calls do not overlap, the balance moves with the totals and with the
\* rejections.
LEMMA StepBalances ==
  ASSUME SerialInv, BalanceAccounted, [Next]_vars
  PROVE  BalanceAccounted'
  <1> DEFINE Sum(S) == SumFunctionOnSet(Amount, S)
  <1> SUFFICES ASSUME ~overlapped'
               PROVE  wallet'.balance = wallet'.totalEarned - wallet'.totalWithdrawn + Sum(Rejected')
    BY DEF BalanceAccounted, Rejected
  <1>0. /\ TypeOK /\ CallInv /\ wallet \in WalletRow
        /\ wallet.balance \in Int /\ wallet.totalEarned \in Int /\ wallet.totalWithdrawn \in Int
    BY DEF SerialInv, LedgerInv, TypeOK, WalletRow
  <1>1. Sum(Rejected) \in Int /\ IsFiniteSet(Rejected) /\ \A w \in Rejected : Amount[w] \in Int
    <2>1. Rejected \in SUBSET Requests
      BY DEF Rejected
    <2> QED BY <2>1, Amounts
  <1>2. ~overlapped => wallet.balance = wallet.totalEarned - wallet.totalWithdrawn + Sum(Rejected)
    BY DEF BalanceAccounted, Rejected
  <1> HIDE DEF Sum
  <1>3. CASE Sale
    <2>1. ~overlapped /\ Rejected' = Rejected /\ SaleAmount \in Int
      BY <1>3, WithdrawalsAssumption DEF Sale, Rejected
    <2>2. /\ wallet'.balance = wallet.balance + SaleAmount
          /\ wallet'.totalEarned = wallet.totalEarned + SaleAmount
          /\ wallet'.totalWithdrawn = wallet.totalWithdrawn
      BY <1>0, <1>3 DEF Sale, WalletRow
    <2> QED BY <1>0, <1>1, <1>2, <2>1, <2>2
  <1>4. ASSUME NEW c \in Calls, PartnerStep(c) \/ AdminStep(c) \/ CallFails(c)
        PROVE  wallet'.balance = wallet'.totalEarned - wallet'.totalWithdrawn + Sum(Rejected')
    <2>0. ~overlapped /\ AloneInv
      BY <1>0, <1>4, Alone DEF SerialInv, AloneInv
    <2>1. call[c].pc # "idle" => call[c].id \in Requests /\ Amount[call[c].id] \in Int
      BY <1>0, WithdrawalsAssumption DEF CallInv
    <2>2. CASE DebitWallet(c)
      <3>1. /\ wallet'.balance = wallet.balance - Amount[call[c].id]
            /\ wallet'.totalEarned = wallet.totalEarned
            /\ wallet'.totalWithdrawn = wallet.totalWithdrawn + Amount[call[c].id]
        BY <1>0, <2>2 DEF DebitWallet, DecrementBalance, WalletRow
      <3>2. Amount[call[c].id] \in Int /\ Rejected' = Rejected
        BY <2>1, <2>2 DEF DebitWallet, At, Rejected
      <3> QED BY <1>0, <1>1, <1>2, <2>0, <3>1, <3>2
    <2>3. CASE RejectCommit(c)
      <3> DEFINE w == call[c].id
      <3>1. w \in Requests /\ Amount[w] \in Int /\ w \notin Rejected
        BY <2>0, <2>1, <2>3 DEF RejectCommit, At, AloneInv, Rejected
      <3>2. Rejected' = Rejected \cup {w}
        BY <1>0, <2>3, <3>1 DEF RejectCommit, Decide, Rejected, TypeOK
      <3>3. /\ wallet'.balance = wallet.balance + Amount[w]
            /\ wallet'.totalEarned = wallet.totalEarned
            /\ wallet'.totalWithdrawn = wallet.totalWithdrawn
        BY <1>0, <2>3 DEF RejectCommit, IncrementOnReject, WalletRow
      <3> HIDE DEF w
      <3>4. Sum(Rejected \cup {w}) = Amount[w] + Sum(Rejected)
        BY <1>1, <3>1, SumAdd DEF Sum
      <3> QED BY <1>0, <1>1, <1>2, <2>0, <3>1, <3>2, <3>3, <3>4
    <2>4. CASE ~DebitWallet(c) /\ ~RejectCommit(c)
      <3>1. /\ wallet'.balance = wallet.balance
            /\ wallet'.totalEarned = wallet.totalEarned
            /\ wallet'.totalWithdrawn = wallet.totalWithdrawn
        BY <1>0, <1>4, <2>4 DEF PartnerStep, AdminStep, CallFails, GetWallet, CreateWallet,
           InsertWallet, TestBalance, InsertWithdrawal, InsertEntry, ApproveWithdrawal,
           CompleteWithdrawal, RejectWithdrawal, ReadWithdrawal, ApproveCommit, CompleteCommit,
           WalletRow
      <3>2. Rejected' = Rejected
        <4>1. CASE InsertWithdrawal(c)
          <5>1. withdrawal[call[c].id] = "none"
            BY <1>0, <4>1 DEF InsertWithdrawal, At, CallInv, Creating
          <5> QED BY <1>0, <4>1, <5>1 DEF InsertWithdrawal, Rejected, TypeOK
        <4>2. CASE ApproveCommit(c) \/ CompleteCommit(c)
          <5>1. withdrawal[call[c].id] \in {"PENDING", "PROCESSING"}
            BY <2>0, <4>2 DEF ApproveCommit, CompleteCommit, At, AloneInv
          <5> QED BY <1>0, <4>2, <5>1 DEF ApproveCommit, CompleteCommit, Decide, Rejected, TypeOK
        <4>3. withdrawal' = withdrawal \/ InsertWithdrawal(c) \/ ApproveCommit(c) \/ CompleteCommit(c)
          BY <1>4, <2>4 DEF PartnerStep, AdminStep, CallFails, GetWallet, CreateWallet,
             TestBalance, InsertEntry, ApproveWithdrawal, CompleteWithdrawal,
             RejectWithdrawal, ReadWithdrawal
        <4> QED BY <4>1, <4>2, <4>3 DEF Rejected
      <3> QED BY <1>2, <2>0, <3>1, <3>2
    <2> QED BY <2>2, <2>3, <2>4
  <1>5. CASE UNCHANGED vars
    BY <1>2, <1>5 DEF vars, Rejected
  <1> QED BY <1>3, <1>4, <1>5 DEF Next

LEMMA NextAccountInv == AccountInv /\ [Next]_vars => AccountInv'
  <1> SUFFICES ASSUME AccountInv, [Next]_vars PROVE AccountInv' OBVIOUS
  <1>0. SerialInv /\ SerialInv' /\ BalanceAccounted'
    BY NextSerialInv, StepBalances DEF AccountInv
  <1>1. /\ wallet.totalWithdrawn \in Int /\ wallet'.totalWithdrawn \in Int
    BY <1>0 DEF SerialInv, LedgerInv, TypeOK, WalletRow
  <1>2. Debited \in SUBSET Requests /\ Debited' \in SUBSET Requests
    BY DEF Debited
  <1>3. /\ SumFunctionOnSet(Amount, Debited) \in Int /\ SumFunctionOnSet(Amount, Debited') \in Int
        /\ IsFiniteSet(Debited) /\ \A w \in Debited : Amount[w] \in Nat
    BY <1>2, Amounts
  <1>4. SumFunctionOnSet(Amount, Debited) <= wallet.totalWithdrawn
    BY DEF AccountInv
  <1>5. SumFunctionOnSet(Amount, Debited') <= wallet'.totalWithdrawn
    <2>1. CASE wallet'.totalWithdrawn = wallet.totalWithdrawn /\ Debited' \subseteq Debited
      <3>1. SumFunctionOnSet(Amount, Debited') <= SumFunctionOnSet(Amount, Debited)
        BY <1>3, <2>1, SumSubset
      <3> QED BY <1>1, <1>3, <1>4, <2>1, <3>1
    <2>2. ASSUME NEW w \in Requests, Debited' \subseteq Debited \cup {w},
                 wallet'.totalWithdrawn = wallet.totalWithdrawn + Amount[w]
          PROVE  SumFunctionOnSet(Amount, Debited') <= wallet'.totalWithdrawn
      <3> DEFINE S == Debited \cup {w}
      <3>1. S \in SUBSET Requests /\ Amount[w] \in Nat /\ Amount[w] \in Int
        BY <1>2, WithdrawalsAssumption
      <3>2. /\ IsFiniteSet(S) /\ \A x \in S : Amount[x] \in Nat
            /\ SumFunctionOnSet(Amount, S) \in Int
        BY <3>1, Amounts
      <3>3. SumFunctionOnSet(Amount, S) <= SumFunctionOnSet(Amount, Debited) + Amount[w]
        <4>1. CASE w \in Debited
          <5>1. S = Debited
            BY <4>1
          <5> HIDE DEF S
          <5> QED BY <1>3, <3>1, <5>1
        <4>2. CASE w \notin Debited
          <5>1. SumFunctionOnSet(Amount, S) = Amount[w] + SumFunctionOnSet(Amount, Debited)
            <6>1. \A x \in Debited : Amount[x] \in Int
              BY <1>3
            <6> QED BY <1>3, <3>1, <4>2, <6>1, SumAdd
          <5> QED BY <1>3, <3>1, <5>1
        <4> QED BY <4>1, <4>2
      <3>4. SumFunctionOnSet(Amount, Debited') <= SumFunctionOnSet(Amount, S)
        BY <2>2, <3>2, SumSubset
      <3> HIDE DEF S
      <3> QED BY <1>1, <1>3, <1>4, <2>2, <3>1, <3>2, <3>3, <3>4
    <2> QED BY <1>0, <2>1, <2>2, StepDebits
  <1> QED BY <1>0, <1>5 DEF AccountInv

\* What was paid out was debited before, through any interleaving and crash, and
\* without overlaps the balance is what was earned, less what was debited, plus
\* what was rejected, for any number of withdrawals of any amounts.
THEOREM WalletExplained == Spec => []WalletAccounted
  <1>1. AccountInv => WalletAccounted
    <2> SUFFICES ASSUME AccountInv PROVE WalletAccounted OBVIOUS
    <2>1. TypeOK /\ BalanceAccounted
      BY DEF AccountInv, SerialInv, LedgerInv
    <2> DEFINE Rows == {w \in Requests : withdrawal[w] # "none"}
    <2>2. Debited \in SUBSET Requests /\ Rows \in SUBSET Requests /\ Rows \subseteq Debited
      BY DEF Debited
    <2>3. SumFunctionOnSet(Amount, Rows) <= SumFunctionOnSet(Amount, Debited)
      <3> HIDE DEF Rows
      <3> QED BY <2>2, Amounts, SumSubset
    <2>4. SumFunctionOnSet(Amount, Rows) \in Int /\ SumFunctionOnSet(Amount, Debited) \in Int
      <3> HIDE DEF Rows
      <3> QED BY <2>2, Amounts
    <2>5. SumFunctionOnSet(Amount, Debited) <= wallet.totalWithdrawn /\ wallet.totalWithdrawn \in Int
      BY <2>1 DEF AccountInv, TypeOK, WalletRow
    <2>6. WithdrawnCoversRows
      <3>1. SumFunctionOnSet(Amount, Rows) <= wallet.totalWithdrawn
        <4> HIDE DEF Rows
        <4> QED BY <2>3, <2>4, <2>5
      <3> QED BY <3>1 DEF WithdrawnCoversRows
    <2> QED BY <2>1, <2>6 DEF WalletAccounted
  <1> QED BY <1>1, InitAccountInv, NextAccountInv, PTL DEF Spec
=============================================================================
