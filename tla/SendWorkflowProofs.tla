------------------------- MODULE SendWorkflowProofs -------------------------
EXTENDS SendWorkflow, TLAPS

USE OwnerAssumption, EnrolsAssumption, TTLAssumption, MaxTimeAssumption, NoneAssumption

LEMMA TypeInit == Init => TypeOK
  BY DEF Init, TypeOK, NotPending, NoPlan, NoCall, SignPCs, Claimed

LEMMA SignTypes ==
  ASSUME TypeOK, NEW t \in Tasks, Sign(t), pc[t] \in SignPCs, UNCHANGED <<session, pending, now>>
  PROVE  TypeOK'
<1>1. call[t].plan \in PlanIds /\ snap[t] \in Wallets
  BY DEF TypeOK, SignPCs
<1>2. signer' \in [PlanIds -> Wallets \cup {None}]
  BY <1>1 DEF TypeOK, Sign
<1>3. signs[call[t].plan] \in Nat
  BY <1>1 DEF TypeOK
<1>4. signs' \in [PlanIds -> Nat]
  BY <1>1, <1>3 DEF TypeOK, Sign
<1> QED
  BY <1>2, <1>4 DEF TypeOK, Sign, Return, session, SignPCs, Claimed

LEMMA ReturnTypes ==
  ASSUME TypeOK, NEW t \in Tasks, Return(t), UNCHANGED <<session, pending, now, history>>
  PROVE  TypeOK'
<1>1. UNCHANGED <<active, totp, utxos, pending, now, issued, signer, signs>>
  BY DEF session, history
<1>2. /\ pc'[t] = "idle"
      /\ \A u \in Tasks \ {t} : /\ pc'[u] = pc[u] /\ snap'[u] = snap[u]
                               /\ call'[u] = call[u] /\ held'[u] = held[u]
  BY DEF TypeOK, Return
<1>3. \A u \in Tasks :
        /\ pc'[u] # "idle" => snap'[u] \in Wallets
        /\ pc'[u] \in SignPCs => call'[u] # NoCall
        /\ pc'[u] \in Claimed \cup {"prep_build", "prep_store"} => held'[u] # NoPlan
  BY <1>2, SMTT(30) DEF TypeOK, SignPCs, Claimed
<1>4. /\ pc' \in [Tasks -> {"idle"} \cup PreparePCs \cup SignPCs \cup OtherPCs]
      /\ snap' \in [Tasks -> Wallets \cup {None}]
      /\ call' \in [Tasks -> [kind : Kinds, plan : PlanIds, code : Secrets, began : Nat] \cup {NoCall}]
      /\ held' \in [Tasks -> Plan \cup {NoPlan}]
  BY DEF TypeOK, Return
<1> QED
  BY <1>1, <1>3, <1>4 DEF TypeOK

LEMMA TypeNext == TypeOK /\ [Next]_vars => TypeOK'
<1> SUFFICES ASSUME TypeOK, [Next]_vars PROVE TypeOK'
  OBVIOUS
<1> USE DEF TypeOK, session, local, history, PreparePCs, SignPCs, OtherPCs, Claimed
<1>1. ASSUME NEW t \in Tasks, NEW w \in Wallets, OpenStart(t, w) PROVE TypeOK'
  BY <1>1 DEF OpenStart, Goto
<1>2. ASSUME NEW t \in Tasks, OpenInstall(t) PROVE TypeOK'
  BY <1>2 DEF OpenInstall, Return
<1>3. ASSUME NEW t \in Tasks, EnableStart(t) PROVE TypeOK'
  BY <1>3 DEF EnableStart, Goto, Snapshot
<1>4. ASSUME NEW t \in Tasks, EnableCheck(t) PROVE TypeOK'
  BY <1>4 DEF EnableCheck, Goto, Return
<1>5. ASSUME NEW t \in Tasks, EnableStore(t) PROVE TypeOK'
  BY <1>5 DEF EnableStore, Return
<1>6. ASSUME NEW t \in Tasks, DisableStart(t) PROVE TypeOK'
  BY <1>6 DEF DisableStart, Goto, Snapshot
<1>7. ASSUME NEW t \in Tasks, DisableDelete(t) PROVE TypeOK'
  BY <1>7 DEF DisableDelete, Return
<1>8. ASSUME NEW t \in Tasks, PrepareStart(t) PROVE TypeOK'
  BY <1>8 DEF PrepareStart, Goto, Snapshot
<1>9. ASSUME NEW t \in Tasks, PrepareRead(t) PROVE TypeOK'
  <2>1. CASE Spendable(t) = {}
    BY <1>9, <2>1 DEF PrepareRead, Return
  <2>2. CASE Spendable(t) # {}
    <3>1. utxos[snap[t]] \in SUBSET Coins /\ snap[t] \in Wallets
      BY <1>9 DEF PrepareRead
    <3>2. [wallet |-> snap[t], inputs |-> utxos[snap[t]], expires_at |-> 0] \in Plan
      BY <3>1 DEF Plan
    <3>3. [wallet |-> snap[t], inputs |-> utxos[snap[t]], expires_at |-> 0] # NoPlan
      BY <3>1 DEF NoPlan
    <3> QED
      BY <1>9, <2>2, <3>1, <3>2, <3>3 DEF PrepareRead, Goto, Spendable
  <2> QED
    BY <2>1, <2>2
<1>10. ASSUME NEW t \in Tasks, PrepareBuild(t) PROVE TypeOK'
  BY <1>10, SMTT(30) DEF PrepareBuild, Goto, Plan, NoPlan
<1>11. ASSUME NEW t \in Tasks, PrepareStore(t) PROVE TypeOK'
  BY <1>11 DEF PrepareStore, Return, Retained, Plan, PendingPlan, NoPlan
<1>12. ASSUME NEW t \in Tasks, NEW kind \in Kinds, NEW p \in PlanIds, NEW c \in Secrets,
              SignStart(t, kind, p, c) PROVE TypeOK'
  BY <1>12 DEF SignStart, Goto, Snapshot, SignCall, NoCall, Kinds
<1>13. ASSUME NEW t \in Tasks, SignTake(t) PROVE TypeOK'
  <2> DEFINE p == call[t].plan
  <2>1. p \in PlanIds
    BY <1>13 DEF SignTake
  <2>2. pending' \in [PlanIds -> PendingPlan \cup {NotPending}]
    BY <1>13, <2>1 DEF SignTake, AfterTake, Retained
  <2>3. CASE Found(p)
    <3>1. pending[p] \in PendingPlan
      BY <2>1, <2>3 DEF Found, Fresh
    <3>2. pending[p].plan \in Plan /\ pending[p].plan # NoPlan
      BY <3>1 DEF PendingPlan, Plan, NoPlan
    <3> QED
      BY <1>13, <2>2, <2>3, <3>2 DEF SignTake, Goto
  <2>4. CASE ~Found(p)
    BY <1>13, <2>2, <2>4, SMTT(30) DEF SignTake, Return
  <2> QED
    BY <2>3, <2>4
<1>14. ASSUME NEW t \in Tasks, SignCheck(t) PROVE TypeOK'
  <2>1. CASE Return(t)
    BY <1>14, <2>1, ReturnTypes DEF SignCheck
  <2>2. CASE ~Return(t)
    BY <1>14, <2>2 DEF SignCheck, Goto
  <2> QED
    BY <2>1, <2>2
<1>15. ASSUME NEW t \in Tasks, SignTotp(t) PROVE TypeOK'
  <2>1. CASE Return(t)
    BY <1>15, <2>1, ReturnTypes DEF SignTotp
  <2>2. CASE ~Return(t)
    BY <1>15, <2>2 DEF SignTotp, Goto
  <2> QED
    BY <2>1, <2>2
<1>16. ASSUME NEW t \in Tasks, SignSecret(t) PROVE TypeOK'
  <2>1. CASE ~Verifies(t)
    BY <1>16, <2>1, ReturnTypes DEF SignSecret
  <2>2. CASE Verifies(t) /\ call[t].kind = "sign_tx"
    BY <1>16, <2>2, SignTypes DEF SignSecret
  <2>3. CASE Verifies(t) /\ call[t].kind # "sign_tx"
    BY <1>16, <2>3 DEF SignSecret, Goto
  <2> QED
    BY <2>1, <2>2, <2>3
<1>17. ASSUME NEW t \in Tasks, SignMultisig(t) PROVE TypeOK'
  <2>1. CASE snap[t] \in MultisigWallets
    BY <1>17, <2>1, SignTypes DEF SignMultisig
  <2>2. CASE snap[t] \notin MultisigWallets
    BY <1>17, <2>2, ReturnTypes DEF SignMultisig
  <2> QED
    BY <2>1, <2>2
<1>18. ASSUME NEW t \in Tasks, Abort(t) PROVE TypeOK'
  BY <1>18, ReturnTypes DEF Abort
<1>19. CASE CloseWallet
  BY <1>19 DEF CloseWallet
<1>20. CASE UnlockWallet
  BY <1>20 DEF UnlockWallet
<1>21. ASSUME NEW w \in Wallets, SyncWrites(w) PROVE TypeOK'
  BY <1>21 DEF SyncWrites
<1>22. CASE Restart
  BY <1>22 DEF Restart
<1>23. CASE Tick
  BY <1>23 DEF Tick
<1>24. CASE UNCHANGED vars
  BY <1>24 DEF vars
<1> QED
  BY <1>1, <1>2, <1>3, <1>4, <1>5, <1>6, <1>7, <1>8, <1>9, <1>10, <1>11, <1>12, <1>13, <1>14,
     <1>15, <1>16, <1>17, <1>18, <1>19, <1>20, <1>21, <1>22, <1>23, <1>24 DEF Next, Handler

-----------------------------------------------------------------------------
LEMMA InitInv == Init => IInv
  BY DEF Init, IInv, FilesInv, BuildInv, StoreInv, ClaimInv, GateInv, HistoryInv,
         Claimed, SignPCs, NoPlan

\* The steps of a handler that neither builds nor holds a plan afterwards, and
\* that leave the store and the history alone: opening a wallet, TOTP changes,
\* errors, and every return that makes no signature.
Quiet(t, next) ==
  /\ UNCHANGED <<pending, now, history>>
  /\ pc' = [pc EXCEPT ![t] = next]
  /\ next \notin SignPCs \cup {"prep_build", "prep_store"}
  /\ \A u \in Tasks \ {t} : snap'[u] = snap[u] /\ call'[u] = call[u] /\ held'[u] = held[u]

LEMMA QuietInv ==
  ASSUME TypeOK, IInv, NEW t \in Tasks, NEW next, Quiet(t, next), FilesInv' PROVE IInv'
<1> USE DEF TypeOK, Quiet, history
<1>2. \A u \in Tasks : u # t =>
        pc'[u] = pc[u] /\ snap'[u] = snap[u] /\ call'[u] = call[u] /\ held'[u] = held[u]
  OBVIOUS
<1>3. pc'[t] \notin SignPCs \cup Claimed \cup {"prep_build", "prep_store"}
  BY DEF SignPCs, Claimed
<1>4. BuildInv'
  BY <1>2, <1>3 DEF IInv, BuildInv, OwnCoins
<1>5. StoreInv'
  BY DEF IInv, StoreInv, OwnCoins
<1>6. ClaimInv'
  BY <1>2, <1>3 DEF IInv, ClaimInv, OwnCoins
<1>7. GateInv'
  BY <1>2, <1>3 DEF IInv, GateInv, SignPCs
<1>8. HistoryInv'
  BY DEF IInv, HistoryInv
<1> QED
  BY <1>4, <1>5, <1>6, <1>7, <1>8 DEF IInv

\* A return without a signature, from any step.
LEMMA ReturnInv ==
  ASSUME TypeOK, IInv, NEW t \in Tasks, Return(t), UNCHANGED <<session, pending, now, history>>
  PROVE  IInv'
<1>1. FilesInv'
  BY DEF IInv, FilesInv, session
<1>2. Quiet(t, "idle")
  BY DEF Return, Quiet, TypeOK, SignPCs
<1> QED
  BY <1>1, <1>2, QuietInv

\* A signature: the plan was claimed by this handler alone, so it is unsigned,
\* and the checks before made the key the one of the plan's wallet.
LEMMA SignInv ==
  ASSUME TypeOK, IInv, NEW t \in Tasks, pc[t] \in {"sign_secret", "sign_msig"}, Sign(t),
         UNCHANGED <<session, pending, now>>
  PROVE  IInv'
<1> DEFINE p == call[t].plan
<1> USE DEF TypeOK, Sign, Return
<1>1. p \in PlanIds /\ pc[t] \in Claimed /\ pc[t] \in SignPCs
  BY DEF SignPCs, Claimed
<1>2. pending[p] = NotPending /\ signs[p] = 0 /\ snap[t] = issued[p] /\ issued[p] # None
  BY <1>1 DEF IInv, ClaimInv, GateInv
<1>3. \A q \in PlanIds : q # p => signs'[q] = signs[q] /\ signer'[q] = signer[q]
  OBVIOUS
<1>4. signs'[p] = 1 /\ signer'[p] = issued[p]
  BY <1>1, <1>2
<1>5. \A u \in Tasks : u # t =>
        pc'[u] = pc[u] /\ snap'[u] = snap[u] /\ call'[u] = call[u] /\ held'[u] = held[u]
  OBVIOUS
<1>6. pc'[t] = "idle"
  OBVIOUS
<1>7. FilesInv'
  BY DEF IInv, FilesInv, session
<1>8. BuildInv'
  BY <1>5, <1>6 DEF IInv, BuildInv, OwnCoins
<1>9. StoreInv'
  BY <1>2, <1>3 DEF IInv, StoreInv, OwnCoins
<1>10. ClaimInv'
  BY <1>1, <1>3, <1>5, <1>6 DEF IInv, ClaimInv, OwnCoins, SignPCs, Claimed
<1>11. GateInv'
  BY <1>5, <1>6 DEF IInv, GateInv
<1>12. HistoryInv'
  BY <1>2, <1>3, <1>4 DEF IInv, HistoryInv
<1> QED
  BY <1>7, <1>8, <1>9, <1>10, <1>11, <1>12 DEF IInv

LEMMA SendNext == TypeOK /\ IInv /\ [Next]_vars => IInv'
<1> SUFFICES ASSUME TypeOK, IInv, [Next]_vars PROVE IInv'
  OBVIOUS
<1> USE DEF TypeOK
<1>1. ASSUME NEW t \in Tasks, NEW w \in Wallets, OpenStart(t, w) PROVE IInv'
  <2>1. Quiet(t, "open_db")
    BY <1>1 DEF OpenStart, Goto, Quiet, SignPCs
  <2>2. FilesInv'
    BY <1>1 DEF OpenStart, IInv, FilesInv, session
  <2> QED
    BY <2>1, <2>2, QuietInv
<1>2. ASSUME NEW t \in Tasks, OpenInstall(t) PROVE IInv'
  <2>1. Quiet(t, "idle")
    BY <1>2 DEF OpenInstall, Return, Quiet, SignPCs
  <2>2. FilesInv'
    BY <1>2 DEF OpenInstall, IInv, FilesInv
  <2> QED
    BY <2>1, <2>2, QuietInv
<1>3. ASSUME NEW t \in Tasks, EnableStart(t) PROVE IInv'
  <2>1. Quiet(t, "enable_check")
    BY <1>3 DEF EnableStart, Snapshot, Goto, Quiet, SignPCs
  <2>2. FilesInv'
    BY <1>3 DEF EnableStart, IInv, FilesInv, session
  <2> QED
    BY <2>1, <2>2, QuietInv
<1>4. ASSUME NEW t \in Tasks, EnableCheck(t) PROVE IInv'
  <2>1. CASE totp[snap[t]] = None
    <3>1. Quiet(t, "enable_store")
      BY <1>4, <2>1 DEF EnableCheck, Goto, Quiet, SignPCs
    <3>2. FilesInv'
      BY <1>4 DEF EnableCheck, IInv, FilesInv, session
    <3> QED
      BY <3>1, <3>2, QuietInv
  <2>2. CASE totp[snap[t]] # None
    BY <1>4, <2>2, ReturnInv DEF EnableCheck
  <2> QED
    BY <2>1, <2>2
<1>5. ASSUME NEW t \in Tasks, EnableStore(t) PROVE IInv'
  <2>1. Quiet(t, "idle")
    BY <1>5 DEF EnableStore, Return, Quiet, SignPCs
  <2>2. FilesInv'
    BY <1>5 DEF EnableStore, IInv, FilesInv
  <2> QED
    BY <2>1, <2>2, QuietInv
<1>6. ASSUME NEW t \in Tasks, DisableStart(t) PROVE IInv'
  <2>1. Quiet(t, "disable_delete")
    BY <1>6 DEF DisableStart, Snapshot, Goto, Quiet, SignPCs
  <2>2. FilesInv'
    BY <1>6 DEF DisableStart, IInv, FilesInv, session
  <2> QED
    BY <2>1, <2>2, QuietInv
<1>7. ASSUME NEW t \in Tasks, DisableDelete(t) PROVE IInv'
  <2>1. Quiet(t, "idle")
    BY <1>7 DEF DisableDelete, Return, Quiet, SignPCs
  <2>2. FilesInv'
    BY <1>7 DEF DisableDelete, IInv, FilesInv
  <2> QED
    BY <2>1, <2>2, QuietInv
<1>8. ASSUME NEW t \in Tasks, PrepareStart(t) PROVE IInv'
  <2>1. Quiet(t, "prep_read")
    BY <1>8 DEF PrepareStart, Snapshot, Goto, Quiet, SignPCs
  <2>2. FilesInv'
    BY <1>8 DEF PrepareStart, IInv, FilesInv, session
  <2> QED
    BY <2>1, <2>2, QuietInv
<1>9. ASSUME NEW t \in Tasks, PrepareRead(t) PROVE IInv'
  <2>1. CASE Spendable(t) = {}
    BY <1>9, <2>1, ReturnInv DEF PrepareRead
  <2>2. CASE Spendable(t) # {}
    <3> DEFINE read == [wallet |-> snap[t], inputs |-> utxos[snap[t]], expires_at |-> 0]
    <3>1. /\ held' = [held EXCEPT ![t] = read] /\ pc' = [pc EXCEPT ![t] = "prep_build"]
          /\ UNCHANGED <<snap, call, session, pending, now, history>>
      BY <1>9, <2>2 DEF PrepareRead, Goto, Spendable
    <3>2. snap[t] \in Wallets /\ OwnCoins(read)
      BY <1>9 DEF PrepareRead, IInv, FilesInv, OwnCoins
    <3>3. \A u \in Tasks : u # t => pc'[u] = pc[u] /\ held'[u] = held[u]
      BY <3>1
    <3>4. pc'[t] = "prep_build" /\ held'[t] = read
      BY <3>1
    <3>5. BuildInv'
      BY <3>1, <3>2, <3>3, <3>4 DEF IInv, BuildInv, OwnCoins
    <3>6. ClaimInv'
      BY <3>1, <3>3, <3>4 DEF IInv, ClaimInv, OwnCoins, SignPCs, Claimed, history
    <3>7. FilesInv' /\ StoreInv' /\ GateInv' /\ HistoryInv'
      BY <3>1, <3>3, <3>4 DEF IInv, FilesInv, StoreInv, GateInv, HistoryInv, OwnCoins, session, history
    <3> QED
      BY <3>5, <3>6, <3>7 DEF IInv
  <2> QED
    BY <2>1, <2>2
<1>10. ASSUME NEW t \in Tasks, PrepareBuild(t) PROVE IInv'
  <2>1. PICK picked \in SUBSET held[t].inputs :
          held' = [held EXCEPT ![t] = [wallet |-> snap[t], inputs |-> picked,
                                       expires_at |-> now + TX_PLAN_TTL]]
    BY <1>10 DEF PrepareBuild
  <2>2. /\ pc[t] = "prep_build" /\ pc' = [pc EXCEPT ![t] = "prep_store"]
        /\ UNCHANGED <<session, pending, now, snap, call, history>>
    BY <1>10 DEF PrepareBuild, Goto
  <2>3. \A u \in Tasks : u # t => pc'[u] = pc[u] /\ held'[u] = held[u]
    BY <2>1, <2>2
  <2>4. /\ pc'[t] = "prep_store" /\ held'[t].wallet = snap[t] /\ held'[t].inputs = picked
        /\ held'[t].expires_at = now + TX_PLAN_TTL
    BY <2>1, <2>2
  <2>5. held[t].wallet = snap[t] /\ OwnCoins(held[t])
    BY <2>2 DEF IInv, BuildInv
  <2>6. BuildInv'
    BY <2>1, <2>2, <2>3, <2>4, <2>5 DEF IInv, BuildInv, OwnCoins
  <2>7. ClaimInv'
    BY <2>2, <2>3, <2>4 DEF IInv, ClaimInv, OwnCoins, SignPCs, Claimed, history
  <2>8. FilesInv' /\ StoreInv' /\ GateInv' /\ HistoryInv'
    BY <2>2, <2>3, <2>4 DEF IInv, FilesInv, StoreInv, GateInv, HistoryInv, OwnCoins, session, history
  <2> QED
    BY <2>6, <2>7, <2>8 DEF IInv
<1>11. ASSUME NEW t \in Tasks, PrepareStore(t) PROVE IInv'
  <2>1. PICK p \in PlanIds :
          /\ issued[p] = None
          /\ issued' = [issued EXCEPT ![p] = held[t].wallet]
          /\ pending' = [Retained EXCEPT ![p] = [plan |-> held[t], created_at |-> now]]
    BY <1>11 DEF PrepareStore
  <2>2. pc[t] = "prep_store" /\ Return(t) /\ UNCHANGED <<session, now, signer, signs>>
    BY <1>11 DEF PrepareStore
  <2>3. held[t] \in Plan /\ held[t].wallet # None
    BY <2>2 DEF Claimed, Plan
  <2>4. OwnCoins(held[t]) /\ held[t].expires_at <= now + TX_PLAN_TTL
    BY <2>2 DEF IInv, BuildInv
  <2>5. signs[p] = 0 /\ signer[p] = None
    BY <2>1 DEF IInv, HistoryInv
  <2>6. \A q \in PlanIds : q # p =>
          issued'[q] = issued[q] /\ pending'[q] \in {pending[q], NotPending}
    BY <2>1 DEF Retained
  <2>7. /\ issued'[p] = held[t].wallet
        /\ pending'[p].plan = held[t] /\ pending'[p].created_at = now
    BY <2>1 DEF Retained
  <2>8. /\ \A u \in Tasks : u # t =>
             pc'[u] = pc[u] /\ held'[u] = held[u] /\ snap'[u] = snap[u] /\ call'[u] = call[u]
        /\ pc'[t] = "idle"
    BY <2>2 DEF Return
  <2>9. FilesInv'
    BY <2>2 DEF IInv, FilesInv, session
  <2>10. BuildInv'
    BY <2>2, <2>8 DEF IInv, BuildInv, OwnCoins
  <2>11. StoreInv'
    BY <2>2, <2>4, <2>5, <2>6, <2>7 DEF IInv, StoreInv, OwnCoins
  <2>12. ClaimInv'
    <3>1. \A u \in Tasks : u # t /\ pc[u] \in SignPCs => call[u].plan # p /\ call[u].plan \in PlanIds
      BY <2>1 DEF IInv, ClaimInv
    <3> QED
      BY <2>2, <2>6, <2>8, <3>1 DEF IInv, ClaimInv, OwnCoins, SignPCs, Claimed
  <2>13. GateInv'
    BY <2>8 DEF IInv, GateInv
  <2>14. HistoryInv'
    BY <2>2, <2>3, <2>5, <2>6, <2>7 DEF IInv, HistoryInv
  <2> QED
    BY <2>9, <2>10, <2>11, <2>12, <2>13, <2>14 DEF IInv
<1>12. ASSUME NEW t \in Tasks, NEW kind \in Kinds, NEW q \in PlanIds, NEW c \in Secrets,
              SignStart(t, kind, q, c) PROVE IInv'
  <2>1. /\ pc' = [pc EXCEPT ![t] = "sign_take"] /\ issued[q] # None
        /\ call' = [call EXCEPT ![t] = SignCall(kind, q, c)]
        /\ snap' = [snap EXCEPT ![t] = active.wallet]
        /\ UNCHANGED <<session, pending, now, held, history>>
    BY <1>12 DEF SignStart, Goto, Snapshot
  <2>2. \A u \in Tasks : u # t =>
          pc'[u] = pc[u] /\ call'[u] = call[u] /\ snap'[u] = snap[u]
    BY <2>1
  <2>3. pc'[t] = "sign_take" /\ call'[t].plan = q /\ call'[t].began = now
    BY <2>1 DEF SignCall
  <2>4. BuildInv' /\ GateInv'
    BY <2>1, <2>2, <2>3 DEF IInv, BuildInv, GateInv, OwnCoins
  <2>5. ClaimInv'
    BY <2>1, <2>2, <2>3 DEF IInv, ClaimInv, OwnCoins, SignPCs, Claimed, history
  <2>6. FilesInv' /\ StoreInv' /\ HistoryInv'
    BY <2>1 DEF IInv, FilesInv, StoreInv, HistoryInv, OwnCoins, session, history
  <2> QED
    BY <2>4, <2>5, <2>6 DEF IInv
<1>13. ASSUME NEW t \in Tasks, SignTake(t) PROVE IInv'
  <2> DEFINE p == call[t].plan
  <2>1. /\ pc[t] = "sign_take" /\ p \in PlanIds
        /\ pending' = [Retained EXCEPT ![p] = NotPending]
        /\ UNCHANGED <<session, now, history>>
    BY <1>13 DEF SignTake, AfterTake, SignPCs
  <2>2. pending'[p] = NotPending /\ \A q \in PlanIds : pending'[q] \in {pending[q], NotPending}
    BY <2>1 DEF Retained
  <2>3. FilesInv' /\ StoreInv' /\ HistoryInv'
    BY <2>1, <2>2 DEF IInv, FilesInv, StoreInv, HistoryInv, OwnCoins, session, history
  <2>4. CASE Found(p)
    <3>1. /\ held' = [held EXCEPT ![t] = pending[p].plan]
          /\ pc' = [pc EXCEPT ![t] = "sign_check"] /\ UNCHANGED <<snap, call>>
      BY <1>13, <2>4 DEF SignTake, Goto
    <3>2. \A u \in Tasks : u # t => pc'[u] = pc[u] /\ held'[u] = held[u]
      BY <3>1
    <3>3. pc'[t] = "sign_check" /\ held'[t] = pending[p].plan
      BY <3>1
    <3>4. /\ pending[p] # NotPending /\ held'[t].wallet = issued[p] /\ OwnCoins(held'[t])
          /\ signs[p] = 0
      BY <2>1, <2>4, <3>3 DEF Found, Fresh, IInv, StoreInv, OwnCoins
    <3>5. \A u \in Tasks : pc[u] \in Claimed => call[u].plan # p
      BY <3>4 DEF IInv, ClaimInv
    <3>6. BuildInv' /\ GateInv'
      BY <2>1, <3>1, <3>2, <3>3 DEF IInv, BuildInv, GateInv, OwnCoins
    <3>7. ClaimInv'
      BY <2>1, <2>2, <3>1, <3>2, <3>3, <3>4, <3>5
         DEF IInv, ClaimInv, OwnCoins, SignPCs, Claimed, history
    <3> QED
      BY <2>3, <3>6, <3>7 DEF IInv
  <2>5. CASE ~Found(p)
    <3>1. Return(t)
      BY <1>13, <2>5 DEF SignTake
    <3>2. /\ \A u \in Tasks : u # t =>
               pc'[u] = pc[u] /\ held'[u] = held[u] /\ snap'[u] = snap[u] /\ call'[u] = call[u]
          /\ pc'[t] = "idle"
      BY <3>1 DEF Return
    <3>3. BuildInv' /\ GateInv'
      BY <2>1, <3>2 DEF IInv, BuildInv, GateInv, OwnCoins
    <3>4. ClaimInv'
      BY <2>1, <2>2, <3>2 DEF IInv, ClaimInv, OwnCoins, SignPCs, Claimed, history
    <3> QED
      BY <2>3, <3>3, <3>4 DEF IInv
  <2> QED
    BY <2>4, <2>5
\* The checks of sign_tx only move the handler on, or make it return.
<1>14. ASSUME NEW t \in Tasks, NEW next \in {"sign_totp", "sign_secret", "sign_msig"},
              pc[t] \in Claimed, Goto(t, next),
              held[t].wallet = snap[t] /\ call[t].began <= held[t].expires_at,
              next = "sign_msig" => Enrols[call[t].code] = snap[t],
              UNCHANGED <<session, pending, now, snap, call, held, history>>
       PROVE  IInv'
  <2>1. (\A u \in Tasks : u # t => pc'[u] = pc[u]) /\ pc'[t] = next
    BY <1>14 DEF Goto
  <2>2. BuildInv' /\ GateInv'
    BY <1>14, <2>1 DEF IInv, BuildInv, GateInv, OwnCoins
  <2>3. ClaimInv'
    BY <1>14, <2>1 DEF IInv, ClaimInv, OwnCoins, SignPCs, Claimed, history
  <2>4. FilesInv' /\ StoreInv' /\ HistoryInv'
    BY <1>14 DEF IInv, FilesInv, StoreInv, HistoryInv, OwnCoins, session, history
  <2> QED
    BY <2>2, <2>3, <2>4 DEF IInv
<1>15. ASSUME NEW t \in Tasks, SignCheck(t) PROVE IInv'
  <2>1. CASE Bound(t) /\ Unexpired(t)
    <3>1. call[t].began <= now /\ call[t].began \in Nat /\ held[t].expires_at \in Nat
      BY <1>15 DEF SignCheck, IInv, ClaimInv, SignPCs, Claimed, Plan
    <3>2. call[t].began <= held[t].expires_at
      BY <2>1, <3>1 DEF Unexpired
    <3> QED
      BY <1>14, <1>15, <2>1, <3>2 DEF SignCheck, Bound, Claimed
  <2>2. CASE ~(Bound(t) /\ Unexpired(t))
    BY <1>15, <2>2, ReturnInv DEF SignCheck
  <2> QED
    BY <2>1, <2>2
<1>16. ASSUME NEW t \in Tasks, SignTotp(t) PROVE IInv'
  <2>1. CASE totp[snap[t]] # None
    <3>1. held[t].wallet = snap[t] /\ call[t].began <= held[t].expires_at
      BY <1>16 DEF SignTotp, IInv, GateInv
    <3> QED
      BY <1>14, <1>16, <2>1, <3>1 DEF SignTotp, Claimed
  <2>2. CASE totp[snap[t]] = None
    BY <1>16, <2>2, ReturnInv DEF SignTotp
  <2> QED
    BY <2>1, <2>2
<1>17. ASSUME NEW t \in Tasks, SignSecret(t) PROVE IInv'
  <2>1. CASE ~Verifies(t)
    BY <1>17, <2>1, ReturnInv DEF SignSecret
  <2>2. CASE Verifies(t) /\ call[t].kind = "sign_tx"
    BY <1>17, <2>2, SignInv DEF SignSecret
  <2>3. CASE Verifies(t) /\ call[t].kind # "sign_tx"
    <3>1. /\ Goto(t, "sign_msig") /\ pc[t] = "sign_secret"
          /\ UNCHANGED <<session, pending, now, snap, call, held, history>>
      BY <1>17, <2>3 DEF SignSecret
    <3>2. held[t].wallet = snap[t] /\ call[t].began <= held[t].expires_at
      BY <3>1 DEF IInv, GateInv
    <3>3. call[t].code # None /\ snap[t] \in Wallets
      BY <3>1 DEF SignPCs
    <3>4. Enrols[call[t].code] = snap[t]
      BY <2>3, <3>3 DEF Verifies, IInv, FilesInv
    <3> QED
      BY <1>14, <3>1, <3>2, <3>4 DEF Claimed
  <2> QED
    BY <2>1, <2>2, <2>3
<1>18. ASSUME NEW t \in Tasks, SignMultisig(t) PROVE IInv'
  BY <1>18, ReturnInv, SignInv DEF SignMultisig
<1>19. ASSUME NEW t \in Tasks, Abort(t) PROVE IInv'
  BY <1>19, ReturnInv DEF Abort
<1>20. CASE CloseWallet \/ UnlockWallet
  BY <1>20 DEF CloseWallet, UnlockWallet, local, history,
     IInv, FilesInv, BuildInv, StoreInv, ClaimInv, GateInv, HistoryInv, OwnCoins
<1>21. ASSUME NEW w \in Wallets, SyncWrites(w) PROVE IInv'
  <2>1. FilesInv'
    BY <1>21 DEF SyncWrites, IInv, FilesInv
  <2>2. BuildInv' /\ StoreInv' /\ ClaimInv' /\ GateInv' /\ HistoryInv'
    BY <1>21 DEF SyncWrites, local, history,
       IInv, BuildInv, StoreInv, ClaimInv, GateInv, HistoryInv, OwnCoins
  <2> QED
    BY <2>1, <2>2 DEF IInv
<1>22. CASE Restart
  BY <1>22 DEF Restart, history, SignPCs, Claimed,
     IInv, FilesInv, BuildInv, StoreInv, ClaimInv, GateInv, HistoryInv, OwnCoins
<1>23. CASE Tick
  <2>1. now' = now + 1 /\ UNCHANGED <<session, pending, local, history>>
    BY <1>23 DEF Tick
  <2>2. BuildInv'
    <3>1. \A t \in Tasks : held[t].expires_at \in Nat
      BY DEF Plan, NoPlan
    <3> QED
      BY <2>1, <3>1 DEF local, IInv, BuildInv, OwnCoins
  <2>3. ClaimInv'
    <3>1. \A t \in Tasks : call[t].began \in Nat
      BY DEF NoCall
    <3> QED
      BY <2>1, <3>1 DEF local, history, IInv, ClaimInv, OwnCoins
  <2>4. FilesInv' /\ StoreInv' /\ GateInv' /\ HistoryInv'
    BY <2>1 DEF session, local, history, IInv, FilesInv, StoreInv, GateInv, HistoryInv, OwnCoins
  <2> QED
    BY <2>2, <2>3, <2>4 DEF IInv
<1>24. CASE UNCHANGED vars
  BY <1>24 DEF vars, session, local, history,
     IInv, FilesInv, BuildInv, StoreInv, ClaimInv, GateInv, HistoryInv, OwnCoins
<1> QED
  BY <1>1, <1>2, <1>3, <1>4, <1>5, <1>6, <1>7, <1>8, <1>9, <1>10, <1>11, <1>12, <1>13,
     <1>15, <1>16, <1>17, <1>18, <1>19, <1>20, <1>21, <1>22, <1>23, <1>24 DEF Next, Handler

-----------------------------------------------------------------------------
\* Every variable of the pipeline keeps its type.
THEOREM TypeCorrect == Spec => []TypeOK
  BY TypeInit, TypeNext, PTL DEF Spec

\* The invariant is inductive together with the types.
THEOREM Invariant == Spec => []IInv
  BY InitInv, SendNext, TypeCorrect, PTL DEF Spec

\* AUD-007: a plan is only signed with the key of the wallet it was prepared for.
THEOREM WalletBinding == Spec => []SignedByOwnWallet
<1>1. IInv => SignedByOwnWallet
  BY DEF IInv, HistoryInv, SignedByOwnWallet
<1> QED
  BY <1>1, Invariant, PTL

\* No plan is ever signed twice.
THEOREM AtMostOnce == Spec => []SignedAtMostOnce
<1>1. IInv => SignedAtMostOnce
  BY DEF IInv, HistoryInv, SignedAtMostOnce
<1> QED
  BY <1>1, Invariant, PTL

\* The history of signatures only changes in the step Sign of the signing call.
LEMMA SignsStep ==
  ASSUME TypeOK, [Next]_vars, NEW t \in Tasks, Signs(t)
  PROVE  Sign(t) /\ (SignSecret(t) \/ SignMultisig(t))
<1> USE DEF Signs, TypeOK
<1>1. ASSUME NEW u \in Tasks, SignSecret(u) PROVE Sign(t) /\ SignSecret(t)
  <2>1. Sign(u)
    BY <1>1 DEF SignSecret, history
  <2>2. u = t
    BY <2>1 DEF Sign, Return
  <2> QED
    BY <1>1, <2>1, <2>2
<1>2. ASSUME NEW u \in Tasks, SignMultisig(u) PROVE Sign(t) /\ SignMultisig(t)
  <2>1. Sign(u)
    BY <1>2 DEF SignMultisig, history
  <2>2. u = t
    BY <2>1 DEF Sign, Return
  <2> QED
    BY <1>2, <2>1, <2>2
<1>3. ASSUME NEW u \in Tasks, Handler(u), ~SignSecret(u), ~SignMultisig(u) PROVE UNCHANGED signs
  BY <1>3 DEF Handler, OpenStart, OpenInstall, EnableStart, EnableCheck, EnableStore,
     DisableStart, DisableDelete, PrepareStart, PrepareRead, PrepareBuild, PrepareStore,
     SignStart, SignTake, SignCheck, SignTotp, Abort, history
<1>4. (CloseWallet \/ UnlockWallet \/ (\E w \in Wallets : SyncWrites(w)) \/ Restart \/ Tick
       \/ UNCHANGED vars) => UNCHANGED signs
  BY DEF CloseWallet, UnlockWallet, SyncWrites, Restart, Tick, vars, history
<1> QED
  BY <1>1, <1>2, <1>3, <1>4 DEF Next

\* What the invariant says of a call about to sign.
LEMMA SignerReady ==
  ASSUME TypeOK, IInv, NEW t \in Tasks, pc[t] \in {"sign_secret", "sign_msig"}
  PROVE  /\ call[t].plan \in PlanIds /\ call[t].code \in Secrets
         /\ held[t].wallet = snap[t] /\ issued[call[t].plan] = snap[t] /\ OwnCoins(held[t])
         /\ call[t].began <= held[t].expires_at
<1>1. pc[t] \in SignPCs /\ pc[t] \in Claimed
  BY DEF SignPCs, Claimed
<1>2. call[t] \in [kind : Kinds, plan : PlanIds, code : Secrets, began : Nat]
  BY <1>1 DEF TypeOK
<1>3. pc[t] \in {"sign_totp", "sign_secret", "sign_msig"}
  OBVIOUS
<1> QED
  BY <1>1, <1>2, <1>3 DEF IInv, ClaimInv, GateInv

\* A signed transaction only spends coins of the wallet whose key signed it.
THEOREM OwnCoinsOnly == Spec => SpendsOwnCoins
<1>1. ASSUME TypeOK, IInv, [Next]_vars, NEW t \in Tasks, Signs(t), NEW c \in held[t].inputs
      PROVE  Owner[c] = signer'[call[t].plan]
  BY <1>1, SignsStep, SignerReady DEF Signs, Sign, TypeOK, OwnCoins
<1>2. TypeOK /\ IInv /\ [Next]_vars
        => [\A t \in Tasks : Signs(t) => \A c \in held[t].inputs : Owner[c] = signer'[call[t].plan]]_vars
  BY <1>1
<1> QED
  BY <1>2, TypeCorrect, Invariant, PTL DEF Spec, SpendsOwnCoins

\* A call made after the plan's expiry never signs.
THEOREM ExpiryRespected == Spec => NeverSignedWhenLate
<1>1. ASSUME TypeOK, IInv, [Next]_vars, NEW t \in Tasks, Signs(t)
      PROVE  call[t].began <= held[t].expires_at
  BY <1>1, SignerReady DEF Signs
<1>2. TypeOK /\ IInv /\ [Next]_vars
        => [\A t \in Tasks : Signs(t) => call[t].began <= held[t].expires_at]_vars
  BY <1>1
<1> QED
  BY <1>2, TypeCorrect, Invariant, PTL DEF Spec, NeverSignedWhenLate

\* The TOTP secret that let a signature through is the plan's wallet's own.
THEOREM TotpGate == Spec => GatedByOwnTotp
<1>1. ASSUME TypeOK, IInv, [Next]_vars, NEW t \in Tasks, Signs(t)
      PROVE  Enrols[call[t].code] = issued[call[t].plan]
  <2>1. /\ call[t].code \in Secrets /\ issued[call[t].plan] = snap[t] /\ snap[t] \in Wallets
        /\ pc[t] \in {"sign_secret", "sign_msig"}
    BY <1>1, SignerReady DEF Signs, TypeOK
  <2>2. CASE SignMultisig(t)
    BY <1>1, <2>1, <2>2 DEF SignMultisig, IInv, GateInv
  <2>3. CASE SignSecret(t)
    <3>1. Verifies(t)
      BY <1>1, <2>3 DEF SignSecret, Signs, history
    <3> QED
      BY <1>1, <2>1, <3>1 DEF Verifies, IInv, FilesInv
  <2> QED
    BY <1>1, <2>2, <2>3, SignsStep
<1>2. TypeOK /\ IInv /\ [Next]_vars
        => [\A t \in Tasks : Signs(t) => Enrols[call[t].code] = issued[call[t].plan]]_vars
  BY <1>1
<1> QED
  BY <1>2, TypeCorrect, Invariant, PTL DEF Spec, GatedByOwnTotp

\* The purge of the store never removes a plan that could still be signed.
THEOREM PurgeIsSafe == Spec => PurgedOnlyExpired
<1>1. ASSUME TypeOK, IInv, [Next]_vars, ~Restart, NEW p \in PlanIds,
             pending[p] # NotPending, pending'[p] = NotPending,
             ~ \E t \in Tasks : /\ pc[t] = "sign_take" /\ call[t].plan = p
                               /\ pc'[t] = "sign_check" /\ held'[t] = pending[p].plan
      PROVE  now > pending[p].plan.expires_at
  <2>1. /\ pending[p].created_at \in Nat /\ pending[p].plan.expires_at \in Nat /\ now \in Nat
        /\ pending[p].plan.expires_at <= pending[p].created_at + TX_PLAN_TTL
    BY <1>1 DEF TypeOK, IInv, StoreInv, PendingPlan, Plan
  <2>2. ~Fresh(p) => now > pending[p].plan.expires_at
    BY <1>1, <2>1 DEF Fresh
  <2>3. ASSUME NEW t \in Tasks, PrepareStore(t) PROVE ~Fresh(p)
    BY <1>1, <2>3 DEF PrepareStore, Retained, TypeOK, NotPending, NoPlan
  <2>4. ASSUME NEW t \in Tasks, SignTake(t) PROVE ~Fresh(p)
    <3>1. CASE call[t].plan = p
      <4>1. ~Found(p)
        BY <1>1, <2>4, <3>1 DEF SignTake, Goto, TypeOK
      <4> QED
        BY <4>1 DEF Found
    <3>2. CASE call[t].plan # p
      BY <1>1, <2>4, <3>2 DEF SignTake, AfterTake, Retained, TypeOK
    <3> QED
      BY <3>1, <3>2
  <2>5. ASSUME NEW t \in Tasks, Handler(t), ~PrepareStore(t), ~SignTake(t) PROVE FALSE
    BY <1>1, <2>5 DEF Handler, OpenStart, OpenInstall, EnableStart, EnableCheck, EnableStore,
       DisableStart, DisableDelete, PrepareStart, PrepareRead, PrepareBuild,
       SignStart, SignCheck, SignTotp, SignSecret, SignMultisig, Abort
  <2>6. ~(CloseWallet \/ UnlockWallet \/ (\E w \in Wallets : SyncWrites(w)) \/ Tick
          \/ UNCHANGED vars)
    BY <1>1 DEF CloseWallet, UnlockWallet, SyncWrites, Tick, vars
  <2> QED
    BY <1>1, <2>2, <2>3, <2>4, <2>5, <2>6 DEF Next
<1>2. TypeOK /\ IInv /\ [Next]_vars
        => [Restart \/ \A p \in PlanIds :
              (pending[p] # NotPending /\ pending'[p] = NotPending)
                => \/ now > pending[p].plan.expires_at
                   \/ \E t \in Tasks : /\ pc[t] = "sign_take" /\ call[t].plan = p
                                      /\ pc'[t] = "sign_check"
                                      /\ held'[t] = pending[p].plan]_vars
  BY <1>1
<1> QED
  BY <1>2, TypeCorrect, Invariant, PTL DEF Spec, PurgedOnlyExpired
-----------------------------------------------------------------------------
(* The pipeline implements the abstract one-shot plans *)

\* The abstract variables are issued, Open and signer.  Most steps sign nothing,
\* issue nothing and open nothing: they drop some plans, or stutter.
LEMMA ShrinkIsDrop ==
  ASSUME Open' \subseteq Open, UNCHANGED <<issued, signer>>
  PROVE  Abstract!Next
<1>1. Open' = Open \ (Open \ Open') /\ (Open \ Open') \in SUBSET Open
  OBVIOUS
<1>2. Abstract!Drop(Open \ Open')
  BY <1>1 DEF Abstract!Drop
<1> QED
  BY <1>1, <1>2 DEF Abstract!Next

\* No handler other than PrepareStore brings a plan into the store or into its hands.
LEMMA OnlyStoreOpens ==
  ASSUME TypeOK, NEW t \in Tasks, Handler(t), ~PrepareStore(t)
  PROVE  Open' \subseteq Open
<1> USE DEF TypeOK
<1>1. CASE SignTake(t)
  <2>1. /\ pc[t] = "sign_take" /\ call[t].plan \in PlanIds
        /\ pending' = [Retained EXCEPT ![call[t].plan] = NotPending]
    BY <1>1 DEF SignTake, AfterTake, SignPCs, NoCall
  <2>2. \A p \in PlanIds : pending'[p] # NotPending => pending[p] # NotPending
    BY <2>1 DEF Retained
  <2>3. \A u \in Tasks : pc'[u] \in Claimed =>
          /\ call'[u] = call[u]
          /\ u = t => pending[call[t].plan] # NotPending
          /\ u # t => pc[u] \in Claimed
    BY <1>1 DEF SignTake, Found, Fresh, Goto, Return, Claimed
  <2> QED
    BY <2>1, <2>2, <2>3 DEF Open
<1>2. CASE ~SignTake(t)
  <2>1. pending' = pending
    BY <1>2 DEF Handler, OpenStart, OpenInstall, EnableStart, EnableCheck, EnableStore,
       DisableStart, DisableDelete, PrepareStart, PrepareRead, PrepareBuild,
       SignStart, SignCheck, SignTotp, SignSecret, SignMultisig, Abort
  <2>2. \A u \in Tasks : pc'[u] \in Claimed => pc[u] \in Claimed /\ call'[u] = call[u]
    BY <1>2 DEF Handler, OpenStart, OpenInstall, EnableStart, EnableCheck, EnableStore,
       DisableStart, DisableDelete, PrepareStart, PrepareRead, PrepareBuild,
       SignStart, SignCheck, SignTotp, SignSecret, SignMultisig, Abort, Sign,
       Goto, Return, Snapshot, Claimed
  <2> QED
    BY <2>1, <2>2 DEF Open
<1> QED
  BY <1>1, <1>2

\* Storing a plan opens it; the purge of the same step drops the stale ones.
LEMMA StoreOpens ==
  ASSUME TypeOK, IInv, NEW t \in Tasks, PrepareStore(t)
  PROVE  Abstract!Next
<1> USE DEF TypeOK
<1>1. PICK p \in PlanIds : /\ issued[p] = None
                          /\ issued' = [issued EXCEPT ![p] = held[t].wallet]
                          /\ pending' = [Retained EXCEPT ![p] = [plan |-> held[t], created_at |-> now]]
  BY DEF PrepareStore
<1>2. held[t] \in Plan /\ held[t].wallet \in Wallets /\ UNCHANGED signer
  BY DEF PrepareStore, Plan, Claimed
<1>3. \A q \in PlanIds : q # p /\ pending'[q] # NotPending => pending[q] # NotPending
  BY <1>1 DEF Retained
<1>4. pending'[p] # NotPending
  BY <1>1, <1>2, NoneAssumption DEF Retained, NotPending, NoPlan, Plan
<1>5. \A u \in Tasks : pc'[u] \in Claimed <=> u # t /\ pc[u] \in Claimed
  BY DEF PrepareStore, Return, Claimed
<1>6. \A u \in Tasks : u # t => call'[u] = call[u]
  BY DEF PrepareStore, Return
<1>7. p \in Open' /\ Open' \subseteq Open \cup {p}
  BY <1>3, <1>4, <1>5, <1>6 DEF Open
<1> DEFINE dropped == Open \ Open'
<1>8. Open' = (Open \ dropped) \cup {p} /\ dropped \in SUBSET Open
  BY <1>7
<1>9. Abstract!Prepare(p, held[t].wallet, dropped)
  BY <1>1, <1>2, <1>8 DEF Abstract!Prepare
<1> QED
  BY <1>2, <1>8, <1>9 DEF Abstract!Next

\* Signing closes exactly the plan that the handler holds.
LEMMA SignerSigns ==
  ASSUME TypeOK, IInv, NEW t \in Tasks, pc[t] \in {"sign_secret", "sign_msig"},
         Sign(t), UNCHANGED pending
  PROVE  Abstract!Next
<1> USE DEF TypeOK
<1> DEFINE p == call[t].plan
<1>1. p \in PlanIds /\ issued[p] = snap[t] /\ pc[t] \in Claimed
  BY SignerReady DEF Claimed
<1>2. /\ pending[p] = NotPending
      /\ \A u \in Tasks \ {t} : pc[u] \in Claimed => call[u].plan # p
  BY <1>1 DEF IInv, ClaimInv
<1>3. \A u \in Tasks : /\ pc'[u] \in Claimed <=> u # t /\ pc[u] \in Claimed
                       /\ u # t => call'[u] = call[u]
  BY DEF Sign, Return, Claimed
<1>4. p \in Open
  BY <1>1 DEF Open
<1>5. Open' = Open \ {p}
  BY <1>1, <1>2, <1>3 DEF Open
<1>6. Abstract!Sign(p)
  BY <1>1, <1>4, <1>5 DEF Abstract!Sign, Sign
<1> QED
  BY <1>1, <1>6 DEF Abstract!Next

\* Plans are one-shot: opened once, for one wallet, and then signed once by that
\* wallet or dropped, whatever the order of the steps of the commands.
THEOREM Refinement == Spec => ImplementsOneShotPlans
<1>1. Init => Abstract!Init
  BY DEF Init, Abstract!Init, Open, Claimed
<1>2. ASSUME TypeOK, IInv, Next
      PROVE  Abstract!Next \/ UNCHANGED <<issued, Open, signer>>
  <2>1. ASSUME NEW t \in Tasks, PrepareStore(t)
        PROVE  Abstract!Next
    BY <1>2, <2>1, StoreOpens
  <2>2. ASSUME NEW t \in Tasks, Handler(t), ~PrepareStore(t), UNCHANGED <<issued, signer>>
        PROVE  Abstract!Next
    BY <1>2, <2>2, OnlyStoreOpens, ShrinkIsDrop
  <2>3. ASSUME NEW t \in Tasks, SignSecret(t) \/ SignMultisig(t), ~UNCHANGED <<issued, signer>>
        PROVE  Abstract!Next
    <3>1. pc[t] \in {"sign_secret", "sign_msig"} /\ Sign(t) /\ UNCHANGED pending
      BY <2>3 DEF SignSecret, SignMultisig, history
    <3> QED
      BY <1>2, <3>1, SignerSigns
  <2>4. ASSUME NEW t \in Tasks, Handler(t), ~PrepareStore(t), ~SignSecret(t), ~SignMultisig(t)
        PROVE  UNCHANGED <<issued, signer>>
    BY <2>4 DEF Handler, OpenStart, OpenInstall, EnableStart, EnableCheck, EnableStore,
       DisableStart, DisableDelete, PrepareStart, PrepareRead, PrepareBuild,
       SignStart, SignTake, SignCheck, SignTotp, Abort, history
  <2>5. CASE CloseWallet \/ UnlockWallet \/ (\E w \in Wallets : SyncWrites(w)) \/ Tick
    <3>1. UNCHANGED <<pending, pc, call, issued, signer>>
      BY <2>5 DEF CloseWallet, UnlockWallet, SyncWrites, Tick, local, history
    <3> QED
      BY <3>1 DEF Open
  <2>6. CASE Restart
    <3>1. Open' = {} /\ UNCHANGED <<issued, signer>>
      BY <2>6 DEF Restart, Open, Claimed, history
    <3> QED
      BY <3>1, ShrinkIsDrop
  <2> QED
    BY <1>2, <2>1, <2>2, <2>3, <2>4, <2>5, <2>6 DEF Next
<1>3. UNCHANGED vars => UNCHANGED <<issued, Open, signer>>
  BY DEF vars, local, history, Open
<1>4. TypeOK /\ IInv /\ [Next]_vars => [Abstract!Next]_(Abstract!vars)
  BY <1>2, <1>3 DEF Abstract!vars
<1> QED
  BY <1>1, <1>4, TypeCorrect, Invariant, PTL DEF Spec, ImplementsOneShotPlans, Abstract!Spec
=============================================================================
