------------------------ MODULE WalletRecordsProofs ------------------------
(***************************************************************************)
(* Proofs about the rows of a wallet file that calls read in one step and  *)
(* write in a later one (the second factor, the keys and payment requests  *)
(* of the accounts, the contacts), about what wallets exchange by way of a *)
(* server (a transaction that is handed round for signatures, labels,      *)
(* messages of a channel), and about the transaction cache.                *)
(***************************************************************************)
EXTENDS MCWalletRecords, FiniteSetTheorems, NaturalsInduction, Sequences, TLAPS

-----------------------------------------------------------------------------
(* The second factor *)

\* A call that goes from one place to another leaves the others where they are.
LEMMA FactorGoes ==
  ASSUME SF!TypeOK, NEW t \in Tasks, NEW next, NEW what, SF!Goto(t, next, what)
  PROVE  /\ pc'[t] = next /\ arg'[t] = what
         /\ \A u \in Tasks \ {t} : pc'[u] = pc[u] /\ arg'[u] = arg[u]
         /\ DOMAIN pc' = Tasks /\ DOMAIN arg' = Tasks
  BY DEF SF!TypeOK, SF!Goto

\* A step starts from a place and ends in one, and only one call takes it.
LEMMA FactorSaw ==
  ASSUME SF!TypeOK, SF!Witness, NEW t \in Tasks, pc'[t] \in SF!Guarded
  PROVE  /\ SF!Now' \subseteq saw'[t]
         /\ pc[t] = "idle" => SF!Now \subseteq saw'[t]
         /\ pc[t] # "idle" => saw[t] \subseteq saw'[t]
  BY DEF SF!Witness

\* Which steps lead to the places where something is about to happen.
LEMMA FactorComes ==
  ASSUME SF!TypeOK, NEW t \in Tasks, SF!Step(t)
  PROVE  /\ \A u \in Tasks \ {t} : pc'[u] = pc[u] /\ arg'[u] = arg[u]
         /\ pc'[t] = "enable_store" => SF!EnableCheck(t)
         /\ pc'[t] = "recover_store" => \E c \in codes : SF!RecoverLoad(t, c)
         /\ pc'[t] = "reveal" =>
              \/ SF!ExportLoad(t)
              \/ \E code \in Secrets \cup {None} : SF!ExportCheck(t, code)
         /\ pc'[t] = "scope_store" =>
              \/ SF!ScopeLoad(t)
              \/ \E new \in SF!Scopes, code \in Secrets \cup {None} : SF!ScopeCheck(t, new, code)
<1> DEFINE Others == \A u \in Tasks \ {t} : pc'[u] = pc[u] /\ arg'[u] = arg[u]
<1>1. ASSUME SF!EnableCheck(t) PROVE Others /\ pc'[t] = "enable_store"
  BY <1>1, FactorGoes DEF SF!EnableCheck
<1>2. ASSUME NEW c \in codes, SF!RecoverLoad(t, c) PROVE Others /\ pc'[t] = "recover_store"
  BY <1>2, FactorGoes DEF SF!RecoverLoad
<1>3. ASSUME SF!RecoverStore(t) PROVE Others /\ pc'[t] = "recover_secret"
  BY <1>3, FactorGoes DEF SF!RecoverStore
<1>4. ASSUME SF!RecoverSecret(t) PROVE Others /\ pc'[t] = "recover_codes"
  BY <1>4, FactorGoes DEF SF!RecoverSecret
<1>5. ASSUME \/ SF!EnableStore(t) \/ SF!RecoverCodes(t) \/ SF!Reveal(t) \/ SF!ScopeStore(t)
             \/ SF!Fail(t)
      PROVE  Others /\ pc'[t] = "idle"
  BY <1>5, FactorGoes
     DEF SF!EnableStore, SF!RecoverCodes, SF!Reveal, SF!ScopeStore, SF!Fail, SF!Return
<1>6. ASSUME NEW code \in Secrets \cup {None}, SF!ExportCheck(t, code)
      PROVE  Others /\ pc'[t] \in {"export_load", "reveal"}
  BY <1>6, FactorGoes DEF SF!ExportCheck
<1>7. ASSUME SF!ExportLoad(t) PROVE Others /\ pc'[t] \in {"idle", "reveal"}
  BY <1>7, FactorGoes DEF SF!ExportLoad, SF!Return
<1>8. ASSUME NEW new \in SF!Scopes, NEW code \in Secrets \cup {None}, SF!ScopeCheck(t, new, code)
      PROVE  Others /\ pc'[t] \in {"scope_load", "scope_store"}
  BY <1>8, FactorGoes DEF SF!ScopeCheck
<1>9. ASSUME SF!ScopeLoad(t) PROVE Others /\ pc'[t] \in {"idle", "scope_store"}
  BY <1>9, FactorGoes DEF SF!ScopeLoad, SF!Return
<1> HIDE DEF Others
<1>10. Others
  BY <1>1, <1>2, <1>3, <1>4, <1>5, <1>6, <1>7, <1>8, <1>9 DEF SF!Step
<1>11. pc'[t] = "enable_store" => SF!EnableCheck(t)
  BY <1>1, <1>2, <1>3, <1>4, <1>5, <1>6, <1>7, <1>8, <1>9 DEF SF!Step
<1>12. pc'[t] = "recover_store" => \E c \in codes : SF!RecoverLoad(t, c)
  BY <1>1, <1>2, <1>3, <1>4, <1>5, <1>6, <1>7, <1>8, <1>9 DEF SF!Step
<1>13. pc'[t] = "reveal" =>
         \/ SF!ExportLoad(t)
         \/ \E code \in Secrets \cup {None} : SF!ExportCheck(t, code)
  BY <1>1, <1>2, <1>3, <1>4, <1>5, <1>6, <1>7, <1>8, <1>9 DEF SF!Step
<1>14. pc'[t] = "scope_store" =>
         \/ SF!ScopeLoad(t)
         \/ \E new \in SF!Scopes, code \in Secrets \cup {None} : SF!ScopeCheck(t, new, code)
  BY <1>1, <1>2, <1>3, <1>4, <1>5, <1>6, <1>7, <1>8, <1>9 DEF SF!Step
<1> QED
  BY <1>10, <1>11, <1>12, <1>13, <1>14 DEF Others

LEMMA FactorInit == ASSUME SF!Init PROVE SF!IInv
<1> USE DEF SF!Init
<1>1. SF!TypeOK
  <2>1. SF!Nothing \in [code : Secrets \cup SF!AllCodes \cup {None},
                       list : SUBSET SF!AllCodes, scope : SF!Scopes]
    BY DEF SF!Nothing, SF!Scopes
  <2>2. 0 \in 0..MaxLists
    BY BoundsAssumption
  <2> QED
    BY <2>1, <2>2 DEF SF!TypeOK, SF!Places, SF!Scopes
<1>2. SF!HeldInv /\ SF!ScopeGuarded /\ SF!RecoveryInv /\ SF!CodesAsHandedOut /\ SF!RevealGuarded
  BY DEF SF!HeldInv, SF!ScopeGuarded, SF!RecoveryInv, SF!CodesAsHandedOut, SF!RevealGuarded,
         SF!Recovering
<1> QED
  BY <1>1, <1>2 DEF SF!IInv

LEMMA FactorTypes ==
  ASSUME SF!TypeOK, SF!HeldInv, SF!Next
  PROVE  SF!TypeOK'
<1> DEFINE Args == [code : Secrets \cup SF!AllCodes \cup {None},
                    list : SUBSET SF!AllCodes, scope : SF!Scopes]
<1> DEFINE Locals == pc \in [Tasks -> SF!Places] /\ arg \in [Tasks -> Args]
<1> DEFINE Rows == /\ secret \in made \cup {None} /\ scope \in SF!Scopes
                   /\ codes \subseteq SF!AllCodes
                   /\ made \subseteq Secrets /\ lists \in 0..MaxLists
                   /\ handed \subseteq SF!AllCodes /\ spent \subseteq SF!AllCodes
                   /\ clash \in BOOLEAN
<1>0. Locals /\ Rows
  BY DEF SF!TypeOK
<1>1. ASSUME NEW t \in Tasks, NEW next \in SF!Places, NEW what \in Args, SF!Goto(t, next, what)
      PROVE  Locals'
  BY <1>0, <1>1 DEF SF!Goto
<1>2. SF!Nothing \in Args /\ "idle" \in SF!Places
  BY DEF SF!Nothing, SF!Scopes, SF!Places
<1>3. ASSUME NEW t \in Tasks, SF!Return(t) PROVE Locals'
  BY <1>1, <1>2, <1>3 DEF SF!Return
<1>4. \A t \in Tasks : arg[t] \in Args
  BY <1>0
<1>5. ASSUME SF!Disable PROVE Locals' /\ Rows'
  BY <1>0, <1>5 DEF SF!Disable, SF!local, SF!history
<1>6. ASSUME SF!Generate PROVE Locals' /\ Rows'
  <2>1. lists' \in 1..MaxLists
    BY <1>0, <1>6, BoundsAssumption DEF SF!Generate
  <2>2. SF!CodesOf(lists') \subseteq SF!AllCodes
    BY <2>1 DEF SF!AllCodes
  <2> QED
    BY <1>0, <1>6, <2>1, <2>2 DEF SF!Generate, SF!local
<1>7. ASSUME NEW t \in Tasks, SF!Step(t) PROVE Locals' /\ Rows'
  <2>1. CASE SF!EnableCheck(t)
    <3>1. PICK s \in Secrets \ made : /\ SF!Goto(t, "enable_store", [SF!Nothing EXCEPT !.code = s])
                                      /\ made' = made \cup {s}
      BY <2>1 DEF SF!EnableCheck
    <3>2. [SF!Nothing EXCEPT !.code = s] \in Args
      BY DEF SF!Nothing, SF!Scopes
    <3>3. Locals'
      BY <3>1, <3>2, <1>1 DEF SF!Places
    <3>4. UNCHANGED <<secret, scope, codes, lists, handed, spent, clash>>
      BY <2>1 DEF SF!EnableCheck, SF!stored
    <3> QED
      BY <1>0, <3>1, <3>3, <3>4
  <2>2. CASE SF!EnableStore(t)
    <3>1. /\ pc[t] = "enable_store" /\ secret' = arg[t].code
          /\ UNCHANGED <<scope, codes, made, lists, handed, spent, clash>>
      BY <2>2 DEF SF!EnableStore, SF!history
    <3>2. arg[t].code \in made
      BY <3>1 DEF SF!HeldInv
    <3>3. Locals'
      BY <2>2, <1>3 DEF SF!EnableStore
    <3> QED
      BY <1>0, <3>1, <3>2, <3>3
  <2>3. ASSUME NEW c \in codes, SF!RecoverLoad(t, c) PROVE Locals' /\ Rows'
    <3>1. [SF!Nothing EXCEPT !.code = c, !.list = codes] \in Args
      BY <1>0 DEF SF!Nothing, SF!Scopes
    <3>2. Locals'
      BY <3>1, <2>3, <1>1 DEF SF!RecoverLoad, SF!Places
    <3> QED
      BY <1>0, <2>3, <3>2 DEF SF!RecoverLoad, SF!stored
  <2>4. CASE SF!RecoverStore(t)
    <3>0. pc[t] = "recover_store"
      BY <2>4 DEF SF!RecoverStore
    <3>1. Locals'
      BY <2>4, <1>1, <1>4 DEF SF!RecoverStore, SF!Places
    <3>2. SF!Without(arg[t].list, arg[t].code) \subseteq SF!AllCodes
      BY <1>4 DEF SF!Without
    <3>3. arg[t].code \in SF!AllCodes
      BY <3>0 DEF SF!HeldInv
    <3> QED
      BY <1>0, <2>4, <3>1, <3>2, <3>3 DEF SF!RecoverStore
  <2>5. CASE SF!RecoverSecret(t)
    BY <1>0, <2>5, <1>1, <1>4 DEF SF!RecoverSecret, SF!Places, SF!history
  <2>6. CASE SF!RecoverCodes(t)
    BY <1>0, <2>6, <1>3 DEF SF!RecoverCodes
  <2>7. ASSUME NEW code \in Secrets \cup {None}, SF!ExportCheck(t, code) PROVE Locals' /\ Rows'
    <3>1. [SF!Nothing EXCEPT !.code = code] \in Args
      BY DEF SF!Nothing, SF!Scopes
    <3>2. Locals'
      BY <3>1, <2>7, <1>1 DEF SF!ExportCheck, SF!Places
    <3> QED
      BY <1>0, <2>7, <3>2 DEF SF!ExportCheck, SF!stored, SF!history
  <2>8. CASE SF!ExportLoad(t)
    <3>1. Locals'
      BY <2>8, <1>1, <1>3, <1>4 DEF SF!ExportLoad, SF!Places
    <3> QED
      BY <1>0, <2>8, <3>1 DEF SF!ExportLoad, SF!stored, SF!history
  <2>9. CASE SF!Reveal(t)
    BY <1>0, <2>9, <1>3 DEF SF!Reveal, SF!stored, SF!history
  <2>10. ASSUME NEW new \in SF!Scopes, NEW code \in Secrets \cup {None},
                SF!ScopeCheck(t, new, code)
         PROVE  Locals' /\ Rows'
    <3>1. [SF!Nothing EXCEPT !.code = code, !.scope = new] \in Args
      BY DEF SF!Nothing, SF!Scopes
    <3>2. Locals'
      BY <3>1, <2>10, <1>1 DEF SF!ScopeCheck, SF!Places
    <3> QED
      BY <1>0, <2>10, <3>2 DEF SF!ScopeCheck, SF!stored, SF!history
  <2>11. CASE SF!ScopeLoad(t)
    <3>1. Locals'
      BY <2>11, <1>1, <1>3, <1>4 DEF SF!ScopeLoad, SF!Places
    <3> QED
      BY <1>0, <2>11, <3>1 DEF SF!ScopeLoad, SF!stored, SF!history
  <2>12. CASE SF!ScopeStore(t)
    <3>1. Locals'
      BY <2>12, <1>3 DEF SF!ScopeStore
    <3>2. scope' \in SF!Scopes
      BY <2>12, <1>4 DEF SF!ScopeStore
    <3> QED
      BY <1>0, <2>12, <3>1, <3>2 DEF SF!ScopeStore, SF!history
  <2>13. CASE SF!Fail(t)
    BY <1>0, <2>13, <1>3 DEF SF!Fail, SF!stored, SF!history
  <2> HIDE DEF Locals, Rows
  <2> QED
    BY <1>7, <2>1, <2>2, <2>3, <2>4, <2>5, <2>6, <2>7, <2>8, <2>9, <2>10, <2>11, <2>12, <2>13
       DEF SF!Step
<1>8. Locals' /\ Rows'
  BY <1>5, <1>6, <1>7 DEF SF!Next
<1>9. saw' \in [Tasks -> SUBSET (Secrets \cup {None} \cup SF!Scopes)]
  <2>1. SF!Now \subseteq Secrets \cup {None} \cup SF!Scopes
    BY <1>0 DEF SF!Now
  <2>2. SF!Now' \subseteq Secrets \cup {None} \cup SF!Scopes
    BY <1>8 DEF SF!Now
  <2>3. \A t \in Tasks : saw[t] \subseteq Secrets \cup {None} \cup SF!Scopes
    BY DEF SF!TypeOK
  <2> QED
    BY <2>1, <2>2, <2>3 DEF SF!Next, SF!Witness
<1> QED
  BY <1>8, <1>9 DEF SF!TypeOK

\* Recoveries that do not meet another writer of the codes.
LEMMA RecoveriesApart ==
  ASSUME SF!TypeOK, SF!RecoveryInv, SF!CodesAsHandedOut, SF!Next
  PROVE  SF!RecoveryInv' /\ SF!CodesAsHandedOut'
<1> SUFFICES ASSUME ~clash'
             PROVE  /\ \A t, u \in SF!Recovering' : t = u
                    /\ \A t \in Tasks : pc'[t] = "recover_store" => arg'[t].list = codes'
                    /\ codes' = handed' \ spent'
  BY DEF SF!RecoveryInv, SF!CodesAsHandedOut
<1> DEFINE Places == {"recover_store", "recover_secret", "recover_codes"}
<1>0. \A t : t \in SF!Recovering <=> t \in Tasks /\ pc[t] \in Places
  BY DEF SF!Recovering
<1>00. \A t : t \in SF!Recovering' <=> t \in Tasks /\ pc'[t] \in Places
  BY DEF SF!Recovering
<1>1. CASE SF!Generate
  <2>1. SF!Recovering = {} /\ pc' = pc
    BY <1>1 DEF SF!Generate, SF!local
  <2>2. \A t \in Tasks : pc'[t] \notin Places
    BY <1>0, <2>1
  <2> QED
    BY <1>00, <1>1, <2>2 DEF SF!Generate
<1> DEFINE Before == /\ ~clash /\ codes = handed \ spent
                     /\ \A t, u \in SF!Recovering : t = u
                     /\ \A t \in Tasks : pc[t] = "recover_store" => arg[t].list = codes
<1>2. ~clash => Before
  BY DEF SF!RecoveryInv, SF!CodesAsHandedOut
<1>3. CASE SF!Disable
  <2>1. Before
    BY <1>2, <1>3 DEF SF!Disable, SF!history
  <2> QED
    BY <1>0, <1>00, <1>3, <2>1 DEF SF!Disable, SF!local, SF!history
<1>4. ASSUME NEW t \in Tasks, SF!Step(t)
      PROVE  /\ \A u, v \in SF!Recovering' : u = v
             /\ \A u \in Tasks : pc'[u] = "recover_store" => arg'[u].list = codes'
             /\ codes' = handed' \ spent'
  <2>0. Before
    <3>1. clash => clash'
      BY <1>4 DEF SF!Step, SF!EnableCheck, SF!EnableStore, SF!RecoverLoad, SF!RecoverStore,
       SF!RecoverSecret, SF!RecoverCodes, SF!ExportCheck, SF!ExportLoad, SF!Reveal,
       SF!ScopeCheck, SF!ScopeLoad, SF!ScopeStore, SF!Fail, SF!history
    <3> QED
      BY <1>2, <3>1
  <2>1. \A u \in Tasks \ {t} : pc'[u] = pc[u] /\ arg'[u] = arg[u]
    BY <1>4, FactorComes
  <2>2. CASE \E c \in codes : SF!RecoverLoad(t, c)
    <3>1. PICK c \in codes : SF!RecoverLoad(t, c)
      BY <2>2
    <3>2. arg'[t] = [SF!Nothing EXCEPT !.code = c, !.list = codes] /\ codes' = codes
          /\ SF!Recovering = {}
      BY <3>1, FactorGoes DEF SF!RecoverLoad, SF!stored
    <3>3. arg'[t].list = codes'
      BY <3>2 DEF SF!Nothing
    <3>4. \A u \in Tasks : pc[u] \notin Places
      BY <1>0, <3>2
    <3>5. \A u \in Tasks \ {t} : pc'[u] \notin Places
      BY <2>1, <3>4
    <3> QED
      BY <1>00, <2>0, <3>1, <3>2, <3>3, <3>5 DEF SF!RecoverLoad
  <2>3. CASE SF!RecoverStore(t)
    <3>1. pc[t] = "recover_store" /\ pc'[t] = "recover_secret" /\ arg[t].list = codes
          /\ codes' = codes \ {arg[t].code} /\ spent' = spent \cup {arg[t].code}
          /\ handed' = handed
      BY <2>0, <2>3, FactorGoes DEF SF!RecoverStore, SF!Without
    <3>2. \A u \in Tasks \ {t} : pc[u] \notin Places
      BY <1>0, <2>0, <3>1
    <3>3. \A u \in Tasks \ {t} : pc'[u] \notin Places
      BY <2>1, <3>2
    <3>4. codes' = handed' \ spent'
      BY <2>0, <3>1
    <3> QED
      BY <1>00, <3>1, <3>3, <3>4
  <2>4. CASE SF!RecoverCodes(t)
    <3>1. pc[t] = "recover_codes" /\ pc'[t] = "idle" /\ codes' = {} /\ handed' = {} /\ spent' = {}
      BY <2>4, FactorGoes DEF SF!RecoverCodes, SF!Return
    <3>2. \A u \in Tasks \ {t} : pc[u] \notin Places
      BY <1>0, <2>0, <3>1
    <3>3. \A u \in Tasks \ {t} : pc'[u] \notin Places
      BY <2>1, <3>2
    <3> QED
      BY <1>00, <3>1, <3>3
  <2> DEFINE Elsewhere == /\ pc'[t] # "recover_store" /\ (pc'[t] \in Places => pc[t] \in Places)
                          /\ codes' = codes /\ handed' = handed /\ spent' = spent
  <2>5. ASSUME Elsewhere
        PROVE  /\ \A u, v \in SF!Recovering' : u = v
               /\ \A u \in Tasks : pc'[u] = "recover_store" => arg'[u].list = codes'
               /\ codes' = handed' \ spent'
    <3>1. \A u \in Tasks : pc'[u] \in Places => pc[u] \in Places
      BY <2>1, <2>5
    <3>2. SF!Recovering' \subseteq SF!Recovering
      BY <1>0, <1>00, <3>1
    <3> QED
      BY <2>0, <2>1, <2>5, <3>2
  <2>6. ASSUME SF!RecoverSecret(t) PROVE Elsewhere
    BY <2>6, FactorGoes DEF SF!RecoverSecret, SF!history
  <2>7. ASSUME SF!EnableCheck(t) PROVE Elsewhere
    BY <2>7, FactorGoes DEF SF!EnableCheck, SF!stored
  <2>8. ASSUME SF!EnableStore(t) PROVE Elsewhere
    BY <2>8, FactorGoes DEF SF!EnableStore, SF!Return, SF!history
  <2>9. ASSUME NEW code \in Secrets \cup {None}, SF!ExportCheck(t, code) PROVE Elsewhere
    BY <2>9, FactorGoes DEF SF!ExportCheck, SF!stored, SF!history
  <2>10. ASSUME SF!ExportLoad(t) PROVE Elsewhere
    BY <2>10, FactorGoes DEF SF!ExportLoad, SF!Return, SF!stored, SF!history
  <2>11. ASSUME SF!Reveal(t) \/ SF!Fail(t) PROVE Elsewhere
    BY <2>11, FactorGoes DEF SF!Reveal, SF!Fail, SF!Return, SF!stored, SF!history
  <2>12. ASSUME NEW new \in SF!Scopes, NEW code \in Secrets \cup {None},
                SF!ScopeCheck(t, new, code)
         PROVE  Elsewhere
    BY <2>12, FactorGoes DEF SF!ScopeCheck, SF!stored, SF!history
  <2>13. ASSUME SF!ScopeLoad(t) PROVE Elsewhere
    BY <2>13, FactorGoes DEF SF!ScopeLoad, SF!Return, SF!stored, SF!history
  <2>14. ASSUME SF!ScopeStore(t) PROVE Elsewhere
    BY <2>14, FactorGoes DEF SF!ScopeStore, SF!Return, SF!history
  <2> HIDE DEF Elsewhere
  <2>15. \/ Elsewhere \/ SF!RecoverStore(t) \/ SF!RecoverCodes(t)
         \/ \E c \in codes : SF!RecoverLoad(t, c)
    BY <1>4, <2>6, <2>7, <2>8, <2>9, <2>10, <2>11, <2>12, <2>13, <2>14 DEF SF!Step
  <2> QED
    BY <2>2, <2>3, <2>4, <2>5, <2>15
<1> QED
  BY <1>1, <1>3, <1>4 DEF SF!Next

\* The whole invariant; what a call sees stored while it is on its way stays seen.
LEMMA FactorInvNext ==
  ASSUME SF!IInv, SF!Next
  PROVE  SF!IInv'
<1> USE DEF SF!IInv
<1>1. SF!TypeOK'
  BY FactorTypes
<1>2. \A t \in Tasks : pc'[t] \in SF!Guarded =>
        /\ SF!Now' \subseteq saw'[t]
        /\ pc[t] = "idle" => SF!Now \subseteq saw'[t]
        /\ pc[t] # "idle" => saw[t] \subseteq saw'[t]
  BY FactorSaw DEF SF!Next
<1>3. ASSUME NEW t \in Tasks
      PROVE  SF!Step(t) \/ (pc'[t] = pc[t] /\ arg'[t] = arg[t])
  BY FactorComes DEF SF!Next, SF!Disable, SF!Generate, SF!local
<1>4. SF!HeldInv'
  <2> SUFFICES ASSUME NEW t \in Tasks
               PROVE  /\ pc'[t] = "enable_store" => arg'[t].code \in made' /\ None \in saw'[t]
                      /\ pc'[t] = "recover_store" => arg'[t].code \in SF!AllCodes
    BY SMTT(30) DEF SF!HeldInv
  <2>1. made \subseteq made'
    BY DEF SF!Next, SF!Step, SF!Disable, SF!Generate, SF!EnableCheck, SF!EnableStore,
       SF!RecoverLoad, SF!RecoverStore, SF!RecoverSecret, SF!RecoverCodes, SF!ExportCheck,
       SF!ExportLoad, SF!Reveal, SF!ScopeCheck, SF!ScopeLoad, SF!ScopeStore, SF!Fail, SF!history
  <2>2. CASE pc'[t] = pc[t] /\ arg'[t] = arg[t]
    <3>1. pc[t] = "enable_store" => saw[t] \subseteq saw'[t]
      BY <1>2, <2>2 DEF SF!Guarded
    <3>2. pc[t] = "enable_store" => arg[t].code \in made /\ None \in saw[t]
      BY DEF SF!HeldInv
    <3>3. pc[t] = "recover_store" => arg[t].code \in SF!AllCodes
      BY DEF SF!HeldInv
    <3> QED
      BY <2>1, <2>2, <3>1, <3>2, <3>3
  <2>3. CASE SF!Step(t)
    <3>1. ASSUME pc'[t] = "enable_store"
          PROVE  arg'[t].code \in made' /\ secret = None /\ pc[t] = "idle"
      <4>1. SF!EnableCheck(t)
        BY <2>3, <3>1, FactorComes
      <4>2. PICK s \in Secrets \ made :
              /\ SF!Goto(t, "enable_store", [SF!Nothing EXCEPT !.code = s])
              /\ made' = made \cup {s}
        BY <4>1 DEF SF!EnableCheck
      <4>3. arg'[t] = [SF!Nothing EXCEPT !.code = s]
        BY <4>2, FactorGoes
      <4> QED
        BY <4>1, <4>2, <4>3 DEF SF!EnableCheck, SF!Nothing
    <3>2. ASSUME pc'[t] = "recover_store" PROVE arg'[t].code \in SF!AllCodes
      <4>1. PICK c \in codes : SF!RecoverLoad(t, c)
        BY <2>3, <3>2, FactorComes
      <4>2. arg'[t] = [SF!Nothing EXCEPT !.code = c, !.list = codes]
        BY <4>1, FactorGoes DEF SF!RecoverLoad
      <4> QED
        BY <4>2 DEF SF!Nothing, SF!TypeOK
    <3> QED
      BY <1>2, <3>1, <3>2 DEF SF!Guarded, SF!Now
  <2> QED
    BY <1>3, <2>2, <2>3
<1>5. SF!RevealGuarded'
  <2> SUFFICES ASSUME NEW t \in Tasks, pc'[t] = "reveal"
               PROVE  None \in saw'[t] \/ arg'[t].code \in saw'[t]
    BY DEF SF!RevealGuarded
  <2>1. CASE pc'[t] = pc[t] /\ arg'[t] = arg[t]
    BY <1>2, <2>1 DEF SF!RevealGuarded, SF!Guarded
  <2>2. CASE SF!Step(t)
    <3>1. \/ SF!ExportLoad(t)
          \/ \E code \in Secrets \cup {None} : SF!ExportCheck(t, code)
      BY <2>2, FactorComes
    <3>2. CASE SF!ExportLoad(t)
      <4>1. SF!Passes(t) /\ arg'[t] = arg[t]
        BY <3>2, FactorGoes DEF SF!ExportLoad, SF!Return
      <4> QED
        BY <1>2, <3>2, <4>1 DEF SF!Passes, SF!ExportLoad, SF!stored, SF!Now, SF!Guarded
    <3>3. ASSUME NEW code \in Secrets \cup {None}, SF!ExportCheck(t, code)
          PROVE  None \in saw'[t]
      <4>1. ~SF!Enrolled /\ pc[t] = "idle"
        BY <3>3, FactorGoes DEF SF!ExportCheck
      <4> QED
        BY <1>2, <4>1 DEF SF!Enrolled, SF!Now, SF!Guarded
    <3> QED
      BY <3>1, <3>2, <3>3
  <2> QED
    BY <1>3, <2>1, <2>2
<1>6. SF!ScopeGuarded'
  <2> SUFFICES ASSUME NEW t \in Tasks, pc'[t] = "scope_store", arg'[t].scope = "login"
               PROVE  "login" \in saw'[t] \/ arg'[t].code \in saw'[t] \ {None}
    BY DEF SF!ScopeGuarded
  <2>1. CASE pc'[t] = pc[t] /\ arg'[t] = arg[t]
    BY <1>2, <2>1 DEF SF!ScopeGuarded, SF!Guarded
  <2>2. CASE SF!Step(t)
    <3>1. \/ SF!ScopeLoad(t)
          \/ \E new \in SF!Scopes, code \in Secrets \cup {None} : SF!ScopeCheck(t, new, code)
      BY <2>2, FactorComes
    <3>2. CASE SF!ScopeLoad(t)
      <4>1. SF!Passes(t) /\ arg'[t] = arg[t]
        BY <3>2, FactorGoes DEF SF!ScopeLoad, SF!Return
      <4> QED
        BY <1>2, <3>2, <4>1 DEF SF!Passes, SF!ScopeLoad, SF!stored, SF!Now, SF!Guarded
    <3>3. ASSUME NEW new \in SF!Scopes, NEW code \in Secrets \cup {None},
                 SF!ScopeCheck(t, new, code)
          PROVE  "login" \in saw'[t]
      <4>1. ~SF!Lowers(new) /\ pc[t] = "idle"
            /\ arg'[t] = [SF!Nothing EXCEPT !.code = code, !.scope = new]
        BY <3>3, FactorGoes DEF SF!ScopeCheck
      <4>2. new = "login"
        BY <4>1 DEF SF!Nothing
      <4>3. scope = "login"
        BY <4>1, <4>2 DEF SF!Lowers, SF!TypeOK, SF!Scopes
      <4> QED
        BY <1>2, <4>1, <4>3 DEF SF!Now, SF!Guarded
    <3> QED
      BY <3>1, <3>2, <3>3
  <2> QED
    BY <1>3, <2>1, <2>2
<1>7. SF!RecoveryInv' /\ SF!CodesAsHandedOut'
  BY RecoveriesApart
<1> QED
  BY <1>1, <1>4, <1>5, <1>6, <1>7

\* Who lowers the scope, and who replaces the secret.
LEMMA FactorStep ==
  ASSUME SF!IInv, SF!Next
  PROVE  /\ scope = "tx" /\ scope' = "login" => SF!ByCode
         /\ secret # None /\ secret' \notin {secret, None} => SF!ByEnrolment
<1> USE DEF SF!IInv
<1>1. ASSUME scope # scope' PROVE \E t \in Tasks : SF!ScopeStore(t)
  BY <1>1 DEF SF!Next, SF!Step, SF!Disable, SF!Generate, SF!EnableCheck, SF!EnableStore,
     SF!RecoverLoad, SF!RecoverStore, SF!RecoverSecret, SF!RecoverCodes, SF!ExportCheck,
     SF!ExportLoad, SF!Reveal, SF!ScopeCheck, SF!ScopeLoad, SF!Fail, SF!stored
<1>2. ASSUME secret' \notin {secret, None} PROVE \E t \in Tasks : SF!EnableStore(t)
  BY <1>2 DEF SF!Next, SF!Step, SF!Disable, SF!Generate, SF!EnableCheck, SF!ScopeStore,
     SF!RecoverLoad, SF!RecoverStore, SF!RecoverSecret, SF!RecoverCodes, SF!ExportCheck,
     SF!ExportLoad, SF!Reveal, SF!ScopeCheck, SF!ScopeLoad, SF!Fail, SF!stored
<1>3. ASSUME scope = "tx", scope' = "login" PROVE SF!ByCode
  <2>1. PICK t \in Tasks : SF!ScopeStore(t)
    BY <1>1, <1>3
  <2>2. pc[t] = "scope_store" /\ arg[t].scope = "login" /\ pc'[t] = "idle"
    BY <1>3, <2>1, FactorGoes DEF SF!ScopeStore, SF!Return
  <2> QED
    BY <2>2 DEF SF!ScopeGuarded, SF!ByCode
<1>4. ASSUME secret' \notin {secret, None} PROVE SF!ByEnrolment
  <2>1. PICK t \in Tasks : SF!EnableStore(t)
    BY <1>2, <1>4
  <2>2. pc[t] = "enable_store" /\ pc'[t] = "idle"
    BY <2>1, FactorGoes DEF SF!EnableStore, SF!Return
  <2> QED
    BY <2>2 DEF SF!HeldInv, SF!ByEnrolment
<1> QED
  BY <1>3, <1>4

-----------------------------------------------------------------------------
(* Keys and payment requests *)

KeyRows == [account : Nat, index : Nat \cup {None}, began : Nat]
KeyArgs == [account : Nat, index : Nat \cup {None}, row : Nat, request : BOOLEAN]
KeyPlaces == {"idle", "insert_key", "insert_request", "insert_config"}

\* The count of the module is that of the library.
LEMMA KeyCount == \A S : AK!Cardinality(S) = Cardinality(S)
  BY DEF AK!Cardinality, Cardinality

\* The rows of an account are finitely many, and the count is a number.
LEMMA RowsCounted ==
  ASSUME AK!LocalsOK, NEW a
  PROVE  /\ IsFiniteSet(AK!ReceivingRows(a)) /\ AK!ReceivingRows(a) \subseteq 1..Len(keys)
         /\ AK!receiving_count(a) \in Nat
         /\ AK!receiving_count(a) = Cardinality(AK!ReceivingRows(a))
         /\ Len(keys) \in Nat /\ DOMAIN keys = 1..Len(keys)
<1>1. keys \in Seq(KeyRows)
  BY DEF AK!LocalsOK, KeyRows
<1>2. Len(keys) \in Nat /\ DOMAIN keys = 1..Len(keys)
  BY <1>1
<1>3. AK!ReceivingRows(a) \subseteq 1..Len(keys)
  BY <1>2 DEF AK!ReceivingRows
<1>4. IsFiniteSet(1..Len(keys))
  BY <1>2, FS_Interval
<1>5. IsFiniteSet(AK!ReceivingRows(a))
  BY <1>3, <1>4, FS_Subset
<1>6. AK!receiving_count(a) = Cardinality(AK!ReceivingRows(a))
  BY KeyCount DEF AK!receiving_count
<1> QED
  BY <1>2, <1>3, <1>5, <1>6, FS_CardinalityType

\* What one more row changes, and what it leaves.
LEMMA RowAdded ==
  ASSUME AK!LocalsOK, NEW k \in KeyRows, keys' = Append(keys, k)
  PROVE  /\ keys' \in Seq(KeyRows) /\ Len(keys') = Len(keys) + 1
         /\ DOMAIN keys' = 1..(Len(keys) + 1)
         /\ keys'[Len(keys) + 1] = k /\ \A i \in DOMAIN keys : keys'[i] = keys[i]
         /\ \A a : a # k.account \/ k.index = None =>
              /\ AK!ReceivingRows(a)' = AK!ReceivingRows(a)
              /\ AK!receiving_count(a)' = AK!receiving_count(a)
         /\ k.index # None =>
              /\ AK!ReceivingRows(k.account)' = AK!ReceivingRows(k.account) \cup {Len(keys) + 1}
              /\ AK!receiving_count(k.account)' = AK!receiving_count(k.account) + 1
<1> DEFINE n == Len(keys)
<1>1. keys \in Seq(KeyRows)
  BY DEF AK!LocalsOK, KeyRows
<1>2. /\ keys' \in Seq(KeyRows) /\ Len(keys') = n + 1 /\ n \in Nat
      /\ DOMAIN keys' = 1..(n + 1) /\ DOMAIN keys = 1..n
      /\ keys'[n + 1] = k /\ \A i \in 1..n : keys'[i] = keys[i]
  BY <1>1
<1>3. \A i : i \in DOMAIN keys' <=> i \in DOMAIN keys \/ i = n + 1
  BY <1>2
<1>4. ASSUME NEW a, a # k.account \/ k.index = None
      PROVE  AK!ReceivingRows(a)' = AK!ReceivingRows(a)
  BY <1>2, <1>3, <1>4 DEF AK!ReceivingRows
<1>5. ASSUME k.index # None
      PROVE  AK!ReceivingRows(k.account)' = AK!ReceivingRows(k.account) \cup {n + 1}
  BY <1>2, <1>3, <1>5 DEF AK!ReceivingRows
<1>6. \A a : AK!receiving_count(a)' = Cardinality(AK!ReceivingRows(a)')
  BY KeyCount DEF AK!receiving_count
<1>7. ASSUME k.index # None
      PROVE  AK!receiving_count(k.account)' = AK!receiving_count(k.account) + 1
  <2>1. n + 1 \notin AK!ReceivingRows(k.account)
    BY <1>2 DEF AK!ReceivingRows
  <2> QED
    BY <1>5, <1>6, <1>7, <2>1, RowsCounted, FS_AddElement
<1> QED
  BY <1>2, <1>4, <1>5, <1>6, <1>7, RowsCounted

\* A call that goes from one place to another leaves the others where they are.
LEMMA KeysGoes ==
  ASSUME AK!LocalsOK, NEW t \in Tasks, NEW next, NEW what, AK!Goto(t, next, what)
  PROVE  /\ pc'[t] = next /\ arg'[t] = what
         /\ \A u \in Tasks \ {t} : pc'[u] = pc[u] /\ arg'[u] = arg[u]
         /\ next \in KeyPlaces => pc' \in [Tasks -> KeyPlaces]
         /\ what \in KeyArgs => arg' \in [Tasks -> KeyArgs]
  BY DEF AK!LocalsOK, AK!Goto, KeyPlaces, KeyArgs

LEMMA KeysInit == ASSUME AK!Init PROVE AK!IInv
<1> USE DEF AK!Init
<1>1. Len(<<"p2pkh">>) = 1 /\ DOMAIN <<"p2pkh">> = 1..1 /\ <<"p2pkh">> \in Seq({"p2pkh", "multisig"})
  OBVIOUS
<1>2. Len(<<>>) = 0 /\ DOMAIN <<>> = {}
  OBVIOUS
<1>3. AK!TypeOK
  BY <1>1, <1>2, BoundsAssumption DEF AK!TypeOK
<1>4. AK!LocalsOK
  BY DEF AK!LocalsOK, AK!Nothing
<1>5. AK!Inserting = {} /\ AK!Requesting = {}
  BY DEF AK!Inserting, AK!Requesting
<1>6. AK!RoomInv
  BY <1>2, <1>5, KeyCount, FS_EmptySet, BoundsAssumption DEF AK!RoomInv
<1>7. AK!CountInv /\ AK!IndexInv /\ AK!AloneInv /\ AK!RowInv /\ AK!ConfigInv
  <2>1. \A a : AK!Deriving(a) = {} /\ AK!ReceivingRows(a) = {}
    BY <1>2 DEF AK!Deriving, AK!ReceivingRows
  <2> QED
    BY <1>2, <1>5, <2>1 DEF AK!CountInv, AK!IndexInv, AK!AloneInv, AK!RowInv, AK!ConfigInv
<1>8. AK!FreshAddress /\ AK!RequestsApart /\ AK!DenseWhenAlone
  BY <1>2 DEF AK!FreshAddress, AK!RequestsApart, AK!DenseWhenAlone, AK!ReceivingRows
<1> QED
  BY <1>3, <1>4, <1>6, <1>7, <1>8 DEF AK!IInv

\* Rows and locals keep their types, and no more rows are on their way than fit.
LEMMA KeysTypes ==
  ASSUME AK!IInv, AK!Next
  PROVE  AK!TypeOK' /\ AK!LocalsOK' /\ AK!RoomInv' /\ AK!ConfigInv'
<1> USE DEF AK!IInv
<1> DEFINE Rows == /\ accounts \in Seq({"p2pkh", "multisig"}) /\ Len(accounts) \in 1..MaxAccounts
                   /\ configs \subseteq DOMAIN accounts
                   /\ \A i \in DOMAIN keys : keys[i].account \in DOMAIN accounts
                   /\ \A i \in DOMAIN requests : requests[i] \in DOMAIN keys
                   /\ clash \subseteq DOMAIN accounts
                   /\ keys \in Seq(KeyRows) /\ requests \in Seq(Nat) /\ began \in [Tasks -> Nat]
<1> DEFINE Locals == pc \in [Tasks -> KeyPlaces] /\ arg \in [Tasks -> KeyArgs]
<1> DEFINE Goal == Rows' /\ Locals' /\ AK!RoomInv' /\ AK!ConfigInv'
<1>0. Rows /\ Locals
  BY DEF AK!TypeOK, AK!LocalsOK, KeyRows, KeyArgs, KeyPlaces
<1>1. ASSUME Goal PROVE AK!TypeOK' /\ AK!LocalsOK' /\ AK!RoomInv' /\ AK!ConfigInv'
  <2>1. AK!LocalsOK'
    BY <1>1 DEF AK!LocalsOK, KeyRows, KeyArgs, KeyPlaces
  <2>2. IsFiniteSet(AK!Inserting')
    BY TasksAssumption, FS_Subset DEF AK!Inserting
  <2>3. Len(keys') \in Nat /\ AK!Cardinality(AK!Inserting') \in Nat
    BY <1>1, <2>2, KeyCount, FS_CardinalityType
  <2>4. Len(keys') + AK!Cardinality(AK!Inserting') <= MaxKeys
    BY <1>1, KeyCount DEF AK!RoomInv, AK!Cardinality, Cardinality
  <2>5. Len(keys') <= MaxKeys
    BY <2>3, <2>4, BoundsAssumption
  <2>6. AK!TypeOK'
    BY <1>1, <2>5 DEF AK!TypeOK
  <2> QED
    BY <1>1, <2>1, <2>6
<1>2. IsFiniteSet(AK!Inserting) /\ Cardinality(AK!Inserting) \in Nat /\ Len(keys) \in Nat
  <2>1. AK!Inserting \subseteq Tasks
    BY DEF AK!Inserting
  <2>2. IsFiniteSet(AK!Inserting)
    BY <2>1, TasksAssumption, FS_Subset
  <2> QED
    BY <1>0, <2>2, FS_CardinalityType
<1>3. AK!RoomInv <=> Len(keys) + Cardinality(AK!Inserting) <= MaxKeys
  BY KeyCount DEF AK!RoomInv
<1>4. AK!RoomInv' <=> Len(keys') + Cardinality(AK!Inserting') <= MaxKeys
  BY KeyCount DEF AK!RoomInv
<1>5. AK!Nothing \in KeyArgs /\ \A t \in Tasks : arg[t] \in KeyArgs
  BY <1>0 DEF AK!Nothing, KeyArgs
\* A call that is not about to insert a row leaves room as it was.
<1>6. ASSUME NEW t \in Tasks, NEW next \in KeyPlaces \ {"insert_key"}, NEW what \in KeyArgs,
             AK!Goto(t, next, what), keys' = keys, DOMAIN accounts \subseteq DOMAIN accounts',
             next = "insert_config" => what.account \in DOMAIN accounts'
      PROVE  Locals' /\ AK!RoomInv' /\ AK!ConfigInv'
  <2>1. Locals'
    BY <1>6, KeysGoes
  <2>2. AK!Inserting' \subseteq AK!Inserting
    BY <1>6, KeysGoes DEF AK!Inserting
  <2>3. Cardinality(AK!Inserting') <= Cardinality(AK!Inserting) /\ Cardinality(AK!Inserting') \in Nat
    BY <1>2, <2>2, FS_Subset, FS_CardinalityType
  <2>4. AK!RoomInv'
    BY <1>2, <1>3, <1>4, <1>6, <2>3, BoundsAssumption
  <2>5. AK!ConfigInv'
    BY <1>6, KeysGoes DEF AK!ConfigInv
  <2> QED
    BY <2>1, <2>4, <2>5
<1>7. ASSUME NEW t \in Tasks, NEW a \in DOMAIN accounts, NEW request \in BOOLEAN,
             AK!NextIndex(t, a, request)
      PROVE  Goal
  <2> DEFINE what == [AK!Nothing EXCEPT !.account = a, !.index = AK!receiving_count(a),
                                        !.request = request]
  <2>1. AK!Goto(t, "insert_key", what) /\ pc[t] = "idle" /\ UNCHANGED <<accounts, configs, keys, requests>>
        /\ Len(keys) + Cardinality(AK!Inserting) < MaxKeys
        /\ began' = [began EXCEPT ![t] = Len(keys)]
        /\ clash' \subseteq clash \cup {a}
    BY <1>7, KeyCount DEF AK!NextIndex, AK!tables, AK!Inserting
  <2>2. a \in Nat /\ AK!receiving_count(a) \in Nat
    BY <1>0, RowsCounted
  <2>3. what \in KeyArgs
    BY <2>2 DEF AK!Nothing, KeyArgs
  <2> HIDE DEF what
  <2>4. Locals'
    BY <2>1, <2>3, KeysGoes DEF KeyPlaces
  <2>5. AK!Inserting' = AK!Inserting \cup {t} /\ t \notin AK!Inserting
    BY <2>1, KeysGoes DEF AK!Inserting
  <2>6. Cardinality(AK!Inserting') = Cardinality(AK!Inserting) + 1
    BY <1>2, <2>5, FS_AddElement
  <2>7. AK!RoomInv'
    BY <1>2, <1>4, <2>1, <2>6, BoundsAssumption
  <2>8. AK!ConfigInv'
    BY <2>1, KeysGoes DEF AK!ConfigInv
  <2>9. Rows'
    BY <1>0, <1>2, <2>1
  <2> QED
    BY <2>4, <2>7, <2>8, <2>9
<1>8. ASSUME NEW t \in Tasks, AK!InsertKey(t) PROVE Goal
  <2> DEFINE k == [account |-> arg[t].account, index |-> arg[t].index, began |-> began[t]]
  <2>1. pc[t] = "insert_key" /\ keys' = Append(keys, k)
        /\ UNCHANGED <<accounts, configs, requests, clash, began>>
    BY <1>8 DEF AK!InsertKey, AK!history
  <2>2. k \in KeyRows
    BY <1>0 DEF KeyRows, KeyArgs
  <2>3. arg[t].account \in DOMAIN accounts
    BY <2>1 DEF AK!IndexInv, AK!Inserting
  <2>4. k.account \in DOMAIN accounts
    BY <2>3
  <2> HIDE DEF k
  <2>5. /\ keys' \in Seq(KeyRows) /\ Len(keys') = Len(keys) + 1
        /\ \A i \in DOMAIN keys' : (i \in DOMAIN keys /\ keys'[i] = keys[i]) \/ keys'[i] = k
        /\ DOMAIN keys \subseteq DOMAIN keys'
    BY <1>0, <2>1, <2>2, SMTT(30)
  <2>6. PICK next \in {"idle", "insert_request"}, what \in KeyArgs : AK!Goto(t, next, what)
    <3>1. CASE arg[t].request
      <4> DEFINE what == [arg[t] EXCEPT !.row = Len(keys')]
      <4>1. AK!Goto(t, "insert_request", what)
        BY <1>8, <3>1 DEF AK!InsertKey
      <4>2. Len(keys') \in Nat
        BY <1>2, <2>5
      <4>3. what \in KeyArgs
        BY <1>5, <4>2 DEF KeyArgs
      <4> HIDE DEF what
      <4> QED
        BY <4>1, <4>3
    <3>2. CASE ~arg[t].request
      <4>1. AK!Goto(t, "idle", AK!Nothing)
        BY <1>8, <3>2 DEF AK!InsertKey, AK!Return
      <4> QED
        BY <4>1, <1>5
    <3> QED
      BY <3>1, <3>2
  <2>7. Locals'
    BY <2>6, KeysGoes DEF KeyPlaces
  <2>8. AK!Inserting' = AK!Inserting \ {t} /\ t \in AK!Inserting
    BY <2>1, <2>6, KeysGoes DEF AK!Inserting
  <2>9. Cardinality(AK!Inserting') = Cardinality(AK!Inserting) - 1
    BY <1>2, <2>8, FS_RemoveElement
  <2>10. AK!RoomInv'
    BY <1>2, <1>3, <1>4, <2>5, <2>9, BoundsAssumption
  <2>11. AK!ConfigInv'
    BY <2>1, <2>6, KeysGoes DEF AK!ConfigInv
  <2>12. Rows'
    BY <1>0, <2>1, <2>4, <2>5
  <2> QED
    BY <2>7, <2>10, <2>11, <2>12
<1>9. ASSUME NEW t \in Tasks, AK!InsertRequest(t) PROVE Goal
  <2>1. pc[t] = "insert_request" /\ requests' = Append(requests, arg[t].row)
        /\ AK!Goto(t, "idle", AK!Nothing)
        /\ UNCHANGED <<accounts, configs, keys, clash, began>>
    BY <1>9 DEF AK!InsertRequest, AK!history, AK!Return
  <2>2. arg[t].row \in DOMAIN keys /\ arg[t].row \in Nat
    BY <1>0, <2>1 DEF AK!RowInv, AK!Requesting
  <2>3. requests' \in Seq(Nat) /\ \A i \in DOMAIN requests' : requests'[i] \in DOMAIN keys'
    BY <1>0, <2>1, <2>2
  <2>4. Rows'
    BY <1>0, <2>1, <2>3
  <2> QED
    BY <1>5, <1>6, <2>1, <2>4 DEF KeyPlaces
<1>10. ASSUME AK!ImportPrivkey PROVE Goal
  <2> DEFINE k == [account |-> 1, index |-> None, began |-> Len(keys)]
  <2>1. Len(keys) + Cardinality(AK!Inserting) < MaxKeys /\ keys' = Append(keys, k)
        /\ UNCHANGED <<accounts, configs, requests, pc, arg, clash, began>>
    BY <1>10, KeyCount DEF AK!ImportPrivkey, AK!history, AK!Inserting
  <2>2. k \in KeyRows /\ k.account \in DOMAIN accounts
    BY <1>0, <1>2 DEF KeyRows
  <2> HIDE DEF k
  <2>3. /\ keys' \in Seq(KeyRows) /\ Len(keys') = Len(keys) + 1
        /\ \A i \in DOMAIN keys' : (i \in DOMAIN keys /\ keys'[i] = keys[i]) \/ keys'[i] = k
        /\ DOMAIN keys \subseteq DOMAIN keys'
    BY <1>0, <2>1, <2>2
  <2>4. AK!Inserting' = AK!Inserting
    BY <2>1 DEF AK!Inserting
  <2>5. AK!RoomInv'
    BY <1>2, <1>4, <2>1, <2>3, <2>4, BoundsAssumption
  <2>6. AK!ConfigInv' /\ Locals'
    BY <1>0, <2>1 DEF AK!ConfigInv
  <2>7. Rows'
    BY <1>0, <2>1, <2>2, <2>3
  <2> QED
    BY <2>5, <2>6, <2>7
<1>11. ASSUME NEW t \in Tasks, AK!InsertAccount(t) PROVE Goal
  <2> DEFINE what == [AK!Nothing EXCEPT !.account = Len(accounts')]
  <2>1. pc[t] = "idle" /\ Len(accounts) < MaxAccounts /\ accounts' = Append(accounts, "multisig")
        /\ AK!Goto(t, "insert_config", what) /\ UNCHANGED <<configs, keys, requests, clash, began>>
    BY <1>11 DEF AK!InsertAccount, AK!history
  <2>2. /\ accounts' \in Seq({"p2pkh", "multisig"}) /\ Len(accounts') = Len(accounts) + 1
        /\ DOMAIN accounts \subseteq DOMAIN accounts' /\ Len(accounts') \in DOMAIN accounts'
        /\ Len(accounts') \in Nat /\ Len(accounts) \in Nat
    BY <1>0, <2>1
  <2>3. Len(accounts') \in 1..MaxAccounts
    BY <2>1, <2>2, BoundsAssumption
  <2>4. what \in KeyArgs /\ what.account \in DOMAIN accounts'
    BY <2>2 DEF AK!Nothing, KeyArgs
  <2> HIDE DEF what
  <2>5. Rows'
    BY <1>0, <2>1, <2>2, <2>3
  <2> QED
    BY <1>6, <2>1, <2>2, <2>4, <2>5 DEF KeyPlaces
<1>12. ASSUME NEW t \in Tasks, AK!InsertConfig(t) PROVE Goal
  <2>1. pc[t] = "insert_config" /\ configs' = configs \cup {arg[t].account}
        /\ AK!Goto(t, "idle", AK!Nothing) /\ UNCHANGED <<accounts, keys, requests, clash, began>>
    BY <1>12 DEF AK!InsertConfig, AK!history, AK!Return
  <2>2. Rows'
    BY <1>0, <2>1 DEF AK!ConfigInv
  <2> QED
    BY <1>5, <1>6, <2>1, <2>2 DEF KeyPlaces
<1>13. ASSUME NEW t \in Tasks, AK!Fail(t) PROVE Goal
  <2>1. AK!Goto(t, "idle", AK!Nothing) /\ UNCHANGED <<accounts, configs, keys, requests, clash, began>>
    BY <1>13 DEF AK!Fail, AK!tables, AK!history, AK!Return
  <2>2. Rows'
    BY <1>0, <2>1
  <2> QED
    BY <1>5, <1>6, <2>1, <2>2 DEF KeyPlaces
<1> HIDE DEF Goal
<1>14. Goal
  BY <1>7, <1>8, <1>9, <1>10, <1>11, <1>12, <1>13 DEF AK!Next
<1> QED
  BY <1>1, <1>14

\* An account that is not there has no rows, and no call derives for it.
LEMMA NoSuchAccount ==
  ASSUME AK!IInv, NEW a, a \notin DOMAIN accounts
  PROVE  AK!ReceivingRows(a) = {} /\ AK!Deriving(a) = {}
  BY DEF AK!IInv, AK!TypeOK, AK!IndexInv, AK!ReceivingRows, AK!Deriving, AK!Inserting

\* A step after which no call derives that did not, and no row is there that was not.
LEMMA KeysStay ==
  ASSUME AK!IInv, UNCHANGED <<keys, began, clash>>, AK!Inserting' \subseteq AK!Inserting,
         \A t \in AK!Inserting' : arg'[t] = arg[t], DOMAIN accounts \subseteq DOMAIN accounts'
  PROVE  /\ AK!CountInv' /\ AK!IndexInv' /\ AK!AloneInv'
         /\ AK!FreshAddress' /\ AK!DenseWhenAlone'
<1> USE DEF AK!IInv
<1>1. \A a : AK!ReceivingRows(a)' = AK!ReceivingRows(a)
  BY DEF AK!ReceivingRows
<1>2. \A a : AK!receiving_count(a)' = AK!receiving_count(a)
  BY <1>1, KeyCount DEF AK!receiving_count
<1>3. \A a : AK!Deriving(a)' \subseteq AK!Deriving(a)
  BY DEF AK!Deriving, AK!Inserting
<1>4. \A a : \A t \in AK!Deriving(a)' : arg'[t] = arg[t]
  BY DEF AK!Deriving, AK!Inserting
<1>5. \A a : AK!ReceivingRows(a) # {} \/ AK!Deriving(a)' # {} => a \in DOMAIN accounts
  BY <1>3, NoSuchAccount
<1>6. AK!CountInv'
  BY <1>1, <1>2, <1>5 DEF AK!CountInv
<1>7. AK!FreshAddress'
  BY DEF AK!FreshAddress
<1>8. AK!IndexInv'
  <2>1. \A t \in AK!Inserting' : arg'[t].account \in DOMAIN accounts' /\ began'[t] <= Len(keys')
    BY DEF AK!IndexInv
  <2>2. ASSUME NEW a \in DOMAIN accounts', NEW t \in AK!Deriving(a)'
        PROVE  /\ arg'[t].index \in Nat /\ arg'[t].index <= AK!receiving_count(a)'
               /\ \A i \in AK!ReceivingRows(a)' : i <= began'[t] => keys'[i].index < arg'[t].index
    <3>1. a \in DOMAIN accounts /\ t \in AK!Deriving(a) /\ arg'[t] = arg[t]
      BY <1>3, <1>4, <1>5
    <3> QED
      BY <1>1, <1>2, <3>1 DEF AK!IndexInv
  <2> QED
    BY <2>1, <2>2 DEF AK!IndexInv
<1>9. AK!AloneInv'
  <2> SUFFICES ASSUME NEW a \in DOMAIN accounts' \ clash', AK!Deriving(a)' # {}
               PROVE  /\ \A t, u \in AK!Deriving(a)' : t = u
                      /\ \A t \in AK!Deriving(a)' : arg'[t].index = AK!receiving_count(a)'
    BY DEF AK!AloneInv
  <2>1. a \in DOMAIN accounts \ clash
    BY <1>5
  <2> QED
    BY <1>2, <1>3, <1>4, <2>1 DEF AK!AloneInv
<1>10. AK!DenseWhenAlone'
  <2> SUFFICES ASSUME NEW a \in DOMAIN accounts' \ clash', NEW i \in AK!ReceivingRows(a)'
               PROVE  keys'[i].index = AK!Cardinality({j \in AK!ReceivingRows(a)' : j < i})
    BY KeyCount DEF AK!DenseWhenAlone
  <2>1. a \in DOMAIN accounts \ clash /\ i \in AK!ReceivingRows(a)
    BY <1>1, <1>5
  <2> QED
    BY <1>1, <2>1 DEF AK!DenseWhenAlone
<1> QED
  BY <1>6, <1>7, <1>8, <1>9, <1>10

\* A call that takes the count as its index.
LEMMA KeysTakeIndex ==
  ASSUME AK!IInv, NEW t \in Tasks, NEW b \in DOMAIN accounts, NEW request \in BOOLEAN,
         AK!NextIndex(t, b, request)
  PROVE  /\ AK!CountInv' /\ AK!IndexInv' /\ AK!AloneInv'
         /\ AK!FreshAddress' /\ AK!DenseWhenAlone'
<1> USE DEF AK!IInv
<1> DEFINE what == [AK!Nothing EXCEPT !.account = b, !.index = AK!receiving_count(b),
                                      !.request = request]
<1>1. AK!Goto(t, "insert_key", what) /\ pc[t] = "idle"
      /\ UNCHANGED <<accounts, keys>> /\ began' = [began EXCEPT ![t] = Len(keys)]
      /\ clash' = IF AK!Deriving(b) = {} THEN clash ELSE clash \cup {b}
  BY DEF AK!NextIndex, AK!tables
<1>2. what.account = b /\ what.index = AK!receiving_count(b)
  BY DEF AK!Nothing
<1> HIDE DEF what
<1>3. \A a : AK!ReceivingRows(a)' = AK!ReceivingRows(a)
  BY <1>1 DEF AK!ReceivingRows
<1>4. \A a : AK!receiving_count(a)' = AK!receiving_count(a)
  BY <1>3, KeyCount DEF AK!receiving_count
<1>5. /\ pc'[t] = "insert_key" /\ arg'[t] = what
      /\ \A u \in Tasks \ {t} : pc'[u] = pc[u] /\ arg'[u] = arg[u] /\ began'[u] = began[u]
      /\ began'[t] = Len(keys) /\ t \notin AK!Inserting
  BY <1>1, KeysGoes DEF AK!LocalsOK, AK!Inserting
<1>6. \A a : \A u \in AK!Deriving(a)' : u = t \/ (u \in AK!Deriving(a) /\ u # t)
  BY <1>5 DEF AK!Deriving
<1>7. \A a : t \in AK!Deriving(a)' => a = b
  BY <1>2, <1>5 DEF AK!Deriving
<1>8. AK!CountInv' /\ AK!FreshAddress'
  BY <1>1, <1>3, <1>4 DEF AK!CountInv, AK!FreshAddress
<1>9. AK!IndexInv'
  <2>1. \A u \in AK!Inserting' : arg'[u].account \in DOMAIN accounts' /\ began'[u] <= Len(keys')
    <3> SUFFICES ASSUME NEW u \in AK!Inserting'
                 PROVE  arg'[u].account \in DOMAIN accounts /\ began'[u] <= Len(keys)
      BY <1>1
    <3>1. u = t \/ u \in AK!Inserting \ {t}
      BY <1>5 DEF AK!Inserting
    <3>2. \A v \in AK!Inserting : v \in Tasks
      BY DEF AK!Inserting
    <3> QED
      BY <1>2, <1>5, <3>1, <3>2, RowsCounted DEF AK!IndexInv
  <2>2. ASSUME NEW a \in DOMAIN accounts', NEW u \in AK!Deriving(a)'
        PROVE  /\ arg'[u].index \in Nat /\ arg'[u].index <= AK!receiving_count(a)'
               /\ \A i \in AK!ReceivingRows(a)' : i <= began'[u] => keys'[i].index < arg'[u].index
    <3>1. CASE u = t
      <4>1. a = b /\ arg'[u].index = AK!receiving_count(b) /\ AK!receiving_count(b) \in Nat
        BY <1>2, <1>5, <1>7, <3>1, RowsCounted
      <4> QED
        BY <1>1, <1>3, <1>4, <4>1 DEF AK!CountInv
    <3>2. CASE u \in AK!Deriving(a) /\ u # t
      <4>1. arg'[u] = arg[u] /\ began'[u] = began[u]
        BY <1>5, <3>2 DEF AK!Deriving
      <4> QED
        BY <1>1, <1>3, <1>4, <3>2, <4>1 DEF AK!IndexInv
    <3> QED
      BY <1>6, <3>1, <3>2
  <2> QED
    BY <2>1, <2>2 DEF AK!IndexInv
<1>10. AK!AloneInv'
  <2> SUFFICES ASSUME NEW a \in DOMAIN accounts' \ clash'
               PROVE  /\ \A u, v \in AK!Deriving(a)' : u = v
                      /\ \A u \in AK!Deriving(a)' : arg'[u].index = AK!receiving_count(a)'
    BY DEF AK!AloneInv
  <2>1. a \in DOMAIN accounts \ clash
    BY <1>1
  <2>2. CASE a = b
    <3>1. AK!Deriving(b) = {}
      BY <1>1, <2>2
    <3>2. \A u \in AK!Deriving(a)' : u = t
      BY <1>6, <2>2, <3>1
    <3> QED
      BY <1>2, <1>4, <1>5, <2>2, <3>2
  <2>3. CASE a # b
    <3>1. \A u \in AK!Deriving(a)' : u \in AK!Deriving(a) /\ u # t
      BY <1>6, <1>7, <2>3
    <3>2. \A u \in AK!Deriving(a)' : arg'[u] = arg[u]
      BY <1>5, <3>1 DEF AK!Deriving
    <3> QED
      BY <1>4, <2>1, <3>1, <3>2 DEF AK!AloneInv
  <2> QED
    BY <2>2, <2>3
<1>11. AK!DenseWhenAlone'
  <2> SUFFICES ASSUME NEW a \in DOMAIN accounts' \ clash', NEW i \in AK!ReceivingRows(a)'
               PROVE  keys'[i].index = AK!Cardinality({j \in AK!ReceivingRows(a)' : j < i})
    BY KeyCount DEF AK!DenseWhenAlone
  <2>1. a \in DOMAIN accounts \ clash /\ i \in AK!ReceivingRows(a)
    BY <1>1, <1>3
  <2> QED
    BY <1>1, <1>3, <2>1 DEF AK!DenseWhenAlone
<1> QED
  BY <1>8, <1>9, <1>10, <1>11

\* A row that is added: an imported one, or the next of an account.
LEMMA KeysAddRow ==
  ASSUME AK!IInv, NEW k \in KeyRows, keys' = Append(keys, k), k.account \in DOMAIN accounts,
         UNCHANGED <<accounts, clash, began>>, AK!Inserting' \subseteq AK!Inserting,
         \A t \in AK!Inserting' : arg'[t] = arg[t],
         \/ k.index = None
         \/ \E t \in AK!Deriving(k.account) :
              k.index = arg[t].index /\ k.began = began[t] /\ t \notin AK!Inserting'
  PROVE  /\ AK!CountInv' /\ AK!IndexInv' /\ AK!AloneInv'
         /\ AK!FreshAddress' /\ AK!DenseWhenAlone'
<1> USE DEF AK!IInv
<1> DEFINE n == Len(keys)  b == k.account
<1>1. /\ n \in Nat /\ DOMAIN keys = 1..n /\ DOMAIN keys' = 1..(n + 1) /\ Len(keys') = n + 1
      /\ keys'[n + 1] = k /\ \A i \in DOMAIN keys : keys'[i] = keys[i]
      /\ \A a : a # b \/ k.index = None =>
           /\ AK!ReceivingRows(a)' = AK!ReceivingRows(a)
           /\ AK!receiving_count(a)' = AK!receiving_count(a)
      /\ k.index # None =>
           /\ AK!ReceivingRows(b)' = AK!ReceivingRows(b) \cup {n + 1}
           /\ AK!receiving_count(b)' = AK!receiving_count(b) + 1
  BY RowAdded, RowsCounted
<1>2. \A a : AK!ReceivingRows(a) \subseteq 1..n /\ AK!receiving_count(a) \in Nat
  BY RowsCounted
<1>3. \A i \in DOMAIN keys : keys[i].index # None => keys[i].index \in Nat
  <2>1. keys \in Seq(KeyRows)
    BY DEF AK!LocalsOK, KeyRows
  <2>2. \A i \in DOMAIN keys : keys[i] \in KeyRows
    BY <2>1
  <2> QED
    BY <2>2 DEF KeyRows
<1>4. \A a : \A i \in AK!ReceivingRows(a) : keys[i].index \in Nat /\ keys'[i] = keys[i] /\ i \in 1..n
  BY <1>1, <1>3 DEF AK!ReceivingRows
<1>5. k.index # None =>
        \E t \in AK!Deriving(b) : /\ k.index = arg[t].index /\ k.began = began[t]
                                  /\ t \notin AK!Inserting' /\ k.index \in Nat
                                  /\ k.index <= AK!receiving_count(b)
                                  /\ began[t] \in Nat
                                  /\ \A i \in AK!ReceivingRows(b) :
                                       i <= began[t] => keys[i].index < k.index
  BY DEF AK!IndexInv, AK!Deriving, AK!LocalsOK
<1>6. \A a : AK!Deriving(a)' \subseteq AK!Deriving(a)
  BY DEF AK!Deriving, AK!Inserting
<1>7. \A a : \A t \in AK!Deriving(a)' : arg'[t] = arg[t] /\ t \in AK!Inserting'
  BY DEF AK!Deriving, AK!Inserting
<1>8. \A a : \A i \in AK!ReceivingRows(a)' :
        \/ i \in AK!ReceivingRows(a)
        \/ i = n + 1 /\ a = b /\ k.index # None
  BY <1>1
<1>9. \A a : AK!receiving_count(a) <= AK!receiving_count(a)' /\ AK!receiving_count(a)' \in Nat
  BY <1>1, <1>2
<1> HIDE DEF n, b
<1>10. AK!CountInv'
  <2> SUFFICES ASSUME NEW a \in DOMAIN accounts, NEW i \in AK!ReceivingRows(a)'
               PROVE  keys'[i].index < AK!receiving_count(a)'
    BY DEF AK!CountInv
  <2>1. CASE i \in AK!ReceivingRows(a)
    <3>1. keys'[i].index < AK!receiving_count(a) /\ keys'[i].index \in Nat
      BY <1>4, <2>1 DEF AK!CountInv
    <3>2. AK!receiving_count(a) <= AK!receiving_count(a)' /\ AK!receiving_count(a) \in Nat
          /\ AK!receiving_count(a)' \in Nat
      BY <1>2, <1>9
    <3>3. \A x, y, z \in Nat : x < y /\ y <= z => x < z
      OBVIOUS
    <3> QED
      BY <3>1, <3>2, <3>3, Zenon
  <2>2. CASE i = n + 1 /\ a = b /\ k.index # None
    BY <1>1, <1>2, <1>5, <2>2
  <2> QED
    BY <1>8, <2>1, <2>2
<1>11. AK!IndexInv'
  <2>1. \A t \in AK!Inserting' : arg'[t].account \in DOMAIN accounts' /\ began'[t] <= Len(keys')
    <3> SUFFICES ASSUME NEW t \in AK!Inserting'
                 PROVE  arg'[t].account \in DOMAIN accounts' /\ began'[t] <= Len(keys')
      OBVIOUS
    <3>1. t \in AK!Inserting /\ t \in Tasks /\ arg'[t] = arg[t]
      BY DEF AK!Inserting
    <3>2. began[t] \in Nat /\ began[t] <= n /\ arg[t].account \in DOMAIN accounts
      BY <3>1 DEF AK!IndexInv, AK!LocalsOK, n
    <3> QED
      BY <1>1, <3>1, <3>2
  <2>2. ASSUME NEW a \in DOMAIN accounts', NEW t \in AK!Deriving(a)'
        PROVE  /\ arg'[t].index \in Nat /\ arg'[t].index <= AK!receiving_count(a)'
               /\ \A i \in AK!ReceivingRows(a)' : i <= began'[t] => keys'[i].index < arg'[t].index
    <3>1. t \in AK!Deriving(a) /\ arg'[t] = arg[t] /\ t \in AK!Inserting
      BY <1>6, <1>7
    <3>2. /\ arg[t].index \in Nat /\ arg[t].index <= AK!receiving_count(a)
          /\ \A i \in AK!ReceivingRows(a) : i <= began[t] => keys[i].index < arg[t].index
      BY <3>1 DEF AK!IndexInv
    <3>3. began[t] \in Nat /\ began[t] <= n
      BY <3>1 DEF AK!IndexInv, AK!LocalsOK, AK!Inserting, n
    <3>4. arg'[t].index \in Nat /\ arg'[t].index <= AK!receiving_count(a)'
      BY <1>2, <1>9, <3>1, <3>2
    <3>5. ASSUME NEW i \in AK!ReceivingRows(a)', i <= began'[t]
          PROVE  keys'[i].index < arg'[t].index
      <4>1. i # n + 1
        BY <1>1, <3>3, <3>5
      <4> QED
        BY <1>4, <1>8, <3>1, <3>2, <3>5, <4>1
    <3> QED
      BY <3>4, <3>5
  <2> QED
    BY <2>1, <2>2 DEF AK!IndexInv
<1>12. AK!AloneInv'
  <2> SUFFICES ASSUME NEW a \in DOMAIN accounts \ clash
               PROVE  /\ \A t, u \in AK!Deriving(a)' : t = u
                      /\ \A t \in AK!Deriving(a)' : arg'[t].index = AK!receiving_count(a)'
    BY DEF AK!AloneInv
  <2>1. \A t, u \in AK!Deriving(a) : t = u
    BY DEF AK!AloneInv
  <2>2. CASE a = b /\ k.index # None
    <3>1. AK!Deriving(a)' = {}
      BY <1>5, <1>6, <1>7, <2>1, <2>2
    <3> QED
      BY <3>1
  <2>3. CASE a # b \/ k.index = None
    BY <1>1, <1>6, <1>7, <2>1, <2>3 DEF AK!AloneInv
  <2> QED
    BY <2>2, <2>3
<1>13. AK!FreshAddress'
  <2> SUFFICES ASSUME NEW i \in DOMAIN keys', NEW j \in DOMAIN keys', i < j,
                      keys'[i].account = keys'[j].account, keys'[i].index # None,
                      keys'[i].index = keys'[j].index
               PROVE  keys'[j].began < i
    BY DEF AK!FreshAddress
  <2>1. i \in DOMAIN keys /\ keys'[i] = keys[i] /\ i \in Nat
    BY <1>1
  <2>2. CASE j \in DOMAIN keys
    BY <1>1, <2>1, <2>2 DEF AK!FreshAddress
  <2>3. CASE j = n + 1
    <3>1. keys[i].account = b /\ keys[i].index = k.index /\ k.index # None /\ keys'[j].began = k.began
      BY <1>1, <2>1, <2>3 DEF b
    <3>2. i \in AK!ReceivingRows(b)
      BY <2>1, <3>1 DEF AK!ReceivingRows
    <3>3. PICK t \in AK!Deriving(b) : /\ k.began = began[t] /\ began[t] \in Nat /\ k.index \in Nat
                                      /\ \A h \in AK!ReceivingRows(b) :
                                           h <= began[t] => keys[h].index < k.index
      BY <1>5, <3>1
    <3>4. ~(i <= began[t])
      BY <3>1, <3>2, <3>3
    <3> QED
      BY <2>1, <3>1, <3>3, <3>4
  <2> QED
    BY <1>1, <2>2, <2>3
<1>14. AK!DenseWhenAlone'
  <2> SUFFICES ASSUME NEW a \in DOMAIN accounts \ clash, NEW i \in AK!ReceivingRows(a)'
               PROVE  keys'[i].index = Cardinality({j \in AK!ReceivingRows(a)' : j < i})
    BY KeyCount DEF AK!DenseWhenAlone
  <2>1. CASE i \in AK!ReceivingRows(a)
    <3>1. {j \in AK!ReceivingRows(a)' : j < i} = {j \in AK!ReceivingRows(a) : j < i}
      BY <1>1, <1>4, <1>8, <2>1
    <3> QED
      BY <1>4, <2>1, <3>1, KeyCount DEF AK!DenseWhenAlone
  <2>2. CASE i = n + 1 /\ a = b /\ k.index # None
    <3>1. {j \in AK!ReceivingRows(a)' : j < i} = AK!ReceivingRows(a)
      BY <1>1, <1>4, <1>8, <2>2
    <3>2. k.index = AK!receiving_count(a)
      BY <1>5, <2>2 DEF AK!AloneInv
    <3> QED
      BY <1>1, <2>2, <3>1, <3>2, RowsCounted
  <2> QED
    BY <1>8, <2>1, <2>2
<1> QED
  BY <1>10, <1>11, <1>12, <1>13, <1>14

\* Requests that are there or on their way keep their rows.
LEMMA RequestsStay ==
  ASSUME AK!IInv, requests' = requests, DOMAIN keys \subseteq DOMAIN keys',
         \A i \in DOMAIN keys : keys'[i] = keys[i], AK!Requesting' \subseteq AK!Requesting,
         \A t \in AK!Requesting' : arg'[t] = arg[t]
  PROVE  AK!RowInv' /\ AK!RequestsApart'
<1>1. AK!RowInv'
  BY DEF AK!IInv, AK!RowInv
<1>2. AK!RequestsApart'
  BY DEF AK!IInv, AK!TypeOK, AK!RequestsApart
<1> QED
  BY <1>1, <1>2

\* A call that goes to a place where it holds neither an index nor a row.
LEMMA KeysLeaves ==
  ASSUME AK!IInv, NEW t \in Tasks, NEW next \in KeyPlaces \ {"insert_key", "insert_request"},
         NEW what, AK!Goto(t, next, what)
  PROVE  /\ AK!Inserting' = AK!Inserting \ {t} /\ AK!Requesting' = AK!Requesting \ {t}
         /\ \A u \in AK!Inserting' \cup AK!Requesting' : arg'[u] = arg[u]
<1>1. pc'[t] = next /\ \A u \in Tasks \ {t} : pc'[u] = pc[u] /\ arg'[u] = arg[u]
  BY KeysGoes DEF AK!IInv
<1> QED
  BY <1>1 DEF AK!Inserting, AK!Requesting

LEMMA KeysInvNext ==
  ASSUME AK!IInv, AK!Next
  PROVE  AK!IInv'
<1> USE DEF AK!IInv
<1> DEFINE Keys == /\ AK!CountInv /\ AK!IndexInv /\ AK!AloneInv
                   /\ AK!FreshAddress /\ AK!DenseWhenAlone
           Reqs == AK!RowInv /\ AK!RequestsApart
<1>0. /\ "idle" \in KeyPlaces \ {"insert_key", "insert_request"}
      /\ "insert_config" \in KeyPlaces \ {"insert_key", "insert_request"}
  BY DEF KeyPlaces
<1>1. ASSUME NEW t \in Tasks, NEW a \in DOMAIN accounts, NEW request \in BOOLEAN,
             AK!NextIndex(t, a, request)
      PROVE  Keys' /\ Reqs'
  <2>1. Keys'
    BY <1>1, KeysTakeIndex
  <2>2. UNCHANGED <<keys, requests>> /\ pc[t] = "idle"
        /\ \E what : AK!Goto(t, "insert_key", what)
    BY <1>1 DEF AK!NextIndex, AK!tables
  <2>3. pc'[t] = "insert_key" /\ \A u \in Tasks \ {t} : pc'[u] = pc[u] /\ arg'[u] = arg[u]
    BY <2>2, KeysGoes
  <2>4. AK!Requesting' \subseteq AK!Requesting /\ \A u \in AK!Requesting' : arg'[u] = arg[u]
    BY <2>3 DEF AK!Requesting
  <2>5. Reqs'
    BY <2>2, <2>4, RequestsStay
  <2> QED
    BY <2>1, <2>5
<1>2. ASSUME NEW t \in Tasks, AK!InsertKey(t) PROVE Keys' /\ Reqs'
  <2> DEFINE k == [account |-> arg[t].account, index |-> arg[t].index, began |-> began[t]]
             n == Len(keys)
  <2>1. pc[t] = "insert_key" /\ keys' = Append(keys, k)
        /\ UNCHANGED <<accounts, configs, requests, clash, began>>
    BY <1>2 DEF AK!InsertKey, AK!history
  <2>2. k \in KeyRows /\ t \in AK!Deriving(k.account) /\ k.account \in DOMAIN accounts
        /\ k.index = arg[t].index /\ k.began = began[t] /\ t \in AK!Inserting
    BY <2>1 DEF AK!LocalsOK, AK!IndexInv, AK!Inserting, AK!Deriving, KeyRows
  <2>3. k.index # None
    BY <2>2, NoneAssumption DEF AK!IndexInv
  <2> HIDE DEF k
  <2>4. n \in Nat /\ DOMAIN keys = 1..n /\ DOMAIN keys' = 1..(n + 1) /\ Len(keys') = n + 1
        /\ keys'[n + 1] = k /\ \A i \in DOMAIN keys : keys'[i] = keys[i]
    BY <2>1, <2>2, RowAdded, RowsCounted
  <2>5. PICK next, what :
          /\ next \in {"idle", "insert_request"}
          /\ AK!Goto(t, next, what)
          /\ next = "insert_request" => what = [arg[t] EXCEPT !.row = n + 1]
    BY <1>2, <2>4 DEF AK!InsertKey, AK!Return
  <2>6. pc'[t] = next /\ arg'[t] = what /\ \A u \in Tasks \ {t} : pc'[u] = pc[u] /\ arg'[u] = arg[u]
    BY <2>5, KeysGoes
  <2>7. AK!Inserting' = AK!Inserting \ {t} /\ \A u \in AK!Inserting' : arg'[u] = arg[u]
    BY <2>5, <2>6 DEF AK!Inserting
  <2>8. Keys'
    <3>1. t \notin AK!Inserting'
      BY <2>7
    <3> QED
      BY <2>1, <2>2, <2>7, <3>1, KeysAddRow
  <2>9. CASE next = "idle"
    <3>1. AK!Requesting' \subseteq AK!Requesting /\ \A u \in AK!Requesting' : arg'[u] = arg[u]
      BY <2>6, <2>9 DEF AK!Requesting
    <3>2. Reqs'
      BY <2>1, <2>4, <3>1, RequestsStay
    <3> QED
      BY <2>8, <3>2
  <2>10. CASE next = "insert_request"
    <3>1. arg[t] \in KeyArgs
      BY DEF AK!LocalsOK, KeyArgs
    <3>2. arg'[t].row = n + 1
      BY <2>5, <2>6, <2>10, <3>1 DEF KeyArgs
    <3>3. \A u \in AK!Requesting' : u = t \/ (u # t /\ u \in AK!Requesting /\ arg'[u] = arg[u])
      BY <2>6 DEF AK!Requesting
    <3>4. \A u \in AK!Requesting : arg[u].row \in 1..n /\ keys[arg[u].row].index # None
                                   /\ \A i \in DOMAIN requests : requests[i] # arg[u].row
      BY <2>4 DEF AK!RowInv
    <3>5. \A i \in DOMAIN requests : requests[i] \in 1..n
      BY <2>4 DEF AK!TypeOK
    <3>6. n + 1 \notin 1..n /\ 1..n \subseteq 1..(n + 1) /\ n + 1 \in 1..(n + 1)
      BY <2>4
    <3>7. \A u \in AK!Requesting' :
            /\ arg'[u].row \in DOMAIN keys' /\ keys'[arg'[u].row].index # None
            /\ \A i \in DOMAIN requests' : requests'[i] # arg'[u].row
      BY <2>1, <2>3, <2>4, <3>2, <3>3, <3>4, <3>5, <3>6
    <3>8. \A u, v \in AK!Requesting' : arg'[u].row = arg'[v].row => u = v
      BY <3>2, <3>3, <3>4, <3>6 DEF AK!RowInv
    <3>9. AK!RowInv'
      BY <3>7, <3>8 DEF AK!RowInv
    <3>10. AK!RequestsApart'
      BY <2>1, <2>4, <3>5 DEF AK!RequestsApart
    <3> QED
      BY <2>8, <3>9, <3>10
  <2> QED
    BY <2>5, <2>9, <2>10
<1>3. ASSUME NEW t \in Tasks, AK!InsertRequest(t) PROVE Keys' /\ Reqs'
  <2>1. pc[t] = "insert_request" /\ requests' = Append(requests, arg[t].row)
        /\ AK!Goto(t, "idle", AK!Nothing)
        /\ UNCHANGED <<accounts, configs, keys, clash, began>>
    BY <1>3 DEF AK!InsertRequest, AK!history, AK!Return
  <2>2. /\ AK!Inserting' = AK!Inserting \ {t} /\ AK!Requesting' = AK!Requesting \ {t}
        /\ \A u \in AK!Inserting' \cup AK!Requesting' : arg'[u] = arg[u]
    BY <1>0, <2>1, KeysLeaves
  <2>3. Keys'
    BY <2>1, <2>2, KeysStay
  <2>4. t \in AK!Requesting /\ requests \in Seq(Nat) /\ arg[t].row \in Nat
    BY <2>1 DEF AK!Requesting, AK!LocalsOK
  <2>5. /\ DOMAIN requests' = DOMAIN requests \cup {Len(requests) + 1}
        /\ requests'[Len(requests) + 1] = arg[t].row
        /\ \A i \in DOMAIN requests : requests'[i] = requests[i]
    BY <2>1, <2>4
  <2>6. AK!RowInv'
    BY <2>1, <2>2, <2>4, <2>5 DEF AK!RowInv
  <2>7. AK!RequestsApart'
    BY <2>1, <2>4, <2>5 DEF AK!RequestsApart, AK!RowInv
  <2> QED
    BY <2>3, <2>6, <2>7
<1>4. ASSUME AK!ImportPrivkey PROVE Keys' /\ Reqs'
  <2> DEFINE k == [account |-> 1, index |-> None, began |-> Len(keys)]
  <2>1. keys' = Append(keys, k) /\ UNCHANGED <<accounts, configs, requests, pc, arg, clash, began>>
    BY <1>4 DEF AK!ImportPrivkey, AK!history
  <2>2. Len(keys) \in Nat /\ DOMAIN keys = 1..Len(keys)
    BY RowsCounted
  <2>3. k \in KeyRows /\ k.account \in DOMAIN accounts /\ k.index = None
    BY <2>2 DEF KeyRows, AK!TypeOK
  <2> HIDE DEF k
  <2>4. AK!Inserting' = AK!Inserting /\ AK!Requesting' = AK!Requesting
    BY <2>1 DEF AK!Inserting, AK!Requesting
  <2>5. Keys'
    BY <2>1, <2>3, <2>4, KeysAddRow
  <2>6. DOMAIN keys \subseteq DOMAIN keys' /\ \A i \in DOMAIN keys : keys'[i] = keys[i]
    BY <2>1, <2>2, <2>3, RowAdded
  <2>7. Reqs'
    BY <2>1, <2>4, <2>6, RequestsStay
  <2> QED
    BY <2>5, <2>7
<1>5. ASSUME NEW t \in Tasks, NEW next \in {"idle", "insert_config"}, NEW what,
             AK!Goto(t, next, what), UNCHANGED <<keys, requests, clash, began>>,
             DOMAIN accounts \subseteq DOMAIN accounts'
      PROVE  Keys' /\ Reqs'
  <2>1. /\ AK!Inserting' = AK!Inserting \ {t} /\ AK!Requesting' = AK!Requesting \ {t}
        /\ \A u \in AK!Inserting' \cup AK!Requesting' : arg'[u] = arg[u]
    BY <1>0, <1>5, KeysLeaves
  <2>2. Keys'
    BY <1>5, <2>1, KeysStay
  <2>3. Reqs'
    BY <1>5, <2>1, RequestsStay
  <2> QED
    BY <2>2, <2>3
<1>6. ASSUME NEW t \in Tasks, AK!InsertAccount(t) PROVE Keys' /\ Reqs'
  <2>1. accounts' = Append(accounts, "multisig") /\ UNCHANGED <<keys, requests, clash, began>>
        /\ \E what : AK!Goto(t, "insert_config", what)
    BY <1>6 DEF AK!InsertAccount, AK!history
  <2>2. DOMAIN accounts \subseteq DOMAIN accounts'
    BY <2>1 DEF AK!TypeOK
  <2> QED
    BY <1>5, <2>1, <2>2
<1>7. ASSUME NEW t \in Tasks, AK!InsertConfig(t) \/ AK!Fail(t) PROVE Keys' /\ Reqs'
  <2>1. AK!Goto(t, "idle", AK!Nothing) /\ UNCHANGED <<accounts, keys, requests, clash, began>>
    BY <1>7 DEF AK!InsertConfig, AK!Fail, AK!tables, AK!history, AK!Return
  <2> QED
    BY <1>5, <2>1
<1>8. AK!TypeOK' /\ AK!LocalsOK' /\ AK!RoomInv' /\ AK!ConfigInv'
  BY KeysTypes
<1> DEFINE Goal == Keys' /\ Reqs'
<1> HIDE DEF Goal
<1>9. Goal
  BY <1>1, <1>2, <1>3, <1>4, <1>6, <1>7 DEF AK!Next, Goal
<1> QED
  BY <1>8, <1>9 DEF Goal

-----------------------------------------------------------------------------
(* Contacts *)

ContactRows == [label : Labels \cup {None}, number : 0..MaxMade]
ContactArgs == [label : Labels \cup {None}, id : Nat, number : 0..MaxMade]
ContactPlaces == {"idle", "add", "identify", "rename_check", "rename", "delete"}
Claiming == {"add", "rename_check", "rename"}

\* A row that is added gets an id that no row has.
LEMMA NewIdIsNew == CO!NewId \notin CO!Present /\ CO!NewId \in Nat
<1> DEFINE S == CO!Present \cup {0}
           U == {m \in 0..MaxIds : \A y \in S : y <= m}
           less == {p \in Nat \X Nat : p[1] < p[2]}
<1>1. S \subseteq 0..MaxIds /\ 0 \in S
  BY BoundsAssumption DEF CO!Present, CO!Ids
<1>2. MaxIds \in U /\ U \subseteq Nat
  BY <1>1, BoundsAssumption
<1>3. IsWellFoundedOn(less, Nat)
  BY NatLessThanWellFounded DEF OpToRel
<1>4. PICK m \in U : \A k \in U : <<k, m>> \notin less
  BY <1>2, <1>3, WFMin
<1>5. \A k \in U : ~(k < m)
  BY <1>2, <1>4
<1>6. m \in S
  <2>1. SUFFICES ASSUME m \notin S PROVE FALSE
    OBVIOUS
  <2>2. m \in 0..MaxIds /\ \A y \in S : y \in Nat /\ y <= m /\ y # m
    BY <1>1, <1>4, <2>1
  <2>3. m - 1 \in U
    BY <1>1, <2>2, BoundsAssumption
  <2> QED
    BY <1>5, <2>2, <2>3
<1>7. m \in S /\ \A y \in S : m >= y
  BY <1>1, <1>4, <1>6
<1> HIDE DEF S
<1>8. CO!Max(S) \in S /\ \A y \in S : CO!Max(S) >= y
  BY <1>7 DEF CO!Max
<1>9. CO!NewId = CO!Max(S) + 1
  BY DEF CO!NewId, S
<1> QED
  BY <1>1, <1>8, <1>9 DEF S

\* A call that goes from one place to another leaves the others where they are.
LEMMA ContactsGo ==
  ASSUME CO!LocalsOK, NEW t \in Tasks, NEW next, NEW what, CO!Goto(t, next, what)
  PROVE  /\ pc'[t] = next /\ arg'[t] = what
         /\ \A u \in Tasks \ {t} : pc'[u] = pc[u] /\ arg'[u] = arg[u]
         /\ next \in ContactPlaces => pc' \in [Tasks -> ContactPlaces]
         /\ what \in ContactArgs => arg' \in [Tasks -> ContactArgs]
  BY DEF CO!LocalsOK, CO!Goto, ContactPlaces, ContactArgs

\* A call that learns an id and a number keeps the label it holds.
LEMMA HeldBecomes ==
  ASSUME NEW a \in ContactArgs, NEW i \in Nat, NEW n \in 0..MaxMade
  PROVE  /\ [a EXCEPT !.id = i, !.number = n] \in ContactArgs
         /\ [a EXCEPT !.id = i, !.number = n] = [label |-> a.label, id |-> i, number |-> n]
<1> DEFINE b == [label |-> a.label, id |-> i, number |-> a.number]
<1>1. [a EXCEPT !.id = i, !.number = n] = [[a EXCEPT !.id = i] EXCEPT !.number = n]
  OBVIOUS
<1>2. [a EXCEPT !.id = i] = b
  BY DEF ContactArgs
<1>3. [b EXCEPT !.number = n] = [label |-> a.label, id |-> i, number |-> n]
  OBVIOUS
<1>4. [label |-> a.label, id |-> i, number |-> n] \in ContactArgs
  BY DEF ContactArgs
<1> QED
  BY <1>1, <1>2, <1>3, <1>4

LEMMA ContactsInit == ASSUME CO!Init PROVE CO!IInv
<1> USE DEF CO!Init
<1>1. CO!Present = {} /\ 0 \in 0..MaxMade /\ MaxMade \in Nat
  BY BoundsAssumption DEF CO!Present, CO!Nobody
<1>2. CO!TypeOK
  BY <1>1 DEF CO!TypeOK, CO!Nobody
<1>3. CO!LocalsOK
  BY <1>1 DEF CO!LocalsOK, CO!Nothing, CO!Nobody
<1>4. CO!LabelInv /\ CO!NumberInv /\ CO!LabelsApart /\ CO!IdentityOfItsContact
  BY <1>1 DEF CO!LabelInv, CO!NumberInv, CO!LabelsApart, CO!IdentityOfItsContact
<1> QED
  BY <1>2, <1>3, <1>4 DEF CO!IInv

LEMMA ContactsTypes ==
  ASSUME CO!IInv, CO!Next
  PROVE  CO!TypeOK' /\ CO!LocalsOK'
<1> USE DEF CO!IInv
<1> DEFINE Rows == /\ contacts \in [CO!Ids -> ContactRows]
                   /\ \A x \in identities : contacts[x.id].number # 0
                   /\ identities \subseteq [id : CO!Ids, number : 1..MaxMade, late : BOOLEAN]
                   /\ made \in 0..MaxMade /\ gone \subseteq 1..made /\ clash \subseteq Labels
                   /\ \A i \in CO!Ids : contacts[i].number <= made
           Locals == pc \in [Tasks -> ContactPlaces] /\ arg \in [Tasks -> ContactArgs]
           Held == \A t \in Tasks :
                     /\ pc[t] # "idle" /\ pc[t] # "add" => arg[t].id \in CO!Ids
                     /\ pc[t] = "identify" => arg[t].number \in 1..made
           Goal == Rows' /\ Locals' /\ Held'
<1>0. Rows /\ Locals /\ Held
  BY DEF CO!TypeOK, CO!LocalsOK, CO!Present, ContactRows, ContactArgs, ContactPlaces
<1>1. ASSUME Goal PROVE CO!TypeOK' /\ CO!LocalsOK'
  <2>1. \A x \in identities' : x.id \in CO!Ids
    BY <1>1
  <2>2. CO!TypeOK'
    BY <1>1, <2>1 DEF CO!TypeOK, CO!Present, ContactRows
  <2>3. CO!LocalsOK'
    BY <1>1 DEF CO!LocalsOK, ContactArgs, ContactPlaces
  <2> QED
    BY <2>2, <2>3
<1>2. CO!Nothing \in ContactArgs /\ \A t \in Tasks : arg[t] \in ContactArgs
  BY <1>0, BoundsAssumption DEF CO!Nothing, ContactArgs
<1>3. ASSUME NEW t \in Tasks, NEW next \in ContactPlaces, NEW what \in ContactArgs,
             CO!Goto(t, next, what), made' \in Nat, made <= made',
             next # "idle" /\ next # "add" => what.id \in CO!Ids,
             next = "identify" => what.number \in 1..made'
      PROVE  Locals' /\ Held'
  <2>1. Locals'
    BY <1>3, ContactsGo
  <2>2. \A u \in Tasks \ {t} : pc[u] = "identify" => arg[u].number \in 1..made'
    BY <1>0, <1>3
  <2>3. Held'
    BY <1>0, <1>3, <2>2, ContactsGo
  <2> QED
    BY <2>1, <2>3
<1>4. made \in Nat /\ made <= made /\ "idle" \in ContactPlaces
  BY <1>0 DEF ContactPlaces
<1>5. ASSUME NEW t \in Tasks, CO!Goto(t, "idle", CO!Nothing), made' = made PROVE Locals' /\ Held'
  BY <1>2, <1>3, <1>4, <1>5
<1>6. \A l \in Labels : CO!Claim(l) => clash' \subseteq clash \cup {l}
  BY DEF CO!Claim
<1>7. ASSUME NEW t \in Tasks, NEW l \in Labels, CO!AddCheck(t, l) PROVE Goal
  <2> DEFINE what == [CO!Nothing EXCEPT !.label = l]
  <2>1. CO!Goto(t, "add", what) /\ CO!Claim(l) /\ UNCHANGED <<contacts, identities, made, gone>>
    BY <1>7 DEF CO!AddCheck, CO!tables
  <2>2. what \in ContactArgs
    BY BoundsAssumption DEF CO!Nothing, ContactArgs
  <2> HIDE DEF what
  <2>3. Locals' /\ Held'
    BY <1>3, <1>4, <2>1, <2>2 DEF ContactPlaces
  <2> QED
    BY <1>0, <1>6, <2>1, <2>3
<1>8. ASSUME NEW t \in Tasks, CO!Add(t) PROVE Goal
  <2> DEFINE r == [label |-> arg[t].label, number |-> made']
             what == [arg[t] EXCEPT !.id = CO!NewId, !.number = made']
             held == [label |-> arg[t].label, id |-> CO!NewId, number |-> made']
  <2>1. /\ CO!NewId \in CO!Ids /\ made < MaxMade /\ made' = made + 1
        /\ contacts' = [contacts EXCEPT ![CO!NewId] = r]
        /\ CO!Goto(t, "identify", what) /\ UNCHANGED <<identities, gone, clash>>
    BY <1>8 DEF CO!Add
  <2>2. made' \in 1..MaxMade /\ made' \in Nat /\ made <= made'
    BY <1>0, <2>1, BoundsAssumption
  <2>3. r \in ContactRows /\ r.number = made'
    BY <1>2, <2>2 DEF ContactRows, ContactArgs
  <2>4. what \in ContactArgs /\ what.id = CO!NewId /\ what.number = made'
    <3>1. what = held /\ held \in ContactArgs
      <4>1. PICK a \in ContactArgs : a = arg[t]
        BY <1>2
      <4>2. PICK n \in 0..MaxMade : n = made'
        BY <2>2
      <4>3. PICK i \in Nat : i = CO!NewId
        BY NewIdIsNew
      <4>4. /\ [a EXCEPT !.id = i, !.number = n] \in ContactArgs
            /\ [a EXCEPT !.id = i, !.number = n] = [label |-> a.label, id |-> i, number |-> n]
        BY HeldBecomes
      <4> QED
        BY <4>1, <4>2, <4>3, <4>4, Zenon
    <3> QED
      BY <3>1
  <2> HIDE DEF r, what, held
  <2>5. Locals' /\ Held'
    BY <1>3, <2>1, <2>2, <2>4 DEF ContactPlaces
  <2>6. contacts' \in [CO!Ids -> ContactRows]
    BY <1>0, <2>1, <2>3
  <2>7. \A i \in CO!Ids : contacts'[i] = IF i = CO!NewId THEN r ELSE contacts[i]
    BY <1>0, <2>1
  <2>8. \A x \in identities' : contacts'[x.id].number # 0
    BY <1>0, <2>1, <2>2, <2>3, <2>7
  <2>9. \A i \in CO!Ids : contacts[i].number \in Nat /\ contacts[i].number <= made
    BY <1>0 DEF ContactRows
  <2>10. \A i \in CO!Ids : contacts'[i].number <= made'
    BY <1>4, <2>1, <2>2, <2>3, <2>7, <2>9
  <2>11. gone' \subseteq 1..made'
    BY <1>0, <2>1, <2>2
  <2>12. made' \in 0..MaxMade /\ clash' \subseteq Labels
         /\ identities' \subseteq [id : CO!Ids, number : 1..MaxMade, late : BOOLEAN]
    BY <1>0, <2>1, <2>2
  <2> QED
    BY <2>5, <2>6, <2>8, <2>10, <2>11, <2>12
<1>9. ASSUME NEW t \in Tasks, CO!Identify(t) PROVE Goal
  <2> DEFINE x == [id |-> arg[t].id, number |-> arg[t].number, late |-> arg[t].number \in gone]
  <2>1. /\ pc[t] = "identify" /\ identities' = identities \cup (IF arg[t].id \in CO!Present THEN {x} ELSE {})
        /\ CO!Goto(t, "idle", CO!Nothing) /\ UNCHANGED <<contacts, made, gone, clash>>
    BY <1>9 DEF CO!Identify, CO!Return, CO!history
  <2>2. arg[t].id \in CO!Ids /\ arg[t].number \in 1..made
    BY <1>0, <2>1
  <2>3. arg[t].number \in 1..MaxMade
    BY <1>0, <2>2, BoundsAssumption
  <2>4. x \in [id : CO!Ids, number : 1..MaxMade, late : BOOLEAN] /\ x.id = arg[t].id
    BY <2>2, <2>3
  <2> HIDE DEF x
  <2>5. Rows'
    BY <1>0, <2>1, <2>4 DEF CO!Present
  <2> QED
    BY <1>5, <2>1, <2>5
<1>10. ASSUME NEW t \in Tasks, NEW i \in CO!Ids, NEW l \in Labels, CO!RenameFind(t, i, l) PROVE Goal
  <2> DEFINE what == [label |-> l, id |-> i, number |-> contacts[i].number]
  <2>1. PICK next \in {"rename", "rename_check"} : CO!Goto(t, next, what)
    BY <1>10 DEF CO!RenameFind
  <2>2. CO!Claim(l) /\ UNCHANGED <<contacts, identities, made, gone>>
    BY <1>10 DEF CO!RenameFind, CO!tables
  <2>3. what \in ContactArgs /\ what.id \in CO!Ids
    BY <1>0 DEF ContactArgs, ContactRows, CO!Ids
  <2> HIDE DEF what
  <2>4. Locals' /\ Held'
    BY <1>3, <1>4, <2>1, <2>2, <2>3 DEF ContactPlaces
  <2> QED
    BY <1>0, <1>6, <2>2, <2>4
<1>11. ASSUME NEW t \in Tasks, CO!RenameCheck(t) PROVE Goal
  <2>1. pc[t] = "rename_check" /\ UNCHANGED <<contacts, identities, made, gone, clash>>
        /\ (CO!Goto(t, "idle", CO!Nothing) \/ CO!Goto(t, "rename", arg[t]))
    BY <1>11 DEF CO!RenameCheck, CO!Return, CO!tables, CO!history
  <2>2. arg[t].id \in CO!Ids
    BY <1>0, <2>1
  <2>3. Locals' /\ Held'
    BY <1>2, <1>3, <1>4, <1>5, <2>1, <2>2 DEF ContactPlaces
  <2> QED
    BY <1>0, <2>1, <2>3
<1>12. ASSUME NEW t \in Tasks, CO!Rename(t) PROVE Goal
  <2> DEFINE i == arg[t].id  r == [label |-> arg[t].label, number |-> contacts[arg[t].id].number]
  <2>1. /\ pc[t] = "rename" /\ UNCHANGED <<identities, made, gone, clash>>
        /\ CO!Goto(t, "idle", CO!Nothing)
    BY <1>12 DEF CO!Rename, CO!Return, CO!history
  <2>2. i \in CO!Ids /\ contacts[i] \in ContactRows /\ arg[t].label \in Labels \cup {None}
    BY <1>0, <1>2, <2>1 DEF ContactArgs
  <2>3. [contacts[i] EXCEPT !.label = arg[t].label] = r
    BY <2>2 DEF ContactRows
  <2>4. contacts' = contacts \/ contacts' = [contacts EXCEPT ![i] = [contacts[i] EXCEPT !.label = arg[t].label]]
    BY <1>12 DEF CO!Rename
  <2>5. contacts' = contacts \/ contacts' = [contacts EXCEPT ![i] = r]
    BY <2>3, <2>4
  <2>6. r \in ContactRows /\ r.number = contacts[i].number
    BY <2>2 DEF ContactRows
  <2> HIDE DEF i, r
  <2>7. contacts' \in [CO!Ids -> ContactRows] /\ \A j \in CO!Ids : contacts'[j].number = contacts[j].number
    BY <1>0, <2>2, <2>5, <2>6
  <2>8. \A x \in identities : x.id \in CO!Ids
    BY <1>0
  <2>9. Rows'
    BY <1>0, <2>1, <2>7, <2>8
  <2> QED
    BY <1>5, <2>1, <2>9
<1>13. ASSUME NEW t \in Tasks, NEW i \in CO!Ids, CO!DeleteFind(t, i) PROVE Goal
  <2> DEFINE what == [CO!Nothing EXCEPT !.id = i]
  <2>1. CO!Goto(t, "delete", what) /\ UNCHANGED <<contacts, identities, made, gone, clash>>
    BY <1>13 DEF CO!DeleteFind, CO!tables, CO!history
  <2>2. what \in ContactArgs /\ what.id = i
    BY BoundsAssumption DEF CO!Nothing, ContactArgs, CO!Ids
  <2> HIDE DEF what
  <2>3. Locals' /\ Held'
    BY <1>3, <1>4, <2>1, <2>2 DEF ContactPlaces
  <2> QED
    BY <1>0, <2>1, <2>3
<1>14. ASSUME NEW t \in Tasks, CO!Delete(t) PROVE Goal
  <2> DEFINE i == arg[t].id
  <2>1. /\ pc[t] = "delete" /\ contacts' = [contacts EXCEPT ![i] = CO!Nobody]
        /\ gone' = gone \cup ({contacts[i].number} \ {0})
        /\ identities' = {x \in identities : x.id # i}
        /\ CO!Goto(t, "idle", CO!Nothing) /\ UNCHANGED <<made, clash>>
    BY <1>14 DEF CO!Delete, CO!Return, CO!Cascade
  <2>2. i \in CO!Ids
    BY <1>0, <2>1
  <2> HIDE DEF i
  <2>3. CO!Nobody \in ContactRows /\ CO!Nobody.number = 0
    BY BoundsAssumption DEF CO!Nobody, ContactRows
  <2>4. contacts' \in [CO!Ids -> ContactRows]
        /\ \A j \in CO!Ids : contacts'[j] = IF j = i THEN CO!Nobody ELSE contacts[j]
    BY <1>0, <2>1, <2>2, <2>3
  <2>5. contacts[i].number \in 0..made
    <3>1. contacts[i] \in ContactRows /\ contacts[i].number <= made
      BY <1>0, <2>2
    <3> QED
      BY <1>4, <3>1 DEF ContactRows
  <2>6. gone' \subseteq 1..made
    <3>1. gone \subseteq 1..made
      BY <1>0
    <3>2. \A n \in 0..made : n # 0 => n \in 1..made
      BY <1>4
    <3> QED
      BY <2>1, <2>5, <3>1, <3>2
  <2>7. \A x \in identities' : contacts'[x.id].number # 0
    BY <1>0, <2>1, <2>4
  <2>8. \A j \in CO!Ids : contacts'[j].number <= made'
    BY <1>0, <1>4, <2>1, <2>3, <2>4
  <2>9. Rows'
    BY <1>0, <2>1, <2>4, <2>6, <2>7, <2>8
  <2> QED
    BY <1>5, <2>1, <2>9
<1>15. ASSUME NEW t \in Tasks, CO!Fail(t) PROVE Goal
  <2>1. CO!Goto(t, "idle", CO!Nothing) /\ UNCHANGED <<contacts, identities, made, gone, clash>>
    BY <1>15 DEF CO!Fail, CO!Return, CO!tables, CO!history
  <2> QED
    BY <1>0, <1>5, <2>1
<1> HIDE DEF Goal
<1>16. Goal
  BY <1>7, <1>8, <1>9, <1>10, <1>11, <1>12, <1>13, <1>14, <1>15 DEF CO!Next
<1> QED
  BY <1>1, <1>16

\* Calls that neither claim a label nor add a contact, and rows that only go.
LEMMA ContactsStay ==
  ASSUME CO!IInv, NEW t \in Tasks, NEW next, NEW what, CO!Goto(t, next, what), clash' = clash,
         next \in Claiming => pc[t] \in Claiming /\ what.label = arg[t].label,
         next # "add", next # "identify", gone \subseteq gone',
         \A i \in CO!Ids : contacts'[i] # contacts[i] => contacts'[i].number = 0 /\ contacts[i].number \in gone' \cup {0},
         next = "rename" =>
           \/ pc[t] = "rename" /\ what = arg[t]
           \/ \A i \in CO!Present' : contacts'[i].label = what.label => i = what.id
  PROVE  CO!LabelInv' /\ CO!NumberInv' /\ CO!LabelsApart'
<1> USE DEF CO!IInv
<1>1. /\ pc'[t] = next /\ arg'[t] = what
      /\ \A u \in Tasks \ {t} : pc'[u] = pc[u] /\ arg'[u] = arg[u]
  BY ContactsGo
<1>2. \A i \in CO!Present' : i \in CO!Present /\ contacts'[i] = contacts[i] /\ i \in CO!Ids
  BY DEF CO!Present
<1>3. \A u \in Tasks : pc'[u] \in Claiming => pc[u] \in Claiming /\ arg'[u].label = arg[u].label
  BY <1>1
<1>4. CO!LabelsApart'
  BY <1>2 DEF CO!LabelsApart
<1>5. CO!NumberInv'
  <2> SUFFICES ASSUME NEW u \in Tasks, pc'[u] = "identify", arg'[u].number \notin gone'
               PROVE  contacts'[arg'[u].id].number = arg'[u].number
    BY DEF CO!NumberInv
  <2>1. u # t /\ pc[u] = "identify" /\ arg'[u] = arg[u] /\ arg[u].number \notin gone
    BY <1>1
  <2>2. contacts[arg[u].id].number = arg[u].number /\ arg[u].id \in CO!Ids /\ arg[u].number # 0
    BY <2>1 DEF CO!NumberInv, CO!LocalsOK
  <2> QED
    BY <2>1, <2>2
<1>6. CO!LabelInv'
  <2> SUFFICES ASSUME NEW u \in Tasks, pc'[u] \in Claiming, arg'[u].label \notin clash'
               PROVE  /\ \A v \in Tasks : pc'[v] \in Claiming /\ arg'[v].label = arg'[u].label => v = u
                      /\ \A i \in CO!Present' : contacts'[i].label = arg'[u].label =>
                           pc'[u] # "add" /\ (pc'[u] = "rename" => i = arg'[u].id)
    BY DEF CO!LabelInv, CO!Giving, Claiming
  <2>1. pc[u] \in Claiming /\ arg'[u].label = arg[u].label /\ arg[u].label \notin clash
    BY <1>3
  <2>2. /\ \A v \in Tasks : pc[v] \in Claiming /\ arg[v].label = arg[u].label => v = u
        /\ \A i \in CO!Present : contacts[i].label = arg[u].label =>
             pc[u] # "add" /\ (pc[u] = "rename" => i = arg[u].id)
    BY <2>1 DEF CO!LabelInv, CO!Giving, Claiming
  <2>3. \A v \in Tasks : pc'[v] \in Claiming /\ arg'[v].label = arg'[u].label => v = u
    BY <1>3, <2>1, <2>2
  <2>4. ASSUME NEW i \in CO!Present', contacts'[i].label = arg'[u].label
        PROVE  pc'[u] # "add" /\ (pc'[u] = "rename" => i = arg'[u].id)
    <3>1. i \in CO!Present /\ contacts[i].label = arg[u].label
      BY <1>2, <2>1, <2>4
    <3>2. CASE u # t
      BY <1>1, <2>2, <3>1, <3>2
    <3>3. CASE u = t
      BY <1>1, <2>2, <2>4, <3>1, <3>3
    <3> QED
      BY <3>2, <3>3
  <2> QED
    BY <2>3, <2>4
<1> QED
  BY <1>4, <1>5, <1>6

\* A call that begins to give a label.
LEMMA ContactsClaim ==
  ASSUME CO!IInv, NEW t \in Tasks, NEW l, NEW next \in Claiming, NEW what, CO!Goto(t, next, what),
         what.label = l, CO!Claim(l), UNCHANGED <<contacts, gone>>, pc[t] = "idle",
         \A i \in CO!Present : contacts[i].label = l =>
           next # "add" /\ (next = "rename" => what.id = i \/ l \in clash)
  PROVE  CO!LabelInv' /\ CO!NumberInv' /\ CO!LabelsApart'
<1> USE DEF CO!IInv
<1>1. /\ pc'[t] = next /\ arg'[t] = what
      /\ \A u \in Tasks \ {t} : pc'[u] = pc[u] /\ arg'[u] = arg[u]
  BY ContactsGo
<1>2. CO!Present' = CO!Present
  BY DEF CO!Present
<1>3. clash \subseteq clash' /\ (CO!Giving(l) # {} => l \in clash')
  BY DEF CO!Claim
<1>4. CO!LabelsApart'
  BY <1>2, <1>3 DEF CO!LabelsApart
<1>5. CO!NumberInv'
  BY <1>1 DEF CO!NumberInv, Claiming
<1>6. CO!LabelInv'
  <2> SUFFICES ASSUME NEW u \in Tasks, pc'[u] \in Claiming, arg'[u].label \notin clash'
               PROVE  /\ \A v \in Tasks : pc'[v] \in Claiming /\ arg'[v].label = arg'[u].label => v = u
                      /\ \A i \in CO!Present' : contacts'[i].label = arg'[u].label =>
                           pc'[u] # "add" /\ (pc'[u] = "rename" => i = arg'[u].id)
    BY DEF CO!LabelInv, CO!Giving, Claiming
  <2>1. CASE u = t
    <3>1. l \notin clash' /\ \A v \in Tasks : ~(pc[v] \in Claiming /\ arg[v].label = l)
      BY <1>1, <1>3, <2>1 DEF CO!Giving, Claiming
    <3> QED
      BY <1>1, <1>2, <1>3, <2>1, <3>1
  <2>2. CASE u # t
    <3>1. pc[u] \in Claiming /\ arg'[u] = arg[u] /\ pc'[u] = pc[u] /\ arg[u].label \notin clash
      BY <1>1, <1>3, <2>2
    <3>2. /\ \A v \in Tasks : pc[v] \in Claiming /\ arg[v].label = arg[u].label => v = u
          /\ \A i \in CO!Present : contacts[i].label = arg[u].label =>
               pc[u] # "add" /\ (pc[u] = "rename" => i = arg[u].id)
      BY <3>1 DEF CO!LabelInv, CO!Giving, Claiming
    <3>3. arg[u].label # l
      BY <1>3, <3>1 DEF CO!Giving, Claiming
    <3> QED
      BY <1>1, <1>2, <3>1, <3>2, <3>3
  <2> QED
    BY <2>1, <2>2
<1> QED
  BY <1>4, <1>5, <1>6

\* A row that gets a label a call has claimed, and the call is done with it.
LEMMA ContactsLabel ==
  ASSUME CO!IInv, NEW t \in Tasks, NEW next \in ContactPlaces \ Claiming, NEW what,
         CO!Goto(t, next, what), NEW i \in CO!Ids, UNCHANGED <<gone, clash>>,
         pc[t] \in {"add", "rename"}, contacts'[i].label = arg[t].label,
         contacts'[i].number = contacts[i].number \/ i \notin CO!Present,
         \A j \in CO!Ids \ {i} : contacts'[j] = contacts[j],
         pc[t] = "rename" => i = arg[t].id,
         next = "identify" => contacts'[what.id].number = what.number
  PROVE  CO!LabelInv' /\ CO!NumberInv' /\ CO!LabelsApart'
<1> USE DEF CO!IInv
<1> DEFINE l == arg[t].label
<1>1. /\ pc'[t] = next /\ arg'[t] = what
      /\ \A u \in Tasks \ {t} : pc'[u] = pc[u] /\ arg'[u] = arg[u]
  BY ContactsGo
<1>2. \A j \in CO!Present' : j = i \/ (j # i /\ j \in CO!Present /\ contacts'[j] = contacts[j])
  BY DEF CO!Present
<1>3. l \notin clash => /\ \A v \in Tasks : pc[v] \in Claiming /\ arg[v].label = l => v = t
                        /\ \A j \in CO!Present : contacts[j].label = l => j = i
  BY DEF CO!LabelInv, CO!Giving, Claiming
<1>4. CO!LabelsApart'
  <2> SUFFICES ASSUME NEW j \in CO!Present', NEW k \in CO!Present',
                      contacts'[j].label = contacts'[k].label, contacts'[j].label \notin clash
               PROVE  j = k
    BY DEF CO!LabelsApart
  <2>1. CASE j # i /\ k # i
    BY <1>2, <2>1 DEF CO!LabelsApart
  <2>2. CASE j = i \/ k = i
    BY <1>2, <1>3, <2>2
  <2> QED
    BY <2>1, <2>2
<1>5. CO!NumberInv'
  <2> SUFFICES ASSUME NEW u \in Tasks, pc'[u] = "identify", arg'[u].number \notin gone'
               PROVE  contacts'[arg'[u].id].number = arg'[u].number
    BY DEF CO!NumberInv
  <2>1. CASE u = t
    BY <1>1, <2>1
  <2>2. CASE u # t
    <3>1. pc[u] = "identify" /\ arg'[u] = arg[u] /\ arg[u].number \notin gone
      BY <1>1, <2>2
    <3>2. contacts[arg[u].id].number = arg[u].number /\ arg[u].id \in CO!Ids /\ arg[u].number # 0
      BY <3>1 DEF CO!NumberInv, CO!LocalsOK
    <3>3. arg[u].id \in CO!Present
      BY <3>2 DEF CO!Present
    <3>4. CASE arg[u].id = i
      BY <3>1, <3>2, <3>3, <3>4
    <3>5. CASE arg[u].id # i
      BY <3>1, <3>2, <3>5
    <3> QED
      BY <3>4, <3>5
  <2> QED
    BY <2>1, <2>2
<1>6. CO!LabelInv'
  <2> SUFFICES ASSUME NEW u \in Tasks, pc'[u] \in Claiming, arg'[u].label \notin clash'
               PROVE  /\ \A v \in Tasks : pc'[v] \in Claiming /\ arg'[v].label = arg'[u].label => v = u
                      /\ \A j \in CO!Present' : contacts'[j].label = arg'[u].label =>
                           pc'[u] # "add" /\ (pc'[u] = "rename" => j = arg'[u].id)
    BY DEF CO!LabelInv, CO!Giving, Claiming
  <2>1. u # t /\ pc[u] \in Claiming /\ arg'[u] = arg[u] /\ pc'[u] = pc[u] /\ arg[u].label \notin clash
    BY <1>1
  <2>2. /\ \A v \in Tasks : pc[v] \in Claiming /\ arg[v].label = arg[u].label => v = u
        /\ \A j \in CO!Present : contacts[j].label = arg[u].label =>
             pc[u] # "add" /\ (pc[u] = "rename" => j = arg[u].id)
    BY <2>1 DEF CO!LabelInv, CO!Giving, Claiming
  <2>3. arg[u].label # l
    BY <1>3, <2>1
  <2>4. \A v \in Tasks : pc'[v] \in Claiming => pc[v] \in Claiming /\ arg'[v] = arg[v]
    BY <1>1
  <2>5. \A j \in CO!Present' : contacts'[j].label = arg'[u].label =>
          j \in CO!Present /\ contacts[j].label = arg[u].label
    BY <1>2, <2>1, <2>3
  <2> QED
    BY <2>1, <2>2, <2>4, <2>5
<1> QED
  BY <1>4, <1>5, <1>6

\* An address is recorded for the contact it was added for, or known to be late.
LEMMA ContactsIdentities ==
  ASSUME CO!IInv, CO!Next
  PROVE  CO!IdentityOfItsContact'
<1> USE DEF CO!IInv
<1>0. \A x \in identities : x.id \in CO!Ids /\ contacts[x.id].number # 0
  BY DEF CO!TypeOK, CO!Present
<1>1. ASSUME identities' \subseteq identities,
             \A i \in CO!Ids : contacts'[i].number = contacts[i].number
                               \/ \A x \in identities' : x.id # i
      PROVE  CO!IdentityOfItsContact'
  BY <1>0, <1>1 DEF CO!IdentityOfItsContact
<1>2. ASSUME UNCHANGED <<contacts, identities>> PROVE CO!IdentityOfItsContact'
  BY <1>1, <1>2
<1>3. ASSUME NEW t \in Tasks, CO!Add(t) PROVE CO!IdentityOfItsContact'
  <2>1. identities' = identities
        /\ contacts' = [contacts EXCEPT ![CO!NewId] = [label |-> arg[t].label, number |-> made']]
    BY <1>3 DEF CO!Add
  <2>2. \A x \in identities : x.id # CO!NewId
    BY NewIdIsNew DEF CO!TypeOK
  <2>3. \A i \in CO!Ids : i # CO!NewId => contacts'[i] = contacts[i]
    BY <2>1 DEF CO!TypeOK
  <2> QED
    BY <1>1, <2>1, <2>2, <2>3
<1>4. ASSUME NEW t \in Tasks, CO!Identify(t) PROVE CO!IdentityOfItsContact'
  <2> DEFINE x == [id |-> arg[t].id, number |-> arg[t].number, late |-> arg[t].number \in gone]
  <2>1. /\ pc[t] = "identify" /\ UNCHANGED contacts
        /\ identities' = identities \cup (IF arg[t].id \in CO!Present THEN {x} ELSE {})
    BY <1>4 DEF CO!Identify
  <2>2. ~x.late => contacts[x.id].number = x.number
    BY <2>1 DEF CO!NumberInv
  <2> HIDE DEF x
  <2> QED
    BY <2>1, <2>2 DEF CO!IdentityOfItsContact
<1>5. ASSUME NEW t \in Tasks, CO!Rename(t) PROVE CO!IdentityOfItsContact'
  <2>1. identities' = identities
        /\ contacts' = IF arg[t].id \in CO!Present
                       THEN [contacts EXCEPT ![arg[t].id].label = arg[t].label] ELSE contacts
    BY <1>5 DEF CO!Rename
  <2>2. contacts \in [CO!Ids -> ContactRows]
    BY DEF CO!TypeOK, ContactRows
  <2>3. \A i \in CO!Ids : contacts'[i].number = contacts[i].number
    BY <2>1, <2>2 DEF ContactRows
  <2> QED
    BY <1>1, <2>1, <2>3
<1>6. ASSUME NEW t \in Tasks, CO!Delete(t) PROVE CO!IdentityOfItsContact'
  <2>1. identities' = {x \in identities : x.id # arg[t].id}
        /\ contacts' = [contacts EXCEPT ![arg[t].id] = CO!Nobody]
    BY <1>6 DEF CO!Delete, CO!Cascade
  <2>2. \A i \in CO!Ids : i # arg[t].id => contacts'[i] = contacts[i]
    BY <2>1 DEF CO!TypeOK
  <2> QED
    BY <1>1, <2>1, <2>2
<1> QED
  BY <1>2, <1>3, <1>4, <1>5, <1>6
     DEF CO!Next, CO!AddCheck, CO!RenameFind, CO!RenameCheck, CO!DeleteFind, CO!Fail, CO!tables

LEMMA ContactsInvNext ==
  ASSUME CO!IInv, CO!Next
  PROVE  CO!IInv'
<1> USE DEF CO!IInv
<1> DEFINE Goal == CO!LabelInv' /\ CO!NumberInv' /\ CO!LabelsApart'
<1>0. /\ \A t \in Tasks : arg[t] \in ContactArgs
      /\ contacts \in [CO!Ids -> ContactRows]
      /\ \A i : i \in CO!Present <=> i \in CO!Ids /\ contacts[i].number # 0
  BY DEF CO!LocalsOK, CO!TypeOK, CO!Present, ContactArgs, ContactRows
<1>1. ASSUME NEW t \in Tasks, NEW l \in Labels, CO!AddCheck(t, l) PROVE Goal
  <2>1. /\ pc[t] = "idle" /\ CO!Goto(t, "add", [CO!Nothing EXCEPT !.label = l])
        /\ CO!Claim(l) /\ UNCHANGED <<contacts, gone>> /\ ~CO!check_label_in_use(l)
    BY <1>1 DEF CO!AddCheck, CO!tables
  <2>2. [CO!Nothing EXCEPT !.label = l].label = l
    BY DEF CO!Nothing
  <2>3. \A i \in CO!Present : contacts[i].label # l
    BY <2>1 DEF CO!check_label_in_use
  <2>4. "add" \in Claiming
    BY DEF Claiming
  <2> QED
    BY <2>1, <2>2, <2>3, <2>4, ContactsClaim
<1>2. ASSUME NEW t \in Tasks, CO!Add(t) PROVE Goal
  <2> DEFINE r == [label |-> arg[t].label, number |-> made']
             held == [label |-> arg[t].label, id |-> CO!NewId, number |-> made']
  <2>1. /\ pc[t] = "add" /\ CO!NewId \in CO!Ids /\ made < MaxMade /\ made' = made + 1
        /\ contacts' = [contacts EXCEPT ![CO!NewId] = r]
        /\ CO!Goto(t, "identify", [arg[t] EXCEPT !.id = CO!NewId, !.number = made'])
        /\ UNCHANGED <<gone, clash>>
    BY <1>2 DEF CO!Add
  <2>2. made' \in 0..MaxMade
    BY <2>1, BoundsAssumption DEF CO!TypeOK
  <2>3. [arg[t] EXCEPT !.id = CO!NewId, !.number = made'] = held
    <3>1. PICK a \in ContactArgs : a = arg[t]
      BY <1>0
    <3>2. PICK n \in 0..MaxMade : n = made'
      BY <2>2
    <3>3. PICK i \in Nat : i = CO!NewId
      BY NewIdIsNew
    <3>4. [a EXCEPT !.id = i, !.number = n] = [label |-> a.label, id |-> i, number |-> n]
      BY HeldBecomes
    <3> QED
      BY <3>1, <3>2, <3>3, <3>4, Zenon
  <2>4. CO!Goto(t, "identify", held) /\ held.id = CO!NewId /\ held.number = made'
        /\ r.number = made' /\ r.label = arg[t].label
    BY <2>1, <2>3
  <2> HIDE DEF r, held
  <2>5. contacts'[CO!NewId] = r /\ \A j \in CO!Ids \ {CO!NewId} : contacts'[j] = contacts[j]
    BY <1>0, <2>1
  <2>6. "identify" \in ContactPlaces \ Claiming
    BY DEF ContactPlaces, Claiming
  <2>7. contacts'[held.id].number = held.number
    BY <2>4, <2>5
  <2> QED
    BY <2>1, <2>4, <2>5, <2>6, <2>7, NewIdIsNew, ContactsLabel
<1>3. ASSUME NEW t \in Tasks, NEW what, CO!Goto(t, "idle", what), UNCHANGED <<contacts, gone, clash>>
      PROVE  Goal
  <2>1. "idle" \notin Claiming
    BY DEF Claiming
  <2> QED
    BY <1>3, <2>1, ContactsStay
<1>4. ASSUME NEW t \in Tasks, CO!Identify(t) \/ CO!Fail(t) PROVE Goal
  <2>1. CO!Goto(t, "idle", CO!Nothing) /\ UNCHANGED <<contacts, gone, clash>>
    BY <1>4 DEF CO!Identify, CO!Fail, CO!Return, CO!tables, CO!history
  <2> QED
    BY <1>3, <2>1
<1>5. ASSUME NEW t \in Tasks, NEW i \in CO!Ids, NEW l \in Labels, CO!RenameFind(t, i, l) PROVE Goal
  <2> DEFINE what == [label |-> l, id |-> i, number |-> contacts[i].number]
             next == IF contacts[i].label = l THEN "rename" ELSE "rename_check"
  <2>1. /\ pc[t] = "idle" /\ i \in CO!Present /\ CO!Goto(t, next, what) /\ CO!Claim(l)
        /\ UNCHANGED <<contacts, gone>>
    BY <1>5 DEF CO!RenameFind, CO!tables
  <2>2. what.label = l /\ what.id = i /\ next \in Claiming /\ next # "add"
    BY DEF Claiming
  <2>3. \A j \in CO!Present : contacts[j].label = l /\ next = "rename" => j = i \/ l \in clash
    <3>1. next = "rename" => contacts[i].label = l
      OBVIOUS
    <3> QED
      BY <2>1, <3>1 DEF CO!LabelsApart
  <2> HIDE DEF what, next
  <2> QED
    BY <2>1, <2>2, <2>3, ContactsClaim
<1>6. ASSUME NEW t \in Tasks, CO!RenameCheck(t) PROVE Goal
  <2>1. pc[t] = "rename_check" /\ UNCHANGED <<contacts, gone, clash>>
        /\ \/ CO!Goto(t, "idle", CO!Nothing)
           \/ CO!Goto(t, "rename", arg[t]) /\ ~CO!check_label_in_use(arg[t].label)
    BY <1>6 DEF CO!RenameCheck, CO!Return, CO!tables, CO!history
  <2>2. CASE CO!Goto(t, "rename", arg[t]) /\ ~CO!check_label_in_use(arg[t].label)
    <3>1. \A i \in CO!Present' : contacts'[i].label # arg[t].label
      BY <2>1, <2>2 DEF CO!check_label_in_use, CO!Present
    <3>2. "rename" \in Claiming /\ pc[t] \in Claiming
      BY <2>1 DEF Claiming
    <3> QED
      BY <2>1, <2>2, <3>1, <3>2, ContactsStay
  <2> QED
    BY <1>3, <2>1, <2>2
<1>7. ASSUME NEW t \in Tasks, CO!Rename(t) PROVE Goal
  <2> DEFINE i == arg[t].id
  <2>1. /\ pc[t] = "rename" /\ CO!Goto(t, "idle", CO!Nothing) /\ UNCHANGED <<gone, clash>>
    BY <1>7 DEF CO!Rename, CO!Return, CO!history
  <2>2. CASE i \notin CO!Present
    <3>1. contacts' = contacts
      BY <1>7, <2>2 DEF CO!Rename
    <3> QED
      BY <1>3, <2>1, <3>1
  <2>3. CASE i \in CO!Present
    <3>1. contacts' = [contacts EXCEPT ![i].label = arg[t].label] /\ i \in CO!Ids
      BY <1>0, <1>7, <2>3 DEF CO!Rename
    <3>2. /\ contacts'[i].label = arg[t].label /\ contacts'[i].number = contacts[i].number
          /\ \A j \in CO!Ids \ {i} : contacts'[j] = contacts[j]
      BY <1>0, <3>1 DEF ContactRows
    <3>3. "idle" \in ContactPlaces \ Claiming
      BY DEF ContactPlaces, Claiming
    <3> HIDE DEF i
    <3>4. pc[t] = "rename" => i = arg[t].id
      BY DEF i
    <3> QED
      BY <2>1, <3>1, <3>2, <3>3, <3>4, ContactsLabel
  <2> QED
    BY <2>2, <2>3
<1>8. ASSUME NEW t \in Tasks, NEW i \in CO!Ids, CO!DeleteFind(t, i) PROVE Goal
  <2>1. CO!Goto(t, "delete", [CO!Nothing EXCEPT !.id = i]) /\ UNCHANGED <<contacts, gone, clash>>
    BY <1>8 DEF CO!DeleteFind, CO!tables, CO!history
  <2>2. "delete" \notin Claiming
    BY DEF Claiming
  <2> QED
    BY <2>1, <2>2, ContactsStay
<1>9. ASSUME NEW t \in Tasks, CO!Delete(t) PROVE Goal
  <2> DEFINE i == arg[t].id
  <2>1. /\ pc[t] = "delete" /\ contacts' = [contacts EXCEPT ![i] = CO!Nobody]
        /\ gone' = gone \cup ({contacts[i].number} \ {0})
        /\ CO!Goto(t, "idle", CO!Nothing) /\ clash' = clash
    BY <1>9 DEF CO!Delete, CO!Return
  <2> HIDE DEF i
  <2>2. \A j \in CO!Ids : contacts'[j] # contacts[j] =>
          contacts'[j].number = 0 /\ contacts[j].number \in gone' \cup {0}
    BY <1>0, <2>1 DEF CO!Nobody
  <2>3. "idle" \notin Claiming
    BY DEF Claiming
  <2> QED
    BY <2>1, <2>2, <2>3, ContactsStay
<1> HIDE DEF Goal
<1>10. Goal
  BY <1>1, <1>2, <1>4, <1>5, <1>6, <1>7, <1>8, <1>9 DEF CO!Next
<1> QED
  BY <1>10, ContactsTypes, ContactsIdentities DEF Goal

-----------------------------------------------------------------------------
(* The rows of the wallet file *)

RowsInv == /\ part = "factor" => SF!IInv
           /\ part = "keys" => AK!IInv
           /\ part = "contacts" => CO!IInv

\* The invariant of each group of rows holds of it at every time.
THEOREM Invariant == Spec => []RowsInv
<1>1. Init => RowsInv
  BY FactorInit, KeysInit, ContactsInit DEF Init, RowsInv
<1>2. RowsInv /\ [Next]_vars => RowsInv'
  <2> SUFFICES ASSUME RowsInv, [Next]_vars PROVE RowsInv'
    OBVIOUS
  <2> DEFINE factors == <<secret, scope, codes, pc, arg, made, lists, handed, spent, clash, saw>>
             accts == <<accounts, configs, keys, requests, pc, arg, clash, began>>
             conts == <<contacts, identities, pc, arg, made, gone, clash>>
  <2>1. part' = part
    BY DEF Next, vars
  <2>2. part = "factor" => SF!Next \/ UNCHANGED factors
    BY DEF Next, WalletNext, vars, wallet, factor
  <2>3. part = "keys" => AK!Next \/ UNCHANGED accts
    BY DEF Next, WalletNext, vars, wallet, account
  <2>4. part = "contacts" => CO!Next \/ UNCHANGED conts
    BY DEF Next, WalletNext, vars, wallet, contact
  <2>5. ASSUME SF!IInv, UNCHANGED factors PROVE SF!IInv'
    BY <2>5 DEF SF!IInv, SF!TypeOK, SF!HeldInv, SF!ScopeGuarded, SF!RecoveryInv,
       SF!CodesAsHandedOut, SF!RevealGuarded, SF!Recovering
  <2>6. ASSUME AK!IInv, UNCHANGED accts PROVE AK!IInv'
    <3>1. AK!TypeOK' /\ AK!LocalsOK' /\ AK!ConfigInv'
      BY <2>6 DEF AK!IInv, AK!TypeOK, AK!LocalsOK, AK!ConfigInv
    <3>2. AK!Inserting' = AK!Inserting /\ AK!Requesting' = AK!Requesting
      BY <2>6 DEF AK!Inserting, AK!Requesting
    <3>3. AK!RoomInv'
      BY <2>6, <3>2, KeyCount DEF AK!IInv, AK!RoomInv
    <3>4. AK!RowInv' /\ AK!RequestsApart'
      BY <2>6, <3>2, RequestsStay
    <3>5. AK!CountInv' /\ AK!IndexInv' /\ AK!AloneInv' /\ AK!FreshAddress' /\ AK!DenseWhenAlone'
      BY <2>6, <3>2, KeysStay
    <3> QED
      BY <3>1, <3>3, <3>4, <3>5 DEF AK!IInv
  <2>7. ASSUME CO!IInv, UNCHANGED conts PROVE CO!IInv'
    BY <2>7 DEF CO!IInv, CO!TypeOK, CO!LocalsOK, CO!LabelInv, CO!NumberInv, CO!LabelsApart,
       CO!IdentityOfItsContact, CO!Present, CO!Giving
  <2> HIDE DEF factors, accts, conts
  <2>8. part = "factor" => SF!IInv'
    BY <2>2, <2>5, FactorInvNext DEF RowsInv
  <2>9. part = "keys" => AK!IInv'
    BY <2>3, <2>6, KeysInvNext DEF RowsInv
  <2>10. part = "contacts" => CO!IInv'
    BY <2>4, <2>7, ContactsInvNext DEF RowsInv
  <2> QED
    BY <2>1, <2>8, <2>9, <2>10 DEF RowsInv
<1> QED
  BY <1>1, <1>2, PTL DEF Spec

\* totp_recover, export_seed, export_privkey: the recovery codes that work are
\* those handed out last and not used yet, unless two writers of the list
\* overlap, and no key is shown to a call without a code that was good during it.
THEOREM CodesAndExports == Spec => []OnlyByCode
<1>1. RowsInv => OnlyByCode
  BY DEF RowsInv, OnlyByCode, SF!IInv
<1> QED
  BY <1>1, Invariant, PTL

\* enable_totp, set_totp_scope: a second factor is neither replaced nor weakened
\* by a call that did not see it missing or low and gave no code of it.
THEOREM SecondFactorStands == Spec => FactorStands
<1> DEFINE A == part = "factor" =>
                  /\ scope = "tx" /\ scope' = "login" => SF!ByCode
                  /\ secret # None /\ secret' \notin {secret, None} => SF!ByEnrolment
<1>1. RowsInv /\ [Next]_vars => [A]_vars
  <2> SUFFICES ASSUME RowsInv, Next, part = "factor"
               PROVE  /\ scope = "tx" /\ scope' = "login" => SF!ByCode
                      /\ secret # None /\ secret' \notin {secret, None} => SF!ByEnrolment
    OBVIOUS
  <2>1. SF!Next /\ SF!IInv
    BY DEF Next, WalletNext, RowsInv
  <2> QED
    BY <2>1, FactorStep
<1> QED
  BY <1>1, Invariant, PTL DEF Spec, FactorStands

\* get_receive_address, create_payment_request: an address that was there when a
\* call began is not handed out by it, each request has a key of its own, and
\* as long as calls do not overlap no index is skipped.
THEOREM AddressesStayApart == Spec => []AddressesApart
<1>1. RowsInv => AddressesApart
  BY DEF RowsInv, AddressesApart, AK!IInv
<1> QED
  BY <1>1, Invariant, PTL

\* add_contact, update_contact, delete_contact: a label names one contact unless
\* two calls give it at the same time, and an address stays with the contact it
\* was added for, although ids are given again.
THEOREM ContactsStayApart == Spec => []ContactsApart
<1>1. RowsInv => ContactsApart
  BY DEF RowsInv, ContactsApart, CO!IInv
<1> QED
  BY <1>1, Invariant, PTL

-----------------------------------------------------------------------------
(* The cosigner pool *)

\* A version of the transaction as cosigners make it.
Version(tx) == /\ tx \in Seq(Cosigners) /\ Len(tx) <= required_sigs
               /\ \A i, j \in DOMAIN tx : tx[i] = tx[j] => i = j
Signers(tx) == {tx[i] : i \in DOMAIN tx}

\* The invariant in terms of single versions.
LEMMA PoolIsOfVersions ==
  CP!IInv <=> /\ pool = CP!NoTx \/ Version(pool)
              /\ \A c \in Cosigners : copy[c] = CP!NoTx \/ Version(copy[c])
              /\ behind \subseteq Cosigners /\ calls \in 0..MaxCalls /\ DOMAIN copy = Cosigners
              /\ pool # CP!NoTx =>
                   /\ \E c \in Cosigners : copy[c] # CP!NoTx
                   /\ \A c \in Cosigners \ behind :
                        copy[c] # CP!NoTx => Signers(pool) \subseteq Signers(copy[c])
<1>1. CP!Range(copy) = {copy[c] : c \in DOMAIN copy}
  BY DEF CP!Range
<1>2. \A tx : CP!Range(tx) = Signers(tx)
  BY DEF CP!Range, Signers
<1>3. \A tx : CP!IsInjective(tx) <=> \A i, j \in DOMAIN tx : tx[i] = tx[j] => i = j
  BY DEF CP!IsInjective
<1>4. CP!PoolInv <=> (pool # CP!NoTx =>
                       /\ \E c \in Cosigners : copy[c] # CP!NoTx
                       /\ \A c \in Cosigners \ behind :
                            copy[c] # CP!NoTx => Signers(pool) \subseteq Signers(copy[c]))
  BY <1>2 DEF CP!PoolInv
<1>5. ASSUME DOMAIN copy = Cosigners
      PROVE  CP!TypeOK /\ CP!CompleteByDifferent <=>
               /\ pool = CP!NoTx \/ Version(pool)
               /\ \A c \in Cosigners : copy[c] = CP!NoTx \/ Version(copy[c])
               /\ behind \subseteq Cosigners /\ calls \in 0..MaxCalls
  BY <1>1, <1>3, <1>5 DEF CP!TypeOK, CP!CompleteByDifferent, Version
<1> QED
  BY <1>4, <1>5 DEF CP!IInv

\* A signature that is added: one more, of someone who had not signed.
LEMMA OneMoreSigner ==
  ASSUME NEW tx, Version(tx), NEW c \in Cosigners, Len(tx) < required_sigs,
         ~ \E i \in 1..Len(tx) : tx[i] = c
  PROVE  /\ Version(Append(tx, c)) /\ Signers(tx) \subseteq Signers(Append(tx, c))
         /\ Append(tx, c) # CP!NoTx
<1> DEFINE n == Len(tx)  more == Append(tx, c)
<1>1. /\ n \in Nat /\ more \in Seq(Cosigners) /\ Len(more) = n + 1
      /\ DOMAIN tx = 1..n /\ DOMAIN more = 1..(n + 1)
      /\ more[n + 1] = c /\ \A i \in 1..n : more[i] = tx[i]
  BY DEF Version
<1>2. more # CP!NoTx
  <2>1. more[n + 1] = c /\ c # "none"
    BY <1>1, NoneAssumption
  <2>2. Len(CP!NoTx) = 1 /\ CP!NoTx[1] = "none"
    BY DEF CP!NoTx
  <2> HIDE DEF more
  <2> QED
    BY <1>1, <2>1, <2>2
<1> HIDE DEF more, n
<1>3. Len(more) <= required_sigs
  BY <1>1, BoundsAssumption DEF n
<1>4. \A i, j \in DOMAIN more : more[i] = more[j] => i = j
  <2> SUFFICES ASSUME NEW i \in 1..(n + 1), NEW j \in 1..(n + 1), more[i] = more[j] PROVE i = j
    BY <1>1
  <2>1. CASE i \in 1..n /\ j \in 1..n
    BY <1>1, <2>1 DEF Version
  <2>2. CASE i = n + 1 \/ j = n + 1
    BY <1>1, <2>2 DEF n
  <2> QED
    BY <1>1, <2>1, <2>2
<1>5. Signers(tx) \subseteq Signers(more)
  BY <1>1 DEF Signers
<1> QED
  BY <1>1, <1>2, <1>3, <1>4, <1>5 DEF Version, more

LEMMA PoolInit == ASSUME CP!Init PROVE CP!IInv
<1>1. 0 \in 0..MaxCalls
  BY BoundsAssumption
<1> QED
  BY <1>1, PoolIsOfVersions DEF CP!Init

LEMMA PoolStutters == ASSUME CP!IInv, UNCHANGED signing PROVE CP!IInv'
<1>1. UNCHANGED <<pool, copy, behind, calls>>
  BY DEF signing
<1>2. /\ CP!TypeOK <=> CP!TypeOK'
      /\ CP!CompleteByDifferent <=> CP!CompleteByDifferent'
      /\ CP!PoolInv <=> CP!PoolInv'
  BY <1>1 DEF CP!TypeOK, CP!CompleteByDifferent, CP!PoolInv
<1>3. DOMAIN copy = DOMAIN copy'
  BY <1>1
<1> QED
  BY <1>2, <1>3 DEF CP!IInv

LEMMA PoolInvNext == ASSUME CP!IInv, CP!Next PROVE CP!IInv'
<1> DEFINE Pool == pool = CP!NoTx \/ Version(pool)
           Copies == \A c \in Cosigners : copy[c] = CP!NoTx \/ Version(copy[c])
           Some == pool # CP!NoTx => \E c \in Cosigners : copy[c] # CP!NoTx
           Informed == pool # CP!NoTx =>
                         \A c \in Cosigners \ behind :
                           copy[c] # CP!NoTx => Signers(pool) \subseteq Signers(copy[c])
           Counts == behind \subseteq Cosigners /\ calls \in 0..MaxCalls /\ DOMAIN copy = Cosigners
           Goal == Pool' /\ Copies' /\ Some' /\ Informed' /\ Counts'
<1>0. Pool /\ Copies /\ Some /\ Informed /\ Counts
  BY PoolIsOfVersions
<1>1. ASSUME Goal PROVE CP!IInv'
  BY <1>1, PoolIsOfVersions, PTL
<1>2. ASSUME NEW c \in Cosigners, CP!Create(c) PROVE Goal
  <2>1. /\ \A d \in Cosigners : copy[d] = CP!NoTx
        /\ copy' = [copy EXCEPT ![c] = <<>>] /\ UNCHANGED <<pool, behind, calls>>
    BY <1>2 DEF CP!Create
  <2>2. pool = CP!NoTx
    BY <1>0, <2>1
  <2>3. Version(<<>>)
    BY BoundsAssumption DEF Version
  <2> QED
    BY <1>0, <2>1, <2>2, <2>3
<1>3. ASSUME NEW c \in Cosigners, CP!get_pending(c) PROVE Goal
  BY <1>0, <1>3 DEF CP!get_pending
<1>4. ASSUME NEW c \in Cosigners, CP!add_signature(c) PROVE Goal
  <2> DEFINE tx == copy[c]
             more == IF \E i \in 1..Len(tx) : tx[i] = c THEN tx ELSE Append(tx, c)
  <2>1. /\ tx # CP!NoTx /\ ~(Len(tx) >= required_sigs)
        /\ copy' = [copy EXCEPT ![c] = more] /\ UNCHANGED <<pool, behind, calls>>
    BY <1>4 DEF CP!add_signature, CP!is_complete, CP!Contains
  <2>2. Version(tx)
    BY <1>0, <2>1
  <2>3. Len(tx) < required_sigs
    BY <2>1, <2>2, BoundsAssumption DEF Version
  <2>4. Version(more) /\ Signers(tx) \subseteq Signers(more) /\ more # CP!NoTx
    BY <2>1, <2>2, <2>3, OneMoreSigner
  <2> HIDE DEF more
  <2>5. copy'[c] = more /\ \A d \in Cosigners \ {c} : copy'[d] = copy[d]
    BY <1>0, <2>1
  <2>6. Copies' /\ Counts' /\ Pool' /\ Some'
    BY <1>0, <2>1, <2>4, <2>5
  <2>7. Informed'
    <3> SUFFICES ASSUME pool # CP!NoTx, NEW d \in Cosigners \ behind, copy'[d] # CP!NoTx
                 PROVE  Signers(pool) \subseteq Signers(copy'[d])
      BY <2>1
    <3>1. CASE d = c
      BY <1>0, <2>1, <2>4, <2>5, <3>1
    <3>2. CASE d # c
      BY <1>0, <2>5, <3>2
    <3> QED
      BY <3>1, <3>2
  <2> QED
    BY <2>6, <2>7
<1>5. ASSUME NEW c \in Cosigners, CP!submit_tx(c) PROVE Goal
  <2>1. /\ copy[c] # CP!NoTx /\ calls < MaxCalls /\ pool' = copy[c]
        /\ behind' = {d \in Cosigners : d # c /\ copy[d] # CP!NoTx /\ copy[d] # copy[c]}
        /\ calls' = calls + 1 /\ copy' = copy
    BY <1>5 DEF CP!submit_tx
  <2>2. \A d \in Cosigners \ behind' : copy'[d] # CP!NoTx => copy'[d] = pool'
    BY <2>1
  <2>3. Counts'
    BY <1>0, <2>1, BoundsAssumption
  <2> QED
    BY <1>0, <2>1, <2>2, <2>3
<1>6. ASSUME NEW c \in Cosigners, CP!delete_tx(c) PROVE Goal
  <2>1. /\ calls < MaxCalls /\ pool' = CP!NoTx /\ behind' \subseteq Cosigners
        /\ calls' = calls + 1 /\ copy' = copy
    BY <1>6 DEF CP!delete_tx
  <2> QED
    BY <1>0, <2>1, BoundsAssumption
<1> HIDE DEF Goal
<1>7. Goal
  BY <1>2, <1>3, <1>4, <1>5, <1>6 DEF CP!Next
<1> QED
  BY <1>1, <1>7

\* A cosigner whose copy is not behind submits every signature that is there.
LEMMA PoolStep == ASSUME CP!IInv PROVE CP!KeepsSignatures
  BY DEF CP!IInv, CP!PoolInv, CP!KeepsSignatures, CP!submit_tx, CP!Range

-----------------------------------------------------------------------------
(* Labels *)

Pushed == [labels : LY!LabelSets, key : Passphrases]
Pushes == {pushes[i] : i \in DOMAIN pushes}

LEMMA PushesAre == LY!Range(pushes) = Pushes
  BY DEF LY!Range, Pushes

LEMMA NoLabels == <<>> \in LY!LabelSets /\ \A f : DOMAIN f = {} /\ f \in LY!LabelSets => f = <<>>
<1>1. <<>> \in [{} -> Texts]
  OBVIOUS
<1>2. ASSUME NEW S \in SUBSET Labelled, NEW f \in [S -> Texts], DOMAIN f = {} PROVE f = <<>>
  <2>1. f \in [{} -> Texts]
    BY <1>2
  <2> QED
    BY <2>1
<1> QED
  BY <1>1, <1>2 DEF LY!LabelSets

\* What is decrypted is what was encrypted.
LEMMA DecryptedIsPushed ==
  ASSUME NEW f \in LY!LabelSets, NEW key, server = LY!encrypt(f, key)
  PROVE  LY!Decrypted.labels = f
<1>1. PICK S \in SUBSET Labelled : f \in [S -> Texts]
  BY DEF LY!LabelSets
<1>2. server = {[id |-> i, text |-> f[i], key |-> key] : i \in S}
  BY <1>1 DEF LY!encrypt
<1>3. {e.id : e \in server} = S
  <2>1. \A e \in server : e.id \in S
    BY <1>2
  <2>2. ASSUME NEW i \in S PROVE \E e \in server : e.id = i
    <3>1. [id |-> i, text |-> f[i], key |-> key] \in server
      BY <1>2
    <3> QED
      BY <3>1
  <2> QED
    BY <2>1, <2>2
<1>4. ASSUME NEW i \in S PROVE (CHOOSE e \in server : e.id = i).text = f[i]
  <2> DEFINE r == [id |-> i, text |-> f[i], key |-> key]
  <2>1. r \in server /\ r.id = i
    BY <1>2
  <2>2. \A e \in server : e.id = i => e = r
    BY <1>2
  <2>3. (CHOOSE e \in server : e.id = i) = r
    BY <2>1, <2>2
  <2>4. r.text = f[i]
    OBVIOUS
  <2> HIDE DEF r
  <2> QED
    BY <2>3, <2>4, Zenon
<1>5. LY!Decrypted.labels = [i \in S |-> (CHOOSE e \in server : e.id = i).text]
  BY <1>3 DEF LY!Decrypted
<1> QED
  BY <1>1, <1>4, <1>5

LEMMA LabelsInit == ASSUME LY!Init PROVE LY!IInv
<1> USE DEF LY!Init
<1>1. <<>> \in LY!LabelSets
  BY NoLabels
<1>2. Len(<<>>) = 0
  OBVIOUS
<1>3. LY!TypeOK /\ LY!StateOK
  BY <1>1, <1>2, BoundsAssumption DEF LY!TypeOK, LY!StateOK, LY!Without
<1>4. LY!ServerInv /\ LY!AsOnePushed
  BY DEF LY!ServerInv, LY!AsOnePushed, LY!Without
<1> QED
  BY <1>3, <1>4 DEF LY!IInv

LEMMA LabelsInvNext == ASSUME LY!IInv, LY!Next PROVE LY!IInv'
<1> DEFINE Right(d, r) == r.status = "ok" =>
             \E p \in Pushes \cup {[labels |-> <<>>, key |-> passphrase[d]]} :
               p.labels = r.labels /\ (p.key = passphrase[d] \/ p.labels = <<>>)
           Rows == /\ passphrase \in [Devices -> Passphrases] /\ local \in [Devices -> LY!LabelSets]
                   /\ DOMAIN pulled = Devices /\ \A d \in Devices : pulled[d].labels \in LY!LabelSets
                   /\ server \subseteq [id : Labelled, text : Texts, key : Passphrases]
                   /\ pushes \in Seq(Pushed) /\ Len(pushes) <= MaxPushes
           One == server = {} \/ \E p \in Pushes : server = LY!encrypt(p.labels, p.key)
           Faithful == \A d \in Devices : Right(d, pulled[d])
           Goal == Rows' /\ One' /\ Faithful'
<1>0. LY!IInv <=> Rows /\ One /\ Faithful
  BY PushesAre DEF LY!IInv, LY!TypeOK, LY!StateOK, LY!ServerInv, LY!AsOnePushed, Pushed
<1>1. LY!IInv' <=> Goal
  BY PushesAre DEF LY!IInv, LY!TypeOK, LY!StateOK, LY!ServerInv, LY!AsOnePushed, Pushed,
                   LY!Range, Pushes, LY!LabelSets, LY!encrypt
<1>2. Rows /\ One /\ Faithful
  BY <1>0
<1>3. \A p \in Pushes : p.labels \in LY!LabelSets /\ p.key \in Passphrases
  <2>1. \A i \in DOMAIN pushes : pushes[i] \in Pushed
    BY <1>2
  <2> QED
    BY <2>1 DEF Pushes, Pushed
<1>4. ASSUME NEW d \in Devices, NEW i \in Labelled, NEW x \in Texts, LY!Edit(d, i, x) PROVE Goal
  <2>1. local' = [local EXCEPT ![d] = [j \in DOMAIN local[d] \cup {i} |->
                                         IF j = i THEN x ELSE local[d][j]]]
        /\ UNCHANGED <<passphrase, server, pulled, pushes>>
    BY <1>4 DEF LY!Edit
  <2>2. PICK S \in SUBSET Labelled : local[d] \in [S -> Texts]
    BY <1>2 DEF LY!LabelSets
  <2>3. [j \in DOMAIN local[d] \cup {i} |-> IF j = i THEN x ELSE local[d][j]] \in [S \cup {i} -> Texts]
    BY <2>2
  <2>4. S \cup {i} \in SUBSET Labelled
    OBVIOUS
  <2>5. [j \in DOMAIN local[d] \cup {i} |-> IF j = i THEN x ELSE local[d][j]] \in LY!LabelSets
    BY <2>3, <2>4 DEF LY!LabelSets
  <2>6. local' \in [Devices -> LY!LabelSets]
    BY <1>2, <2>1, <2>5
  <2>7. Pushes' = Pushes
    BY <2>1 DEF Pushes
  <2> QED
    BY <1>2, <2>1, <2>6, <2>7
<1>5. ASSUME NEW d \in Devices, LY!push(d) PROVE Goal
  <2> DEFINE p == [labels |-> local[d], key |-> passphrase[d]]
  <2>1. Len(pushes) < MaxPushes /\ server' = LY!encrypt(local[d], passphrase[d])
        /\ pushes' = Append(pushes, p) /\ UNCHANGED <<passphrase, local, pulled>>
    BY <1>5 DEF LY!push
  <2>2. p \in Pushed /\ p.labels = local[d] /\ p.key = passphrase[d]
    BY <1>2 DEF Pushed
  <2> HIDE DEF p
  <2>3. pushes' \in Seq(Pushed) /\ Len(pushes') <= MaxPushes
    BY <1>2, <2>1, <2>2, BoundsAssumption
  <2>4. Pushes' = Pushes \cup {p}
    <3>1. /\ DOMAIN pushes' = DOMAIN pushes \cup {Len(pushes) + 1}
          /\ pushes'[Len(pushes) + 1] = p
          /\ \A i \in DOMAIN pushes : pushes'[i] = pushes[i]
      BY <1>2, <2>1, <2>2
    <3> QED
      BY <3>1 DEF Pushes
  <2>5. server' \subseteq [id : Labelled, text : Texts, key : Passphrases]
    <3>1. PICK S \in SUBSET Labelled : local[d] \in [S -> Texts]
      BY <1>2 DEF LY!LabelSets
    <3> QED
      BY <1>2, <2>1, <3>1 DEF LY!encrypt
  <2>6. One'
    BY <2>1, <2>2, <2>4
  <2>7. Faithful'
    BY <1>2, <2>1, <2>4
  <2> QED
    BY <1>2, <2>1, <2>3, <2>5, <2>6, <2>7
<1>6. ASSUME NEW d \in Devices, LY!pull(d) PROVE Goal
  <2>1. PICK r \in LY!decrypt(d) : pulled' = [pulled EXCEPT ![d] = r]
    BY <1>6 DEF LY!pull
  <2>2. UNCHANGED <<passphrase, local, server, pushes>>
    BY <1>6 DEF LY!pull
  <2>3. Pushes' = Pushes
    BY <2>2 DEF Pushes
  <2>4. CASE r \in LY!Failed
    <3>1. r.labels = <<>> /\ r.status # "ok"
      BY <2>4 DEF LY!Failed, LY!Without
    <3> QED
      BY <1>2, <2>1, <2>2, <2>3, <3>1, NoLabels
  <2>5. CASE r = LY!Decrypted /\ \A e \in server : e.key = passphrase[d]
    <3>1. r.labels = LY!Decrypted.labels
      BY <2>5
    <3>2. CASE server = {}
      <4>1. r.labels = [i \in {} |-> (CHOOSE e \in server : e.id = i).text]
        BY <3>2, <2>5 DEF LY!Decrypted
      <4>2. r.labels = <<>>
        <5>1. r.labels \in [{} -> Texts]
          BY <4>1
        <5> QED
          BY <5>1
      <4>3. Right(d, r)
        <5> DEFINE own == [labels |-> <<>>, key |-> passphrase[d]]
        <5>1. own \in Pushes \cup {own} /\ own.labels = <<>>
          OBVIOUS
        <5>2. own.labels = r.labels /\ (own.key = passphrase[d] \/ own.labels = <<>>)
          BY <4>2, <5>1
        <5>3. \E p \in Pushes \cup {own} :
                p.labels = r.labels /\ (p.key = passphrase[d] \/ p.labels = <<>>)
          BY <5>1, <5>2, Zenon
        <5> QED
          BY <5>3
      <4> QED
        BY <1>2, <2>1, <2>2, <2>3, <4>2, <4>3, NoLabels
    <3>3. ASSUME NEW p \in Pushes, server = LY!encrypt(p.labels, p.key) PROVE Goal
      <4>1. r.labels = p.labels /\ p.labels \in LY!LabelSets
        BY <1>3, <3>1, <3>3, DecryptedIsPushed
      <4>2. p.key = passphrase[d] \/ p.labels = <<>>
        <5>1. CASE DOMAIN p.labels = {}
          BY <4>1, <5>1, NoLabels
        <5>2. ASSUME NEW i \in DOMAIN p.labels PROVE p.key = passphrase[d]
          <6>1. [id |-> i, text |-> p.labels[i], key |-> p.key] \in server
            BY <3>3 DEF LY!encrypt
          <6> QED
            BY <2>5, <6>1
        <5> QED
          BY <5>1, <5>2
      <4>3. Right(d, r)
        BY <4>1, <4>2
      <4> QED
        BY <1>2, <2>1, <2>2, <2>3, <4>1, <4>3
    <3> QED
      BY <1>2, <3>2, <3>3
  <2> QED
    BY <2>1, <2>4, <2>5 DEF LY!decrypt
<1> HIDE DEF Goal
<1>7. Goal
  BY <1>4, <1>5, <1>6 DEF LY!Next
<1> QED
  BY <1>1, <1>7

-----------------------------------------------------------------------------
(* Messages of a channel *)

\* The next id is one that no message has.
LEMMA NextMessageId ==
  ASSUME SC!NumberedInv
  PROVE  \E n \in Nat : /\ SC!Ids = {i \in Nat : i < n} /\ SC!Cardinality(SC!Ids) = n
                        /\ SC!Ids \cup {n} = {i \in Nat : i < n + 1} /\ n \notin SC!Ids
<1>1. PICK n \in Nat : SC!Ids = {i \in Nat : i < n}
  BY DEF SC!NumberedInv
<1>2. SC!Ids = 0..(n - 1)
  BY <1>1
<1>3. Cardinality(SC!Ids) = n
  BY <1>2, FS_Interval
<1>4. SC!Cardinality(SC!Ids) = Cardinality(SC!Ids)
  BY DEF SC!Cardinality, Cardinality
<1>5. {i \in Nat : i < n} \cup {n} = {i \in Nat : i < n + 1} /\ n \notin {i \in Nat : i < n}
  OBVIOUS
<1> QED
  BY <1>1, <1>3, <1>4, <1>5

LEMMA MessagesInit == ASSUME SC!Init PROVE SC!IInv
<1>1. SC!Ids = {} /\ channel = "none" /\ inbox = {} /\ posted = {}
  BY DEF SC!Init, SC!Ids, SC!NoMessages
<1>2. {} = {i \in Nat : i < 0}
  OBVIOUS
<1>3. SC!NumberedInv
  BY <1>1, <1>2 DEF SC!NumberedInv
<1> QED
  BY <1>1, <1>3 DEF SC!IInv, SC!Init, SC!NoMessages, SC!TypeOK, SC!SeenInv, SC!ChannelInv,
     SC!NothingUnseen

LEMMA MessagesInvNext == ASSUME SC!IInv, SC!Next PROVE SC!IInv'
<1> DEFINE Typed == /\ messages \in [SC!Ids -> [payload : Payloads, read : BOOLEAN]]
                    /\ inbox \subseteq SC!Ids
           Closed == channel # "open" => SC!Ids = {}
           Numbered == \E n \in Nat : SC!Ids = {i \in Nat : i < n}
           Seen == /\ \A i \in inbox : messages[i].payload \in done
                   /\ \A i \in SC!Ids : messages[i].read => messages[i].payload \in done
           Channel == channel \in {"none", "open", "deleted"} /\ (channel = "none" => posted = {})
           Kept == channel = "open" =>
                     \A p \in posted : \/ p \in done
                                       \/ \E i \in SC!Ids : ~messages[i].read /\ messages[i].payload = p
           Goal == Typed' /\ Closed' /\ Numbered' /\ Seen' /\ Channel' /\ Kept'
<1>0. Typed /\ Closed /\ Numbered /\ Seen /\ Channel /\ Kept
  BY DEF SC!IInv, SC!TypeOK, SC!NumberedInv, SC!SeenInv, SC!ChannelInv, SC!NothingUnseen, SC!Listed
<1>1. ASSUME Goal PROVE SC!IInv'
  BY <1>1 DEF SC!IInv, SC!TypeOK, SC!NumberedInv, SC!SeenInv, SC!ChannelInv, SC!NothingUnseen, SC!Listed
<1>2. ASSUME SC!create_channel PROVE Goal
  <2>1. channel = "none" /\ channel' = "open" /\ UNCHANGED <<messages, inbox, done, posted>>
    BY <1>2 DEF SC!create_channel
  <2>2. SC!Ids' = SC!Ids
    BY <2>1 DEF SC!Ids
  <2> QED
    BY <1>0, <2>1, <2>2
<1>3. ASSUME SC!list_messages PROVE Goal
  <2>1. /\ channel = "open" /\ inbox' = {i \in SC!Ids : ~messages[i].read}
        /\ done' = done \cup {messages[i].payload : i \in SC!Listed}
        /\ UNCHANGED <<channel, messages, posted>>
    BY <1>3 DEF SC!list_messages, SC!Listed
  <2>2. SC!Ids' = SC!Ids /\ done \subseteq done'
    BY <2>1 DEF SC!Ids
  <2>3. \A i \in SC!Ids : ~messages[i].read => messages[i].payload \in done'
    BY <2>1 DEF SC!Listed
  <2> QED
    BY <1>0, <2>1, <2>2, <2>3
<1>4. ASSUME SC!delete_channel PROVE Goal
  <2>1. channel = "open" /\ channel' = "deleted" /\ SC!Ids' = {} /\ inbox' = {}
        /\ UNCHANGED <<done, posted>> /\ messages' = SC!NoMessages
    BY <1>4 DEF SC!delete_channel, SC!NoMessages, SC!Ids
  <2>2. {} = {i \in Nat : i < 0}
    OBVIOUS
  <2>3. Numbered'
    BY <2>1, <2>2
  <2> QED
    BY <2>1, <2>3 DEF SC!NoMessages
<1>5. ASSUME NEW p \in Payloads, NEW arrives \in BOOLEAN, NEW answered \in BOOLEAN,
             SC!post_message(p, arrives, answered)
      PROVE  Goal
  <2>1. /\ channel = "open" /\ (answered => arrives)
        /\ posted' = IF answered THEN posted \cup {p} ELSE posted
        /\ UNCHANGED <<channel, inbox, done>>
    BY <1>5 DEF SC!post_message
  <2>2. CASE ~arrives
    <3>1. messages' = messages /\ posted' = posted
      BY <1>5, <2>1, <2>2 DEF SC!post_message
    <3>2. SC!Ids' = SC!Ids
      BY <3>1 DEF SC!Ids
    <3> QED
      BY <1>0, <2>1, <3>1, <3>2
  <2>3. CASE arrives
    <3>1. PICK n \in Nat : /\ SC!Ids = {i \in Nat : i < n} /\ SC!Cardinality(SC!Ids) = n
                           /\ SC!Ids \cup {n} = {i \in Nat : i < n + 1} /\ n \notin SC!Ids
      BY NextMessageId DEF SC!IInv
    <3>2. messages' = [i \in SC!Ids \cup {n} |->
                         IF i \in SC!Ids THEN messages[i] ELSE [payload |-> p, read |-> FALSE]]
      BY <1>5, <2>3, <3>1 DEF SC!post_message
    <3>3. SC!Ids' = SC!Ids \cup {n}
      BY <3>2 DEF SC!Ids
    <3>4. /\ \A i \in SC!Ids : messages'[i] = messages[i]
          /\ messages'[n].payload = p /\ messages'[n].read = FALSE
      BY <3>1, <3>2
    <3>5. Typed'
      BY <1>0, <2>1, <3>1, <3>2, <3>3
    <3>6. Closed' /\ Channel' /\ Seen'
      BY <1>0, <2>1, <3>1, <3>3, <3>4
    <3>7. Numbered'
      BY <3>1, <3>3
    <3>8. Kept'
      BY <1>0, <2>1, <3>3, <3>4
    <3> QED
      BY <3>5, <3>6, <3>7, <3>8
  <2> QED
    BY <2>2, <2>3
<1>6. ASSUME NEW i \in SC!Ids, NEW answered \in BOOLEAN, SC!mark_read(i, answered) PROVE Goal
  <2>1. /\ channel = "open" /\ i \in inbox /\ inbox' \subseteq inbox
        /\ messages' = [j \in SC!Ids |-> IF j \in {i} THEN [messages[j] EXCEPT !.read = TRUE]
                                         ELSE messages[j]]
        /\ UNCHANGED <<channel, done, posted>>
    BY <1>6 DEF SC!mark_read, SC!Marked
  <2>2. SC!Ids' = SC!Ids
    BY <2>1 DEF SC!Ids
  <2>3. \A j \in SC!Ids : /\ messages'[j].payload = messages[j].payload
                          /\ j # i => messages'[j] = messages[j]
    BY <2>1
  <2>4. messages'[i].read \in BOOLEAN /\ messages[i].payload \in done
    BY <1>0, <2>1
  <2>5. Typed' /\ Closed' /\ Numbered' /\ Channel'
    BY <1>0, <2>1, <2>2, <2>3, <2>4
  <2>6. Seen'
    BY <1>0, <2>1, <2>2, <2>3, <2>4
  <2>7. Kept'
    BY <1>0, <2>1, <2>2, <2>3, <2>4
  <2> QED
    BY <2>5, <2>6, <2>7
<1> HIDE DEF Goal
<1>7. Goal
  BY <1>2, <1>3, <1>4, <1>5, <1>6 DEF SC!Next
<1> QED
  BY <1>1, <1>7

-----------------------------------------------------------------------------
(* All that goes by way of a server *)

SharedInv == /\ part = "signing" => CP!IInv
             /\ part = "labelling" => LY!IInv
             /\ part = "relay" => SC!IInv

\* The invariant of each exchange holds of it at every time.
THEOREM SharedInvariant == Spec => []SharedInv
<1>1. Init => SharedInv
  BY PoolInit, LabelsInit, MessagesInit DEF Init, SharedInv
<1>2. SharedInv /\ [Next]_vars => SharedInv'
  <2> SUFFICES ASSUME SharedInv, [Next]_vars PROVE SharedInv'
    OBVIOUS
  <2>1. part' = part
    BY DEF Next, vars
  <2>2. part = "signing" => CP!Next \/ UNCHANGED signing
    BY DEF Next, WalletNext, vars
  <2>3. part = "labelling" => LY!Next \/ UNCHANGED labelling
    BY DEF Next, WalletNext, vars
  <2>4. part = "relay" => SC!Next \/ UNCHANGED relay
    BY DEF Next, WalletNext, vars
  <2>5. ASSUME CP!IInv, UNCHANGED signing PROVE CP!IInv'
    BY <2>5, PoolStutters
  <2>6. ASSUME LY!IInv, UNCHANGED labelling PROVE LY!IInv'
    BY <2>6 DEF labelling, LY!IInv, LY!TypeOK, LY!StateOK, LY!ServerInv, LY!AsOnePushed, LY!Range,
       LY!encrypt
  <2>7. ASSUME SC!IInv, UNCHANGED relay PROVE SC!IInv'
    BY <2>7 DEF relay, SC!IInv, SC!TypeOK, SC!NumberedInv, SC!SeenInv, SC!ChannelInv,
       SC!NothingUnseen, SC!Listed, SC!Ids
  <2>8. part = "signing" => CP!IInv'
    BY <2>2, <2>5, PoolInvNext DEF SharedInv
  <2>9. part = "labelling" => LY!IInv'
    BY <2>3, <2>6, LabelsInvNext DEF SharedInv
  <2>10. part = "relay" => SC!IInv'
    BY <2>4, <2>7, MessagesInvNext DEF SharedInv
  <2> QED
    BY <2>1, <2>8, <2>9, <2>10 DEF SharedInv
<1> QED
  BY <1>1, <1>2, PTL DEF Spec

\* What wallets exchange by way of a server arrives as it was sent: a complete
\* transaction is signed by different cosigners, labels are those one device
\* pushed, and no message of a channel is marked read unseen.
THEOREM ArrivesAsSent == Spec => []SharedAsSent
<1>1. SharedInv => SharedAsSent
  BY DEF SharedInv, SharedAsSent, CP!IInv, LY!IInv, SC!IInv
<1> QED
  BY <1>1, SharedInvariant, PTL

\* submit_tx: only a cosigner whose copy is behind removes a signature.
THEOREM InformedKeepSignatures == Spec => KeptByTheInformed
<1>1. SharedInv /\ [Next]_vars => [part = "signing" => CP!KeepsSignatures]_vars
  <2> SUFFICES ASSUME SharedInv, part = "signing" PROVE CP!KeepsSignatures
    OBVIOUS
  <2> QED
    BY PoolStep DEF SharedInv
<1> QED
  BY <1>1, SharedInvariant, PTL DEF Spec, KeptByTheInformed

-----------------------------------------------------------------------------
(* Lists of transactions and their bytes *)

\* A set of numbers that is not empty has a least one, and a greatest one if it
\* is bounded.
LEMMA LeastNumber ==
  ASSUME NEW S \in SUBSET Nat, S # {}
  PROVE  TC!Min(S) \in S /\ \A k \in S : TC!Min(S) <= k
<1> DEFINE less == {p \in Nat \X Nat : p[1] < p[2]}
<1>1. IsWellFoundedOn(less, Nat)
  BY NatLessThanWellFounded DEF OpToRel
<1>2. PICK m \in S : \A k \in S : <<k, m>> \notin less
  BY <1>1, WFMin
<1>3. ASSUME NEW k \in S PROVE m <= k
  <2>1. k \in Nat /\ m \in Nat /\ ~(k < m)
    BY <1>2
  <2> QED
    BY <2>1
<1> QED
  BY <1>3 DEF TC!Min

LEMMA GreatestNumber ==
  ASSUME NEW S \in SUBSET Nat, S # {}, NEW n \in Nat, \A k \in S : k <= n
  PROVE  TC!Max(S) \in S /\ \A k \in S : TC!Max(S) >= k
<1> DEFINE R == {n - k : k \in S}
<1>1. \A k \in S : k \in Nat /\ n - k \in Nat
  OBVIOUS
<1>2. R \in SUBSET Nat /\ R # {}
  BY <1>1
<1>3. TC!Min(R) \in R /\ \A k \in R : TC!Min(R) <= k
  BY <1>2, LeastNumber
<1>4. PICK m \in S : TC!Min(R) = n - m
  BY <1>3
<1>5. ASSUME NEW k \in S PROVE m >= k
  <2>1. n - m <= n - k
    BY <1>3, <1>4
  <2> QED
    BY <1>1, <2>1
<1> QED
  BY <1>5 DEF TC!Max

\* A list of hashes with the lengths of their bytes.
Listed(e) == e \in Seq(Hashes \X Nat)
\* f adds up the bytes of e from the first entry on.
Sums(f, e) == /\ DOMAIN f = 0..Len(e) /\ f[0] = 0
              /\ \A i \in 1..Len(e) : f[i] = f[i - 1] + e[i][2]

LEMMA ListedIs ==
  ASSUME NEW e, Listed(e)
  PROVE  /\ Len(e) \in Nat /\ DOMAIN e = 1..Len(e)
         /\ \A i \in 1..Len(e) : e[i] \in Hashes \X Nat /\ e[i][1] \in Hashes /\ e[i][2] \in Nat
  BY DEF Listed

\* Two functions that add up the same bytes are equal, ...
LEMMA SumsAreEqual ==
  ASSUME NEW e, Listed(e), NEW f, NEW g, Sums(f, e), Sums(g, e)
  PROVE  \A n \in 0..Len(e) : f[n] = g[n]
<1> DEFINE Bad == {n \in 0..Len(e) : f[n] # g[n]}
<1> SUFFICES ASSUME Bad # {} PROVE FALSE
  OBVIOUS
<1>1. Bad \in SUBSET Nat
  BY ListedIs
<1>2. PICK n \in Bad : \A k \in Bad : n <= k
  BY <1>1, LeastNumber
<1>3. n \in 1..Len(e) /\ n - 1 \in 0..Len(e) /\ n - 1 \notin Bad
  BY <1>2, ListedIs DEF Sums
<1> QED
  BY <1>2, <1>3 DEF Sums

\* ... there is one for each list, ...
LEMMA SumsExist ==
  ASSUME NEW e, Listed(e)
  PROVE  \E f \in [0..Len(e) -> Nat] : Sums(f, e)
<1> DEFINE Until(n) == \E f \in [0..n -> Nat] : f[0] = 0 /\ \A i \in 1..n : f[i] = f[i - 1] + e[i][2]
           Bad == {n \in 0..Len(e) : ~Until(n)}
<1>0. Len(e) \in Nat /\ \A i \in 1..Len(e) : e[i][2] \in Nat
  BY ListedIs
<1>1. Until(0)
  <2> DEFINE g == [i \in 0..0 |-> 0]
  <2>1. g \in [0..0 -> Nat] /\ g[0] = 0 /\ 1..0 = {}
    OBVIOUS
  <2> QED
    BY <2>1
<1>2. ASSUME NEW n \in 1..Len(e), Until(n - 1) PROVE Until(n)
  <2>1. PICK g \in [0..n - 1 -> Nat] : g[0] = 0 /\ \A i \in 1..n - 1 : g[i] = g[i - 1] + e[i][2]
    BY <1>2
  <2> DEFINE f == [i \in 0..n |-> IF i = n THEN g[n - 1] + e[n][2] ELSE g[i]]
  <2>2. g[n - 1] + e[n][2] \in Nat
    BY <1>0, <2>1
  <2>3. /\ f \in [0..n -> Nat] /\ f[n] = g[n - 1] + e[n][2]
        /\ \A i \in 0..n - 1 : f[i] = g[i]
    BY <1>0, <2>1, <2>2
  <2> HIDE DEF f
  <2>4. f[0] = 0
    BY <1>0, <2>1, <2>3
  <2>5. \A i \in 1..n : f[i] = f[i - 1] + e[i][2]
    <3> SUFFICES ASSUME NEW i \in 1..n PROVE f[i] = f[i - 1] + e[i][2]
      OBVIOUS
    <3>1. f[i - 1] = g[i - 1]
      BY <1>0, <2>3
    <3>2. i # n => i \in 1..n - 1 /\ i \in 0..n - 1
      BY <1>0
    <3> QED
      BY <2>1, <2>3, <3>1, <3>2
  <2> QED
    BY <2>3, <2>4, <2>5
<1> HIDE DEF Until
<1>3. Bad = {}
  <2> SUFFICES ASSUME Bad # {} PROVE FALSE
    OBVIOUS
  <2>1. Bad \in SUBSET Nat
    BY <1>0
  <2>2. PICK n \in Bad : \A k \in Bad : n <= k
    BY <2>1, LeastNumber
  <2>3. n \in 1..Len(e) /\ n - 1 \in 0..Len(e) /\ n - 1 \notin Bad
    BY <1>0, <1>1, <2>2
  <2> QED
    BY <1>2, <2>2, <2>3
<1>u. Until(Len(e))
  <2>1. Len(e) \in 0..Len(e) /\ Len(e) \notin Bad
    BY <1>0, <1>3
  <2> QED
    BY <2>1
<1>4. PICK f \in [0..Len(e) -> Nat] : f[0] = 0 /\ \A i \in 1..Len(e) : f[i] = f[i - 1] + e[i][2]
  BY <1>u DEF Until
<1>5. Sums(f, e)
  BY <1>4 DEF Sums
<1> QED
  BY <1>4, <1>5

\* ... and its last value is what the recursion of Total computes.
LEMMA TotalIsSum ==
  ASSUME NEW e, Listed(e), NEW f, Sums(f, e)
  PROVE  TC!Total(e) = f[Len(e)] /\ TC!Total(e) \in Nat
<1> DEFINE Term(s, i) == IF i = 0 THEN 0 ELSE s[i - 1] + e[i][2]
           sum == CHOOSE s : s = [i \in 0..Len(e) |-> Term(s, i)]
<1>1. PICK g \in [0..Len(e) -> Nat] : Sums(g, e)
  BY SumsExist
<1>2. \A i \in 0..Len(e) : g[i] = Term(g, i)
  BY <1>1, ListedIs DEF Sums
<1>3. g = [i \in 0..Len(e) |-> Term(g, i)]
  <2> HIDE DEF Term
  <2> QED
    BY <1>1, <1>2
<1>4. sum = [i \in 0..Len(e) |-> Term(sum, i)]
  BY <1>3
<1>5. TC!Total(e) = sum[Len(e)]
  BY DEF TC!Total
<1> HIDE DEF sum
<1>6. DOMAIN sum = 0..Len(e) /\ \A i \in 0..Len(e) : sum[i] = Term(sum, i)
  BY <1>4
<1>7. Sums(sum, e)
  <2>1. Len(e) \in Nat
    BY ListedIs
  <2>2. sum[0] = 0
    BY <1>6, <2>1
  <2>3. \A i \in 1..Len(e) : sum[i] = sum[i - 1] + e[i][2]
    BY <1>6, <2>1
  <2> QED
    BY <1>6, <2>2, <2>3 DEF Sums
<1>8. Len(e) \in 0..Len(e) /\ g[Len(e)] \in Nat
  BY <1>1, ListedIs
<1> QED
  BY <1>1, <1>5, <1>7, <1>8, SumsAreEqual

\* The bytes of a list are those of its first entries and those of the others; ...
LEMMA TotalOfParts ==
  ASSUME NEW e, Listed(e), NEW n \in 0..Len(e)
  PROVE  /\ Listed(SubSeq(e, 1, n)) /\ Listed(SubSeq(e, n + 1, Len(e)))
         /\ Len(SubSeq(e, 1, n)) = n /\ Len(SubSeq(e, n + 1, Len(e))) = Len(e) - n
         /\ \A i \in 1..Len(e) - n : SubSeq(e, n + 1, Len(e))[i] = e[n + i]
         /\ TC!Total(e) \in Nat
         /\ TC!Total(SubSeq(e, 1, n)) \in Nat /\ TC!Total(SubSeq(e, n + 1, Len(e))) \in Nat
         /\ TC!Total(e) = TC!Total(SubSeq(e, 1, n)) + TC!Total(SubSeq(e, n + 1, Len(e)))
<1> DEFINE a == SubSeq(e, 1, n)
           b == SubSeq(e, n + 1, Len(e))
<1>1. PICK f \in [0..Len(e) -> Nat] : Sums(f, e)
  BY SumsExist
<1>2. Len(e) \in Nat /\ \A i \in 1..Len(e) : e[i][2] \in Nat
  BY ListedIs
<1>3. Listed(a) /\ Len(a) = n /\ \A i \in 1..n : a[i] = e[i]
  BY <1>2 DEF Listed
<1>4. Listed(b) /\ Len(b) = Len(e) - n /\ \A i \in 1..Len(e) - n : b[i] = e[n + i]
  BY <1>2 DEF Listed
<1> HIDE DEF a, b
<1> DEFINE g == [i \in 0..n |-> f[i]]
           h == [i \in 0..Len(e) - n |-> f[n + i] - f[n]]
<1>5. Sums(g, a)
  <2>1. DOMAIN g = 0..n /\ \A i \in 0..n : g[i] = f[i]
    OBVIOUS
  <2> HIDE DEF g
  <2>2. \A i \in 1..n : i - 1 \in 0..n /\ i \in 1..Len(e)
    BY <1>2
  <2>3. ASSUME NEW i \in 1..n PROVE g[i] = g[i - 1] + a[i][2]
    <3>1. f[i] = f[i - 1] + e[i][2]
      BY <1>1, <2>2 DEF Sums
    <3>2. g[i] = f[i] /\ g[i - 1] = f[i - 1]
      BY <1>2, <2>1, <2>2
    <3> QED
      BY <1>3, <3>1, <3>2
  <2> QED
    BY <1>1, <1>2, <1>3, <2>1, <2>3 DEF Sums
<1>6. Sums(h, b)
  <2>1. DOMAIN h = 0..Len(e) - n /\ \A i \in 0..Len(e) - n : h[i] = f[n + i] - f[n]
    OBVIOUS
  <2> HIDE DEF h
  <2>2. ASSUME NEW i \in 1..Len(e) - n PROVE h[i] = h[i - 1] + b[i][2]
    <3>1. i - 1 \in 0..Len(e) - n /\ n + i \in 1..Len(e) /\ n + (i - 1) = (n + i) - 1
          /\ n + i \in 0..Len(e) /\ (n + i) - 1 \in 0..Len(e)
      BY <1>2
    <3>2. f[n + i] = f[(n + i) - 1] + e[n + i][2]
      BY <1>1, <3>1 DEF Sums
    <3>3. f[n + i] \in Nat /\ f[(n + i) - 1] \in Nat /\ f[n] \in Nat /\ e[n + i][2] \in Nat
      BY <1>1, <1>2, <3>1
    <3>4. h[i] = f[n + i] - f[n] /\ h[i - 1] = f[(n + i) - 1] - f[n] /\ b[i] = e[n + i]
      <4>1. b[i] = e[n + i]
        BY <1>4
      <4>2. i \in 0..Len(e) - n
        BY <1>2
      <4>3. h[i] = f[n + i] - f[n]
        BY <2>1, <4>2
      <4>4. h[i - 1] = f[n + (i - 1)] - f[n]
        BY <2>1, <3>1
      <4> QED
        BY <3>1, <4>1, <4>3, <4>4
    <3> QED
      BY <3>2, <3>3, <3>4, SMTT(30)
  <2>3. h[0] = 0
    <3>1. f[n] \in Nat /\ n + 0 = n /\ 0 \in 0..Len(e) - n
      BY <1>1, <1>2
    <3> QED
      BY <2>1, <3>1
  <2> QED
    BY <1>2, <1>4, <2>1, <2>2, <2>3 DEF Sums
<1>7. TC!Total(e) = f[Len(e)] /\ TC!Total(a) = f[n] /\ TC!Total(b) = f[Len(e)] - f[n]
  <2>1. n \in 0..n /\ Len(e) - n \in 0..Len(e) - n /\ n + (Len(e) - n) = Len(e)
    BY <1>2
  <2>2. g[n] = f[n] /\ h[Len(e) - n] = f[Len(e)] - f[n]
    BY <2>1
  <2> HIDE DEF g, h
  <2>3. TC!Total(e) = f[Len(e)]
    BY <1>1, TotalIsSum
  <2>4. TC!Total(a) = g[n]
    BY <1>3, <1>5, TotalIsSum
  <2>5. TC!Total(b) = h[Len(e) - n]
    BY <1>4, <1>6, TotalIsSum
  <2> QED
    BY <2>2, <2>3, <2>4, <2>5
<1>8. TC!Total(e) \in Nat /\ TC!Total(a) \in Nat /\ TC!Total(b) \in Nat
  BY <1>1, <1>3, <1>4, <1>5, <1>6, TotalIsSum
<1>9. f[Len(e)] \in Nat /\ f[n] \in Nat
  BY <1>1, <1>2
<1> QED
  BY <1>3, <1>4, <1>7, <1>8, <1>9, SMTT(30) DEF a, b

\* ... one more at the end counts in full, ...
LEMMA TotalOfAppend ==
  ASSUME NEW e, Listed(e), NEW x \in Hashes \X Nat
  PROVE  /\ Listed(Append(e, x)) /\ Len(Append(e, x)) = Len(e) + 1
         /\ TC!Total(Append(e, x)) = TC!Total(e) + x[2]
<1> DEFINE a == Append(e, x)
<1>1. PICK f \in [0..Len(e) -> Nat] : Sums(f, e)
  BY SumsExist
<1>2. Len(e) \in Nat /\ x[2] \in Nat
  BY ListedIs
<1>3. /\ Listed(a) /\ Len(a) = Len(e) + 1 /\ a[Len(e) + 1] = x
      /\ \A i \in 1..Len(e) : a[i] = e[i]
  BY <1>2 DEF Listed
<1> HIDE DEF a
<1> DEFINE g == [i \in 0..Len(e) + 1 |-> IF i <= Len(e) THEN f[i] ELSE f[Len(e)] + x[2]]
<1>4. /\ DOMAIN g = 0..Len(e) + 1 /\ g[Len(e) + 1] = f[Len(e)] + x[2]
      /\ \A i \in 0..Len(e) : g[i] = f[i]
  BY <1>2
<1> HIDE DEF g
<1>5. Sums(g, a)
  <2>1. ASSUME NEW i \in 1..Len(e) + 1 PROVE g[i] = g[i - 1] + a[i][2]
    <3>1. CASE i = Len(e) + 1
      <4>1. i - 1 = Len(e) /\ Len(e) \in 0..Len(e)
        BY <1>2, <3>1
      <4> QED
        BY <1>3, <1>4, <3>1, <4>1
    <3>2. CASE i # Len(e) + 1
      <4>1. i \in 1..Len(e) /\ i \in 0..Len(e) /\ i - 1 \in 0..Len(e)
        BY <1>2, <3>2
      <4> QED
        BY <1>1, <1>3, <1>4, <4>1 DEF Sums
    <3> QED
      BY <3>1, <3>2
  <2>2. g[0] = 0
    BY <1>1, <1>2, <1>4 DEF Sums
  <2> QED
    BY <1>3, <1>4, <2>1, <2>2 DEF Sums
<1>6. TC!Total(a) = g[Len(e) + 1] /\ TC!Total(e) = f[Len(e)]
  BY <1>1, <1>3, <1>5, TotalIsSum
<1> QED
  BY <1>3, <1>4, <1>6 DEF a

\* ... and one that is taken out no more.
LEMMA TotalOfRemoveAt ==
  ASSUME NEW e, Listed(e), NEW k \in 1..Len(e)
  PROVE  /\ Listed(TC!RemoveAt(e, k)) /\ Len(TC!RemoveAt(e, k)) = Len(e) - 1
         /\ \A i \in 1..Len(e) - 1 : TC!RemoveAt(e, k)[i] = IF i < k THEN e[i] ELSE e[i + 1]
         /\ TC!Total(TC!RemoveAt(e, k)) = TC!Total(e) - e[k][2]
<1> DEFINE a == TC!RemoveAt(e, k)
<1>1. PICK f \in [0..Len(e) -> Nat] : Sums(f, e)
  BY SumsExist
<1>2. Len(e) \in Nat /\ \A i \in 1..Len(e) : e[i] \in Hashes \X Nat /\ e[i][2] \in Nat
  BY ListedIs
<1>3. /\ Len(a) = Len(e) - 1 /\ Listed(a)
      /\ \A i \in 1..Len(e) - 1 : a[i] = IF i < k THEN e[i] ELSE e[i + 1]
  <2> DEFINE p == SubSeq(e, 1, k - 1)
             q == SubSeq(e, k + 1, Len(e))
  <2>1. p \in Seq(Hashes \X Nat) /\ Len(p) = k - 1 /\ \A i \in 1..k - 1 : p[i] = e[i]
    BY <1>2, SMTT(30) DEF Listed
  <2>2. /\ q \in Seq(Hashes \X Nat) /\ Len(q) = Len(e) - k
        /\ \A i \in 1..Len(e) - k : q[i] = e[k + i]
    BY <1>2 DEF Listed
  <2>3. a = p \o q
    BY DEF TC!RemoveAt
  <2> HIDE DEF a, p, q
  <2>c. /\ a \in Seq(Hashes \X Nat) /\ Len(a) = Len(p) + Len(q)
        /\ \A i \in 1..Len(p) : a[i] = p[i]
        /\ \A i \in 1..Len(q) : a[Len(p) + i] = q[i]
    <3> DEFINE S == Hashes \X Nat
    <3>1. p \in Seq(S) /\ q \in Seq(S)
      BY <2>1, <2>2
    <3> HIDE DEF S
    <3>2. /\ p \o q \in Seq(S) /\ Len(p \o q) = Len(p) + Len(q)
          /\ \A i \in 1..Len(p) : (p \o q)[i] = p[i]
          /\ \A i \in 1..Len(q) : (p \o q)[Len(p) + i] = q[i]
      BY <3>1
    <3> QED
      BY <2>3, <3>2, Zenon DEF S
  <2>4. a \in Seq(Hashes \X Nat) /\ Len(a) = Len(e) - 1
    BY <1>2, <2>1, <2>2, <2>c
  <2>5. ASSUME NEW i \in 1..Len(e) - 1 PROVE a[i] = IF i < k THEN e[i] ELSE e[i + 1]
    <3>1. CASE i < k
      <4>1. i \in 1..k - 1
        BY <1>2, <3>1
      <4>2. a[i] = p[i]
        BY <2>1, <2>c, <4>1
      <4> QED
        BY <2>1, <3>1, <4>1, <4>2
    <3>2. CASE ~(i < k)
      <4>1. /\ i - (k - 1) \in 1..Len(e) - k /\ k + (i - (k - 1)) = i + 1
            /\ (k - 1) + (i - (k - 1)) = i
        BY <1>2, <3>2
      <4>2. a[i] = q[i - (k - 1)]
        BY <2>1, <2>2, <2>c, <4>1
      <4> QED
        BY <2>2, <3>2, <4>1, <4>2
    <3> QED
      BY <3>1, <3>2
  <2> QED
    BY <2>4, <2>5 DEF Listed
<1> HIDE DEF a
<1> DEFINE g == [i \in 0..Len(e) - 1 |-> IF i < k THEN f[i] ELSE f[i + 1] - e[k][2]]
<1>4. DOMAIN g = 0..Len(e) - 1
      /\ \A i \in 0..Len(e) - 1 : g[i] = IF i < k THEN f[i] ELSE f[i + 1] - e[k][2]
  OBVIOUS
<1> HIDE DEF g
<1>5. \A i \in 1..Len(e) : f[i] = f[i - 1] + e[i][2] /\ f[i] \in Nat /\ f[i - 1] \in Nat
  <2>1. \A i \in 1..Len(e) : i - 1 \in 0..Len(e) /\ i \in 0..Len(e)
    BY <1>2
  <2> QED
    BY <1>1, <2>1 DEF Sums
<1>6. Sums(g, a)
  <2>1. ASSUME NEW i \in 1..Len(e) - 1 PROVE g[i] = g[i - 1] + a[i][2]
    <3>0. i \in 0..Len(e) - 1 /\ i - 1 \in 0..Len(e) - 1 /\ i \in 1..Len(e) /\ i + 1 \in 1..Len(e)
          /\ (i + 1) - 1 = i /\ (i - 1) + 1 = i
      BY <1>2
    <3>1. CASE i < k
      <4>1. i - 1 < k
        BY <1>2, <3>0, <3>1
      <4> QED
        BY <1>3, <1>4, <1>5, <3>0, <3>1, <4>1
    <3>2. CASE i = k
      <4>1. i - 1 < k /\ ~(i < k)
        BY <3>2
      <4>2. g[i] = f[i + 1] - e[k][2] /\ g[i - 1] = f[i - 1] /\ a[i] = e[i + 1]
        BY <1>3, <1>4, <3>0, <4>1
      <4>3. f[i + 1] = f[i] + e[i + 1][2] /\ f[i] = f[i - 1] + e[k][2]
        BY <1>5, <3>0, <3>2
      <4>4. f[i] \in Nat /\ f[i - 1] \in Nat /\ e[k][2] \in Nat /\ e[i + 1][2] \in Nat
        BY <1>2, <1>5, <3>0
      <4>5. ((f[i - 1] + e[k][2]) + e[i + 1][2]) - e[k][2] = f[i - 1] + e[i + 1][2]
        BY <4>4, SMTT(30)
      <4> QED
        BY <4>2, <4>3, <4>5
    <3>3. CASE i > k
      <4>1. ~(i - 1 < k) /\ ~(i < k)
        BY <3>0, <3>3
      <4>2. g[i] = f[i + 1] - e[k][2] /\ g[i - 1] = f[i] - e[k][2] /\ a[i] = e[i + 1]
        BY <1>3, <1>4, <3>0, <4>1
      <4>3. f[i + 1] = f[i] + e[i + 1][2]
        BY <1>5, <3>0
      <4>4. f[i] \in Nat /\ e[k][2] \in Nat /\ e[i + 1][2] \in Nat
        BY <1>2, <1>5, <3>0
      <4> QED
        BY <4>2, <4>3, <4>4, SMTT(30)
    <3> QED
      BY <3>1, <3>2, <3>3
  <2>2. 0 \in 0..Len(e) - 1 /\ 0 < k
    BY <1>2
  <2>3. g[0] = 0
    BY <1>1, <1>4, <2>2 DEF Sums
  <2> QED
    BY <1>3, <1>4, <2>1, <2>3 DEF Sums
<1>7. TC!Total(a) = g[Len(e) - 1] /\ TC!Total(e) = f[Len(e)]
  BY <1>1, <1>3, <1>6, TotalIsSum
<1>8. g[Len(e) - 1] = f[Len(e)] - e[k][2]
  <2>1. Len(e) - 1 \in 0..Len(e) - 1 /\ (Len(e) - 1) + 1 = Len(e)
    BY <1>2
  <2>2. CASE Len(e) - 1 < k
    <3>1. k = Len(e)
      BY <1>2, <2>2
    <3>2. f[k] = f[k - 1] + e[k][2] /\ f[k - 1] \in Nat /\ e[k][2] \in Nat
      BY <1>2, <1>5
    <3> QED
      BY <1>4, <2>1, <2>2, <3>1, <3>2
  <2>3. CASE ~(Len(e) - 1 < k)
    BY <1>4, <2>1, <2>3
  <2> QED
    BY <2>2, <2>3
<1> QED
  BY <1>3, <1>7, <1>8 DEF a

\* A list in which each hash is once.
OnceIn(e) == Listed(e) /\ \A i, j \in 1..Len(e) : e[i][1] = e[j][1] => i = j

\* The place of a hash.
LEMMA PlaceIs ==
  ASSUME NEW e, OnceIn(e), NEW k \in 1..Len(e)
  PROVE  e[k][1] \in TC!Held(e) /\ TC!index_of(e, e[k][1]) = k
<1> DEFINE S == {i \in DOMAIN e : e[i][1] = e[k][1]}
<1>1. S = {k}
  BY ListedIs DEF OnceIn
<1>2. k \in Nat
  BY ListedIs DEF OnceIn
<1>3. TC!Min(S) = k
  BY <1>1, <1>2, LeastNumber
<1> QED
  BY <1>1, <1>3 DEF TC!index_of, TC!Held

\* Without a hash the others are there as before, in their order.
LEMMA DropIs ==
  ASSUME NEW e, OnceIn(e), NEW h
  PROVE  /\ OnceIn(TC!Drop(e, h))
         /\ h \notin TC!Held(e) => TC!Drop(e, h) = e /\ TC!SizeOf(e, h) = 0
         /\ h \in TC!Held(e) => \E k \in 1..Len(e) :
              /\ e[k][1] = h /\ TC!index_of(e, h) = k /\ TC!SizeOf(e, h) = e[k][2]
              /\ Len(TC!Drop(e, h)) = Len(e) - 1
              /\ \A i \in 1..Len(e) - 1 : TC!Drop(e, h)[i] = IF i < k THEN e[i] ELSE e[i + 1]
         /\ TC!SizeOf(e, h) \in Nat /\ TC!SizeOf(e, h) <= TC!Total(e)
         /\ TC!Total(TC!Drop(e, h)) = TC!Total(e) - TC!SizeOf(e, h)
         /\ TC!Held(TC!Drop(e, h)) = TC!Held(e) \ {h}
<1>1. Listed(e) /\ Len(e) \in Nat /\ DOMAIN e = 1..Len(e) /\ \A i \in 1..Len(e) : e[i][2] \in Nat
  BY ListedIs DEF OnceIn
<1>2. TC!Total(e) \in Nat
  <2>1. 0 \in 0..Len(e)
    BY <1>1
  <2> QED
    BY <1>1, <2>1, TotalOfParts
<1>3. CASE h \notin TC!Held(e)
  <2>1. TC!Drop(e, h) = e /\ TC!SizeOf(e, h) = 0
    BY <1>3 DEF TC!Drop, TC!SizeOf
  <2>2. TC!Held(e) = TC!Held(e) \ {h}
    BY <1>3
  <2> QED
    BY <1>2, <1>3, <2>1, <2>2
<1>4. CASE h \in TC!Held(e)
  <2>1. PICK k \in 1..Len(e) : e[k][1] = h
    BY <1>1, <1>4 DEF TC!Held
  <2> DEFINE d == TC!RemoveAt(e, k)
  <2>2. TC!index_of(e, h) = k
    BY <2>1, PlaceIs
  <2>3. TC!Drop(e, h) = d /\ TC!SizeOf(e, h) = e[k][2]
    <3> HIDE DEF d
    <3>1. TC!Drop(e, h) = TC!RemoveAt(e, k)
      BY <1>4, <2>2, ZenonT(60) DEF TC!Drop
    <3>2. TC!SizeOf(e, h) = e[k][2]
      BY <1>4, <2>2, ZenonT(60) DEF TC!SizeOf
    <3> QED
      BY <3>1, <3>2 DEF d
  <2>4. /\ Listed(d) /\ Len(d) = Len(e) - 1
        /\ \A i \in 1..Len(e) - 1 : d[i] = IF i < k THEN e[i] ELSE e[i + 1]
        /\ TC!Total(d) = TC!Total(e) - e[k][2]
    BY <1>1, TotalOfRemoveAt, Zenon
  <2>5. TC!Total(d) \in Nat
    <3>1. 0 \in 0..Len(d)
      BY <2>4, ListedIs
    <3> QED
      BY <2>4, <3>1, TotalOfParts
  <2> HIDE DEF d
  <2>6. DOMAIN d = 1..Len(e) - 1
    BY <2>4, ListedIs
  <2>7. ASSUME NEW i \in 1..Len(e) - 1
        PROVE  \E j \in 1..Len(e) : j # k /\ d[i] = e[j] /\ j = (IF i < k THEN i ELSE i + 1)
    <3>1. CASE i < k
      <4>1. i \in 1..Len(e) /\ i # k /\ d[i] = e[i]
        BY <1>1, <2>4, <3>1
      <4> QED
        BY <3>1, <4>1
    <3>2. CASE ~(i < k)
      <4>1. i + 1 \in 1..Len(e) /\ i + 1 # k /\ d[i] = e[i + 1]
        BY <1>1, <2>4, <3>2
      <4> QED
        BY <3>2, <4>1
    <3> QED
      BY <3>1, <3>2
  <2>8. ASSUME NEW j \in 1..Len(e), j # k
        PROVE  \E i \in 1..Len(e) - 1 : d[i] = e[j]
    <3>1. CASE j < k
      <4>1. j \in 1..Len(e) - 1 /\ d[j] = e[j]
        BY <1>1, <2>4, <3>1, SMTT(30)
      <4> QED
        BY <4>1
    <3>2. CASE ~(j < k)
      <4>1. j - 1 \in 1..Len(e) - 1 /\ ~(j - 1 < k) /\ (j - 1) + 1 = j
        BY <1>1, <2>8, <3>2
      <4> QED
        BY <2>4, <4>1
    <3> QED
      BY <3>1, <3>2
  <2>9. TC!Held(d) = TC!Held(e) \ {h}
    <3>1. \A j \in 1..Len(e) : e[j][1] = h <=> j = k
      BY <2>1 DEF OnceIn
    <3>2. TC!Held(d) = {d[i][1] : i \in 1..Len(e) - 1} /\ TC!Held(e) = {e[i][1] : i \in 1..Len(e)}
      BY <1>1, <2>6 DEF TC!Held
    <3>3. ASSUME NEW x \in TC!Held(d) PROVE x \in TC!Held(e) \ {h}
      <4>1. PICK i \in 1..Len(e) - 1 : x = d[i][1]
        BY <3>2
      <4>2. PICK j \in 1..Len(e) : j # k /\ d[i] = e[j]
        BY <2>7
      <4> QED
        BY <3>1, <3>2, <4>1, <4>2
    <3>4. ASSUME NEW x \in TC!Held(e) \ {h} PROVE x \in TC!Held(d)
      <4>1. PICK j \in 1..Len(e) : x = e[j][1] /\ j # k
        BY <2>1, <3>2
      <4>2. PICK i \in 1..Len(e) - 1 : d[i] = e[j]
        BY <2>8, <4>1
      <4> QED
        BY <3>2, <4>1, <4>2
    <3> QED
      BY <3>3, <3>4
  <2>10. OnceIn(d)
    <3>1. ASSUME NEW i \in 1..Len(e) - 1, NEW j \in 1..Len(e) - 1, d[i][1] = d[j][1] PROVE i = j
      <4>1. PICK a \in 1..Len(e) : d[i] = e[a] /\ a = (IF i < k THEN i ELSE i + 1)
        BY <2>7
      <4>2. PICK b \in 1..Len(e) : d[j] = e[b] /\ b = (IF j < k THEN j ELSE j + 1)
        BY <2>7
      <4>3. a = b
        BY <3>1, <4>1, <4>2 DEF OnceIn
      <4> QED
        BY <1>1, <4>1, <4>2, <4>3
    <3> QED
      BY <2>4, <3>1 DEF OnceIn
  <2>11. TC!Total(e) - e[k][2] \in Nat /\ e[k][2] \in Nat
    BY <1>1, <2>4, <2>5
  <2>12. e[k][2] <= TC!Total(e)
    BY <1>2, <2>11
  <2> QED
    BY <1>4, <2>1, <2>2, <2>3, <2>4, <2>9, <2>10, <2>11, <2>12
<1> QED
  BY <1>3, <1>4

\* The end of a list: what is left of r when the first m entries are gone.
EndOf(e, r, m) == /\ m \in 0..Len(r) /\ Len(e) = Len(r) - m
                  /\ \A i \in 1..Len(e) : e[i] = r[m + i]

LEMMA SuffixIs ==
  ASSUME NEW e, NEW r, Listed(e), Listed(r)
  PROVE  TC!IsSuffix(e, r) <=> \E m \in 0..Len(r) : EndOf(e, r, m)
<1> DEFINE S == Hashes \X Nat
           er == TC!Reverse(e)
           rr == TC!Reverse(r)
<1>1. Len(e) \in Nat /\ Len(r) \in Nat /\ e \in Seq(S) /\ r \in Seq(S)
  BY ListedIs DEF Listed
<1>2. er = [i \in 1..Len(e) |-> e[Len(e) - i + 1]] /\ rr = [i \in 1..Len(r) |-> r[Len(r) - i + 1]]
  BY DEF TC!Reverse
<1>3. \A i \in 1..Len(e) : Len(e) - i + 1 \in 1..Len(e)
  BY <1>1
<1>4. \A i \in 1..Len(r) : Len(r) - i + 1 \in 1..Len(r)
  BY <1>1
<1> HIDE DEF S, er, rr
<1>5. er \in Seq(S) /\ Len(er) = Len(e) /\ \A i \in 1..Len(e) : er[i] = e[Len(e) - i + 1]
  BY <1>1, <1>2, <1>3
<1>6. rr \in Seq(S) /\ Len(rr) = Len(r) /\ \A i \in 1..Len(r) : rr[i] = r[Len(r) - i + 1]
  BY <1>1, <1>2, <1>4
<1>7. TC!IsSuffix(e, r) <=> Len(e) <= Len(r) /\ SubSeq(er, 1, Len(e)) = SubSeq(rr, 1, Len(e))
  BY <1>5, <1>6 DEF TC!IsSuffix, TC!IsPrefix, er, rr
<1>8. ASSUME Len(e) <= Len(r)
      PROVE  SubSeq(er, 1, Len(e)) = SubSeq(rr, 1, Len(e)) <=> \A i \in 1..Len(e) : er[i] = rr[i]
  <2>1. SubSeq(er, 1, Len(e)) = [i \in 1..Len(e) |-> er[i]]
    BY <1>1, <1>5
  <2>2. SubSeq(rr, 1, Len(e)) = [i \in 1..Len(e) |-> rr[i]]
    BY <1>1, <1>6, <1>8
  <2> QED
    BY <2>1, <2>2
<1>9. ASSUME Len(e) <= Len(r)
      PROVE  (\A i \in 1..Len(e) : er[i] = rr[i]) <=> \A i \in 1..Len(e) : e[i] = r[(Len(r) - Len(e)) + i]
  <2>1. ASSUME NEW i \in 1..Len(e)
        PROVE  /\ er[Len(e) - i + 1] = e[i]
               /\ rr[Len(e) - i + 1] = r[(Len(r) - Len(e)) + i]
    <3>1. Len(e) - i + 1 \in 1..Len(e) /\ Len(e) - i + 1 \in 1..Len(r)
      BY <1>1, <1>9
    <3>2. Len(e) - (Len(e) - i + 1) + 1 = i
          /\ Len(r) - (Len(e) - i + 1) + 1 = (Len(r) - Len(e)) + i
      BY <1>1
    <3> QED
      BY <1>5, <1>6, <3>1, <3>2
  <2>2. ASSUME NEW i \in 1..Len(e), e[Len(e) - i + 1] = r[(Len(r) - Len(e)) + (Len(e) - i + 1)]
        PROVE  er[i] = rr[i]
    <3>1. (Len(r) - Len(e)) + (Len(e) - i + 1) = Len(r) - i + 1 /\ i \in 1..Len(r)
      BY <1>1, <1>9
    <3> QED
      BY <1>5, <1>6, <2>2, <3>1
  <2>3. ASSUME \A i \in 1..Len(e) : er[i] = rr[i], NEW i \in 1..Len(e)
        PROVE  e[i] = r[(Len(r) - Len(e)) + i]
    <3>1. Len(e) - i + 1 \in 1..Len(e)
      BY <1>3
    <3> QED
      BY <2>1, <2>3, <3>1
  <2>4. ASSUME \A i \in 1..Len(e) : e[i] = r[(Len(r) - Len(e)) + i], NEW i \in 1..Len(e)
        PROVE  er[i] = rr[i]
    <3>1. Len(e) - i + 1 \in 1..Len(e)
      BY <1>3
    <3> QED
      BY <2>2, <2>4, <3>1
  <2> QED
    BY <2>3, <2>4
<1>10. ASSUME Len(e) <= Len(r), \A i \in 1..Len(e) : e[i] = r[(Len(r) - Len(e)) + i]
       PROVE  \E m \in 0..Len(r) : EndOf(e, r, m)
  <2>1. Len(r) - Len(e) \in 0..Len(r) /\ Len(e) = Len(r) - (Len(r) - Len(e))
    BY <1>1, <1>10
  <2> QED
    BY <1>10, <2>1 DEF EndOf
<1>11. ASSUME NEW m \in 0..Len(r), EndOf(e, r, m)
       PROVE  Len(e) <= Len(r) /\ \A i \in 1..Len(e) : e[i] = r[(Len(r) - Len(e)) + i]
  <2>1. Len(e) = Len(r) - m /\ Len(r) - Len(e) = m /\ Len(e) <= Len(r)
    BY <1>1, <1>11 DEF EndOf
  <2> QED
    BY <1>11, <2>1 DEF EndOf
<1> QED
  BY <1>7, <1>8, <1>9, <1>10, <1>11

\* Dropping a hash, adding an entry and leaving out the first ones keep a list
\* the end of another.
LEMMA DropOfEnd ==
  ASSUME NEW e, NEW r, OnceIn(e), OnceIn(r), TC!IsSuffix(e, r), NEW h
  PROVE  TC!IsSuffix(TC!Drop(e, h), TC!Drop(r, h))
<1> DEFINE d == TC!Drop(e, h)
           s == TC!Drop(r, h)
<1>1. /\ Listed(e) /\ Len(e) \in Nat /\ DOMAIN e = 1..Len(e)
      /\ Listed(r) /\ Len(r) \in Nat /\ DOMAIN r = 1..Len(r)
  BY ListedIs DEF OnceIn
<1>2. Listed(d) /\ Listed(s)
  BY DropIs DEF OnceIn
<1>3. PICK m \in 0..Len(r) : EndOf(e, r, m)
  BY <1>1, SuffixIs
<1>4. Len(e) = Len(r) - m /\ \A i \in 1..Len(e) : e[i] = r[m + i] /\ m + i \in 1..Len(r)
  BY <1>1, <1>3 DEF EndOf
<1> SUFFICES \E n \in 0..Len(s) : EndOf(d, s, n)
  BY <1>2, SuffixIs
<1>5. CASE h \in TC!Held(e)
  <2>1. PICK k \in 1..Len(e) : /\ e[k][1] = h /\ Len(d) = Len(e) - 1
                               /\ \A i \in 1..Len(e) - 1 : d[i] = IF i < k THEN e[i] ELSE e[i + 1]
    BY <1>5, DropIs
  <2>2. r[m + k][1] = h /\ m + k \in 1..Len(r)
    BY <1>4, <2>1
  <2>3. h \in TC!Held(r)
    BY <1>1, <2>2 DEF TC!Held
  <2>4. PICK l \in 1..Len(r) : /\ r[l][1] = h /\ Len(s) = Len(r) - 1
                               /\ \A i \in 1..Len(r) - 1 : s[i] = IF i < l THEN r[i] ELSE r[i + 1]
    BY <2>3, DropIs
  <2>5. l = m + k
    BY <2>2, <2>4 DEF OnceIn
  <2> HIDE DEF d, s
  <2>6. m \in 0..Len(s) /\ Len(d) = Len(s) - m
    BY <1>1, <1>4, <2>1, <2>4
  <2>7. ASSUME NEW i \in 1..Len(d) PROVE d[i] = s[m + i]
    <3>1. i \in 1..Len(e) - 1 /\ m + i \in 1..Len(r) - 1 /\ i \in 1..Len(e) /\ i + 1 \in 1..Len(e)
          /\ m + (i + 1) = (m + i) + 1 /\ (i < k <=> m + i < l)
      BY <1>1, <1>4, <2>1, <2>5
    <3>2. d[i] = IF i < k THEN e[i] ELSE e[i + 1]
      BY <2>1, <3>1
    <3>3. s[m + i] = IF m + i < l THEN r[m + i] ELSE r[(m + i) + 1]
      BY <2>4, <3>1
    <3>4. e[i] = r[m + i] /\ e[i + 1] = r[(m + i) + 1]
      BY <1>4, <3>1
    <3> QED
      BY <3>1, <3>2, <3>3, <3>4
  <2> QED
    BY <2>6, <2>7 DEF EndOf
<1>6. CASE h \notin TC!Held(e) /\ h \in TC!Held(r)
  <2>1. d = e
    BY <1>6, DropIs
  <2>2. PICK l \in 1..Len(r) : /\ r[l][1] = h /\ Len(s) = Len(r) - 1
                               /\ \A i \in 1..Len(r) - 1 : s[i] = IF i < l THEN r[i] ELSE r[i + 1]
    BY <1>6, DropIs
  <2> HIDE DEF d, s
  <2>3. l <= m
    <3> SUFFICES ASSUME l > m PROVE FALSE
      BY <1>1
    <3>1. l - m \in 1..Len(e) /\ m + (l - m) = l
      BY <1>1, <1>4
    <3>2. e[l - m][1] = h
      BY <1>4, <2>2, <3>1
    <3> QED
      BY <1>1, <1>6, <3>1, <3>2 DEF TC!Held
  <2>4. m - 1 \in 0..Len(s) /\ Len(d) = Len(s) - (m - 1)
    <3>1. l \in Nat /\ l >= 1 /\ m \in Nat /\ m <= Len(r)
      BY <1>1
    <3>2. m - 1 \in Nat /\ m - 1 <= Len(r) - 1
      BY <2>3, <3>1
    <3>3. Len(d) = Len(r) - m
      BY <1>4, <2>1
    <3> QED
      BY <1>1, <2>2, <3>1, <3>2, <3>3
  <2>5. ASSUME NEW i \in 1..Len(d) PROVE d[i] = s[(m - 1) + i]
    <3>1. i \in 1..Len(e) /\ (m - 1) + i \in 1..Len(r) - 1 /\ ~((m - 1) + i < l)
          /\ ((m - 1) + i) + 1 = m + i
      BY <1>1, <1>4, <2>1, <2>3
    <3>2. s[(m - 1) + i] = r[m + i]
      BY <2>2, <3>1
    <3> QED
      BY <1>4, <2>1, <3>1, <3>2
  <2> QED
    BY <2>4, <2>5 DEF EndOf
<1>7. CASE h \notin TC!Held(e) /\ h \notin TC!Held(r)
  <2>1. d = e /\ s = r
    BY <1>7, DropIs
  <2> QED
    BY <1>3, <2>1
<1> QED
  BY <1>5, <1>6, <1>7

LEMMA AppendToEnd ==
  ASSUME NEW e, NEW r, Listed(e), Listed(r), TC!IsSuffix(e, r), NEW x \in Hashes \X Nat
  PROVE  TC!IsSuffix(Append(e, x), Append(r, x))
<1> DEFINE a == Append(e, x)
           b == Append(r, x)
<1>1. Len(e) \in Nat /\ Len(r) \in Nat
  BY ListedIs
<1>2. PICK m \in 0..Len(r) : EndOf(e, r, m)
  BY SuffixIs
<1>3. Listed(a) /\ Listed(b) /\ Len(a) = Len(e) + 1 /\ Len(b) = Len(r) + 1
  BY TotalOfAppend
<1>4. /\ a[Len(e) + 1] = x /\ \A i \in 1..Len(e) : a[i] = e[i]
      /\ b[Len(r) + 1] = x /\ \A i \in 1..Len(r) : b[i] = r[i]
  BY <1>1 DEF Listed
<1> HIDE DEF a, b
<1>5. m \in 0..Len(b) /\ Len(a) = Len(b) - m /\ m + (Len(e) + 1) = Len(r) + 1
  BY <1>1, <1>2, <1>3 DEF EndOf
<1>6. ASSUME NEW i \in 1..Len(a) PROVE a[i] = b[m + i]
  <2>1. CASE i = Len(e) + 1
    BY <1>4, <1>5, <2>1
  <2>2. CASE i # Len(e) + 1
    <3>1. i \in 1..Len(e) /\ m + i \in 1..Len(r)
      BY <1>1, <1>2, <1>3, <2>2 DEF EndOf
    <3> QED
      BY <1>2, <1>4, <3>1 DEF EndOf
  <2> QED
    BY <2>1, <2>2
<1>7. EndOf(a, b, m)
  BY <1>5, <1>6 DEF EndOf
<1>8. TC!IsSuffix(a, b)
  BY <1>3, <1>5, <1>7, SuffixIs
<1> QED
  BY <1>8 DEF a, b

LEMMA RestOfEnd ==
  ASSUME NEW e, NEW r, Listed(e), Listed(r), TC!IsSuffix(e, r), NEW n \in 0..Len(e)
  PROVE  TC!IsSuffix(SubSeq(e, n + 1, Len(e)), r)
<1> DEFINE a == SubSeq(e, n + 1, Len(e))
<1>1. Len(e) \in Nat /\ Len(r) \in Nat
  BY ListedIs
<1>2. PICK m \in 0..Len(r) : EndOf(e, r, m)
  BY SuffixIs
<1>3. Listed(a) /\ Len(a) = Len(e) - n /\ \A i \in 1..Len(e) - n : a[i] = e[n + i]
  <2>1. Listed(a) /\ Len(a) = Len(e) - n
    BY TotalOfParts
  <2>2. e \in Seq(Hashes \X Nat)
    BY DEF Listed
  <2>3. \A i \in 1..Len(e) - n : a[i] = e[n + i]
    BY <1>1, <2>2
  <2> QED
    BY <2>1, <2>3
<1> HIDE DEF a
<1>4. m + n \in 0..Len(r) /\ Len(a) = Len(r) - (m + n)
  BY <1>1, <1>2, <1>3 DEF EndOf
<1>5. ASSUME NEW i \in 1..Len(a) PROVE a[i] = r[(m + n) + i]
  <2>1. i \in 1..Len(e) - n /\ n + i \in 1..Len(e) /\ m + (n + i) = (m + n) + i
    BY <1>1, <1>3
  <2>2. e[n + i] = r[m + (n + i)]
    BY <1>2, <2>1 DEF EndOf
  <2> QED
    BY <1>3, <2>1, <2>2
<1>6. EndOf(a, r, m + n)
  BY <1>4, <1>5 DEF EndOf
<1>7. TC!IsSuffix(a, r)
  BY <1>3, <1>4, <1>6, SuffixIs
<1> QED
  BY <1>7 DEF a

\* The end of a list without repetitions has none either.
LEMMA OnceInEnd ==
  ASSUME NEW e, NEW r, Listed(e), OnceIn(r), TC!IsSuffix(e, r)
  PROVE  OnceIn(e) /\ TC!Held(e) \subseteq TC!Held(r)
<1>1. /\ Listed(r) /\ Len(e) \in Nat /\ Len(r) \in Nat
      /\ DOMAIN e = 1..Len(e) /\ DOMAIN r = 1..Len(r)
  BY ListedIs DEF OnceIn
<1>2. PICK m \in 0..Len(r) : EndOf(e, r, m)
  BY <1>1, SuffixIs
<1>3. \A i \in 1..Len(e) : m + i \in 1..Len(r) /\ e[i] = r[m + i]
  BY <1>1, <1>2 DEF EndOf
<1>4. ASSUME NEW i \in 1..Len(e), NEW j \in 1..Len(e), e[i][1] = e[j][1] PROVE i = j
  <2>1. /\ m + i \in 1..Len(r) /\ m + j \in 1..Len(r)
        /\ r[m + i][1] = r[m + j][1]
    BY <1>3, <1>4
  <2>2. m + i = m + j
    BY <2>1 DEF OnceIn
  <2> QED
    BY <1>1, <2>2
<1>5. TC!Held(e) \subseteq TC!Held(r)
  BY <1>1, <1>3 DEF TC!Held
<1> QED
  BY <1>4, <1>5 DEF OnceIn

LEMMA HeldOfAppend ==
  ASSUME NEW e, Listed(e), NEW x \in Hashes \X Nat
  PROVE  /\ TC!Held(Append(e, x)) = TC!Held(e) \cup {x[1]}
         /\ OnceIn(e) /\ x[1] \notin TC!Held(e) => OnceIn(Append(e, x))
<1> DEFINE a == Append(e, x)
<1>1. Len(e) \in Nat /\ DOMAIN e = 1..Len(e) /\ \A i \in 1..Len(e) : e[i] \in Hashes \X Nat
  BY ListedIs
<1>2. Listed(a) /\ Len(a) = Len(e) + 1
  BY TotalOfAppend
<1>3. a[Len(e) + 1] = x /\ \A i \in 1..Len(e) : a[i] = e[i]
  BY <1>1 DEF Listed
<1> HIDE DEF a
<1>4. DOMAIN a = 1..Len(e) + 1
  BY <1>2, ListedIs
<1>5. TC!Held(a) = TC!Held(e) \cup {x[1]}
  <2>1. TC!Held(a) = {a[i][1] : i \in 1..Len(e) + 1} /\ TC!Held(e) = {e[i][1] : i \in 1..Len(e)}
    BY <1>1, <1>4 DEF TC!Held
  <2>2. \A i \in 1..Len(e) + 1 : i = Len(e) + 1 \/ i \in 1..Len(e)
    BY <1>1
  <2>3. \A i \in 1..Len(e) : i \in 1..Len(e) + 1
    BY <1>1
  <2>4. Len(e) + 1 \in 1..Len(e) + 1
    BY <1>1
  <2> QED
    BY <1>3, <2>1, <2>2, <2>3, <2>4
<1>6. ASSUME OnceIn(e), x[1] \notin TC!Held(e), NEW i \in 1..Len(a), NEW j \in 1..Len(a), a[i][1] = a[j][1]
      PROVE  i = j
  <2>1. \A k \in 1..Len(e) : e[k][1] # x[1]
    BY <1>1, <1>6 DEF TC!Held
  <2>2. \A k \in 1..Len(a) : k = Len(e) + 1 \/ k \in 1..Len(e)
    BY <1>1, <1>2
  <2> QED
    BY <1>3, <1>6, <2>1, <2>2 DEF OnceIn
<1>7. OnceIn(e) /\ x[1] \notin TC!Held(e) => OnceIn(a)
  BY <1>2, <1>6 DEF OnceIn
<1> QED
  BY <1>5, <1>7 DEF a

LEMMA TotalOfNone ==
  ASSUME NEW e, Listed(e), Len(e) = 0
  PROVE  TC!Total(e) = 0 /\ TC!Held(e) = {}
<1>1. PICK f \in [0..Len(e) -> Nat] : Sums(f, e)
  BY SumsExist
<1>2. DOMAIN e = {}
  BY ListedIs
<1> QED
  BY <1>1, <1>2, TotalIsSum DEF Sums, TC!Held

\* The first entries of a list and the next one.
LEMMA OneMore ==
  ASSUME NEW S, NEW e \in Seq(S), NEW n \in 1..Len(e)
  PROVE  SubSeq(e, 1, n) = Append(SubSeq(e, 1, n - 1), e[n])
<1> DEFINE a == SubSeq(e, 1, n - 1)
<1>1. Len(e) \in Nat /\ n \in Nat
  OBVIOUS
<1>2. a \in Seq(S) /\ Len(a) = n - 1 /\ \A i \in 1..n - 1 : a[i] = e[i]
  BY <1>1
<1> HIDE DEF a
<1>3. Append(a, e[n]) \in Seq(S) /\ Len(Append(a, e[n])) = n
  BY <1>1, <1>2
<1>4. \A i \in 1..n : Append(a, e[n])[i] = e[i]
  BY <1>1, <1>2
<1>5. SubSeq(e, 1, n) = [i \in 1..n |-> e[i]]
  BY <1>1
<1> QED
  BY <1>3, <1>4, <1>5 DEF a

\* What an eviction leaves: the end of the list, with the bytes of that; it fits
\* or no more than `keep` entries are left, and with the last one that went it
\* would not fit, nor would there be as few.
LEMMA EvictedIs ==
  ASSUME NEW e, OnceIn(e), NEW limit \in Nat, NEW keep \in Nat,
         NEW n, n = TC!Evicted(e, TC!Total(e), limit, keep)
  PROVE  /\ n \in 0..Len(e)
         /\ TC!saturating_sub(TC!Total(e), TC!Total(SubSeq(e, 1, n))) = TC!Total(SubSeq(e, n + 1, Len(e)))
         /\ TC!Total(SubSeq(e, n + 1, Len(e))) > limit => Len(e) - n <= keep
         /\ n > 0 => /\ TC!Total(SubSeq(e, n + 1, Len(e))) + e[n][2] > limit
                     /\ Len(e) - n >= keep
         /\ \A i \in 1..Len(e) : e[i][1] \in TC!Held(SubSeq(e, n + 1, Len(e))) <=> i > n
<1> DEFINE Stop(i) == TC!Total(e) - TC!Total(SubSeq(e, 1, i)) <= limit \/ Len(e) - i <= keep
           S == {i \in 0..Len(e) : Stop(i)}
           rest == SubSeq(e, n + 1, Len(e))
<1>1. Listed(e) /\ Len(e) \in Nat /\ \A i \in 1..Len(e) : e[i] \in Hashes \X Nat /\ e[i][2] \in Nat
  BY ListedIs DEF OnceIn
<1>2. S \in SUBSET Nat /\ Len(e) \in S
  BY <1>1
<1>3. n \in S /\ \A k \in S : n <= k
  <2>1. n = TC!Min(S)
    BY DEF TC!Evicted
  <2> HIDE DEF S
  <2> QED
    BY <1>2, <2>1, LeastNumber
<1>4. n \in 0..Len(e) /\ Stop(n) /\ (n > 0 => ~Stop(n - 1))
  <2>1. n \in 0..Len(e) /\ Stop(n)
    BY <1>3
  <2>2. ASSUME n > 0 PROVE ~Stop(n - 1)
    <3>1. n - 1 \in 0..Len(e) /\ ~(n <= n - 1)
      BY <1>1, <2>1, <2>2
    <3> HIDE DEF Stop
    <3> QED
      BY <1>3, <3>1
  <2> QED
    BY <2>1, <2>2
<1>5. /\ Listed(rest) /\ Len(rest) = Len(e) - n
      /\ TC!Total(e) \in Nat /\ TC!Total(SubSeq(e, 1, n)) \in Nat /\ TC!Total(rest) \in Nat
      /\ TC!Total(e) = TC!Total(SubSeq(e, 1, n)) + TC!Total(rest)
  BY <1>1, <1>4, TotalOfParts
<1>6. TC!saturating_sub(TC!Total(e), TC!Total(SubSeq(e, 1, n))) = TC!Total(rest)
  <2> HIDE DEF rest
  <2> QED
    BY <1>5 DEF TC!saturating_sub
<1>7. TC!Total(rest) > limit => Len(e) - n <= keep
  <2> HIDE DEF rest
  <2> QED
    BY <1>4, <1>5
<1>8. ASSUME n > 0
      PROVE  TC!Total(rest) + e[n][2] > limit /\ Len(e) - n >= keep
  <2> DEFINE a == SubSeq(e, 1, n - 1)
             b == SubSeq(e, 1, n)
  <2>1. n - 1 \in 0..Len(e) /\ n \in 1..Len(e)
    BY <1>1, <1>4, <1>8
  <2>2. Listed(a) /\ Len(a) = n - 1 /\ TC!Total(a) \in Nat
    BY <1>1, <2>1, TotalOfParts
  <2>3. b = Append(a, e[n])
    BY <1>1, <2>1, OneMore DEF Listed
  <2>4. TC!Total(b) = TC!Total(a) + e[n][2]
    <3>1. e[n] \in Hashes \X Nat
      BY <1>1, <2>1
    <3> HIDE DEF a, b
    <3> QED
      BY <2>2, <2>3, <3>1, TotalOfAppend
  <2> HIDE DEF a, b, rest
  <2>5. ~(TC!Total(e) - TC!Total(a) <= limit) /\ ~(Len(e) - (n - 1) <= keep)
    BY <1>4, <1>8 DEF a
  <2>6. TC!Total(e) = TC!Total(b) + TC!Total(rest) /\ e[n][2] \in Nat
    BY <1>1, <1>5, <2>1 DEF b
  <2>7. TC!Total(rest) + e[n][2] > limit
    <3>1. /\ TC!Total(e) \in Nat /\ TC!Total(a) \in Nat /\ TC!Total(rest) \in Nat /\ e[n][2] \in Nat
          /\ TC!Total(e) = (TC!Total(a) + e[n][2]) + TC!Total(rest)
          /\ TC!Total(e) - TC!Total(a) > limit
      <4>1. TC!Total(e) = TC!Total(b) + TC!Total(rest)
        BY <2>6
      <4>2. TC!Total(e) \in Nat /\ TC!Total(rest) \in Nat
        BY <1>5
      <4>3. TC!Total(e) - TC!Total(a) > limit
        BY <2>2, <2>5, <4>2
      <4> QED
        BY <2>2, <2>4, <2>6, <4>1, <4>2, <4>3
    <3> QED
      BY <3>1
  <2>8. Len(e) - n >= keep
    BY <1>1, <2>1, <2>5
  <2> QED
    BY <2>7, <2>8
<1>9. \A i \in 1..Len(e) : e[i][1] \in TC!Held(rest) <=> i > n
  <2>1. e \in Seq(Hashes \X Nat)
    BY <1>1 DEF Listed
  <2>2. \A i \in 1..Len(e) - n : rest[i] = e[n + i]
    BY <1>1, <1>4, TotalOfParts
  <2> HIDE DEF rest
  <2>3. TC!Held(rest) = {rest[i][1] : i \in 1..Len(e) - n}
    BY <1>5, ListedIs DEF TC!Held
  <2>4. ASSUME NEW i \in 1..Len(e), i > n PROVE e[i][1] \in TC!Held(rest)
    <3>1. i - n \in 1..Len(e) - n /\ n + (i - n) = i
      BY <1>1, <1>4, <2>4
    <3> QED
      BY <2>2, <2>3, <3>1
  <2>5. ASSUME NEW i \in 1..Len(e), e[i][1] \in TC!Held(rest) PROVE i > n
    <3>1. PICK k \in 1..Len(e) - n : e[i][1] = e[n + k][1]
      BY <2>2, <2>3, <2>5
    <3>2. n + k \in 1..Len(e) /\ n + k > n
      BY <1>1, <1>4
    <3> QED
      BY <3>1, <3>2 DEF OnceIn
  <2> QED
    BY <2>4, <2>5
<1> HIDE DEF rest
<1> QED
  BY <1>4, <1>6, <1>7, <1>8, <1>9 DEF rest

-----------------------------------------------------------------------------
(* The transaction cache *)

Rows == Seq(Hashes \X Sizes)

LEMMA RowsAreListed ==
  ASSUME NEW e \in Rows
  PROVE  Listed(e)
<1>1. Hashes \X Sizes \subseteq Hashes \X Nat
  BY CacheAssumption
<1>2. Len(e) \in Nat /\ e \in [1..Len(e) -> Hashes \X Sizes]
  BY DEF Rows
<1>3. e \in [1..Len(e) -> Hashes \X Nat]
  BY <1>1, <1>2
<1>4. e \in Seq(Hashes \X Nat)
  BY <1>2, <1>3
<1> QED
  BY <1>4 DEF Listed

LEMMA RowsDrop ==
  ASSUME NEW e \in Rows, OnceIn(e), NEW h
  PROVE  TC!Drop(e, h) \in Rows /\ (h \in TC!Held(e) => TC!SizeOf(e, h) \in Sizes)
<1> DEFINE d == TC!Drop(e, h)
<1>1. Len(e) \in Nat /\ \A i \in 1..Len(e) : e[i] \in Hashes \X Sizes
  BY DEF Rows
<1>2. CASE h \in TC!Held(e)
  <2>1. PICK k \in 1..Len(e) : /\ TC!SizeOf(e, h) = e[k][2] /\ Len(d) = Len(e) - 1
                               /\ \A i \in 1..Len(e) - 1 : d[i] = IF i < k THEN e[i] ELSE e[i + 1]
    BY <1>2, DropIs
  <2>2. Listed(d)
    BY DropIs DEF OnceIn
  <2>3. e[k][2] \in Sizes
    BY <1>1
  <2> HIDE DEF d
  <2>4. ASSUME NEW i \in 1..Len(d) PROVE d[i] \in Hashes \X Sizes
    <3>1. i \in 1..Len(e) - 1 /\ i \in 1..Len(e) /\ i + 1 \in 1..Len(e)
      BY <1>1, <2>1
    <3>2. e[i] \in Hashes \X Sizes /\ e[i + 1] \in Hashes \X Sizes
      BY <1>1, <3>1
    <3>3. d[i] = e[i] \/ d[i] = e[i + 1]
      BY <2>1, <3>1
    <3> QED
      BY <3>2, <3>3
  <2>5. d \in Seq(Hashes \X Sizes)
    BY <2>2, <2>4 DEF Listed
  <2> QED
    BY <2>1, <2>3, <2>5 DEF Rows, d
<1>3. CASE h \notin TC!Held(e)
  BY <1>3, DropIs
<1> QED
  BY <1>2, <1>3

LEMMA CacheIs ==
  ASSUME TC!IInv
  PROVE  /\ entries \in Rows /\ recent \in Rows /\ OnceIn(entries) /\ OnceIn(recent)
         /\ TC!Held(entries) \subseteq TC!Held(recent)
         /\ total_size = TC!Total(entries) /\ total_size \in Nat
         /\ max_size \in Limits /\ max_size \in Nat
         /\ total_size > max_size => Len(entries) = 1
         /\ TC!IsSuffix(entries, recent)
<1>1. entries \in Rows /\ recent \in Rows /\ total_size \in Nat /\ max_size \in Limits
  BY DEF TC!IInv, TC!TypeOK, Rows
<1>2. Listed(entries) /\ Listed(recent)
  BY <1>1, RowsAreListed
<1>3. OnceIn(recent)
  BY <1>2, ListedIs DEF TC!IInv, TC!OnceEach, OnceIn
<1>4. TC!IsSuffix(entries, recent)
  BY DEF TC!IInv, TC!KeepsTheRecent
<1>5. OnceIn(entries) /\ TC!Held(entries) \subseteq TC!Held(recent)
  BY <1>2, <1>3, <1>4, OnceInEnd
<1> QED
  BY <1>1, <1>3, <1>4, <1>5, CacheAssumption DEF TC!IInv, TC!WithinLimit

\* What a step has to show of the lists and of the metadata.
ListsStand == /\ entries \in Rows /\ recent \in Rows /\ OnceIn(recent)
              /\ total_size = TC!Total(entries) /\ max_size \in Limits
              /\ total_size > max_size => Len(entries) = 1
              /\ TC!IsSuffix(entries, recent)
FlagsStand == /\ DOMAIN metadata_cache \subseteq Hashes
              /\ \A h \in DOMAIN metadata_cache : metadata_cache[h] \in FlagSets
              /\ TC!HolderInv

LEMMA CacheStands == TC!IInv <=> ListsStand /\ FlagsStand
<1>1. ASSUME TC!IInv PROVE ListsStand /\ FlagsStand
  BY <1>1, CacheIs DEF TC!IInv, TC!TypeOK, ListsStand, FlagsStand
<1>2. ASSUME ListsStand, FlagsStand PROVE TC!IInv
  <2>1. Listed(entries) /\ Listed(recent)
    BY <1>2, RowsAreListed DEF ListsStand
  <2>2. total_size \in Nat
    <3>1. 0 \in 0..Len(entries)
      BY <2>1, ListedIs
    <3> QED
      BY <1>2, <2>1, <3>1, TotalOfParts DEF ListsStand
  <2>3. TC!OnceEach
    BY <1>2, <2>1, ListedIs DEF ListsStand, OnceIn, TC!OnceEach
  <2> QED
    BY <1>2, <2>2, <2>3 DEF ListsStand, FlagsStand, Rows, TC!IInv, TC!TypeOK, TC!WithinLimit,
       TC!KeepsTheRecent
<1> QED
  BY <1>1, <1>2

\* Nothing was evicted, ...
LEMMA NoneEvicted ==
  ASSUME (TC!Held(entries) \ TC!Held(entries')) \cap TC!Held(recent') = {}
  PROVE  TC!StopsInTime
<1> DEFINE evicted == (TC!Held(entries) \ TC!Held(entries')) \cap TC!Held(recent')
           S == {0} \cup {i \in DOMAIN entries : entries[i][1] \in evicted}
<1>1. S = {0}
  OBVIOUS
<1>2. TC!Max(S) = 0
  <2>1. {0} \in SUBSET Nat /\ {0} # {} /\ \A k \in {0} : k <= 0
    OBVIOUS
  <2> HIDE DEF S
  <2>2. TC!Max({0}) \in {0}
    BY <2>1, GreatestNumber
  <2> QED
    BY <1>1, <2>2
<1> HIDE DEF S
<1>3. ~(TC!Max(S) > 0)
  BY <1>2
<1> QED
  BY <1>3 DEF TC!StopsInTime, S

\* ... or the last one that was is known.
LEMMA LastEvicted ==
  ASSUME OnceIn(entries), NEW j \in 1..Len(entries),
         entries[j][1] \notin TC!Held(entries'), entries[j][1] \in TC!Held(recent'),
         \A i \in 1..Len(entries) : i > j => entries[i][1] \in TC!Held(entries'),
         TC!Total(entries') + entries[j][2] > max_size'
  PROVE  TC!StopsInTime
<1> DEFINE evicted == (TC!Held(entries) \ TC!Held(entries')) \cap TC!Held(recent')
           S == {0} \cup {i \in DOMAIN entries : entries[i][1] \in evicted}
<1>1. Len(entries) \in Nat /\ DOMAIN entries = 1..Len(entries)
  BY ListedIs DEF OnceIn
<1>2. S \in SUBSET Nat /\ S # {} /\ \A k \in S : k <= Len(entries)
  BY <1>1
<1>3. j \in S
  BY <1>1 DEF TC!Held
<1>4. \A k \in S : k <= j
  BY <1>1
<1> HIDE DEF S
<1>5. TC!Max(S) \in S /\ \A k \in S : TC!Max(S) >= k
  BY <1>1, <1>2, GreatestNumber
<1>6. TC!Max(S) = j
  <2>1. TC!Max(S) \in Nat /\ TC!Max(S) <= j /\ TC!Max(S) >= j /\ j \in Nat
    BY <1>1, <1>2, <1>3, <1>4, <1>5
  <2> QED
    BY <2>1
<1> QED
  BY <1>6 DEF TC!StopsInTime, S

\* What is stored comes last, for good: what goes are the first of the others.
LEMMA Stored ==
  ASSUME TC!IInv, NEW h \in Hashes, NEW len \in Sizes, TC!add_bytedata(h, len)
  PROVE  ListsStand' /\ TC!StopsInTime
<1> DEFINE d == TC!Drop(entries, h)
           x == <<h, len>>
           e == Append(d, x)
           n == TC!Evicted(e, TC!Total(e), max_size, 1)
           rest == SubSeq(e, n + 1, Len(e))
<1>0. /\ entries \in Rows /\ recent \in Rows /\ OnceIn(entries) /\ OnceIn(recent)
      /\ TC!Held(entries) \subseteq TC!Held(recent) /\ TC!IsSuffix(entries, recent)
      /\ total_size = TC!Total(entries) /\ total_size \in Nat /\ max_size \in Limits /\ max_size \in Nat
  BY CacheIs
<1>1. len \in Nat /\ x \in Hashes \X Nat /\ x \in Hashes \X Sizes /\ x[1] = h /\ x[2] = len
  BY CacheAssumption
<1>2. /\ OnceIn(d) /\ Listed(d) /\ TC!Held(d) = TC!Held(entries) \ {h}
      /\ TC!SizeOf(entries, h) \in Nat /\ TC!SizeOf(entries, h) <= TC!Total(entries)
      /\ TC!Total(d) = TC!Total(entries) - TC!SizeOf(entries, h)
  BY <1>0, DropIs DEF OnceIn
<1>3. d \in Rows /\ Len(d) \in Nat
  BY <1>0, <1>2, RowsDrop, ListedIs
<1> HIDE DEF d, x
<1>4. /\ OnceIn(e) /\ Listed(e) /\ TC!Held(e) = TC!Held(d) \cup {h} /\ Len(e) = Len(d) + 1
      /\ TC!Total(e) = TC!Total(d) + len
  BY <1>1, <1>2, HeldOfAppend, TotalOfAppend DEF OnceIn
<1>5. e \in Rows /\ e[Len(e)] = x /\ \A i \in 1..Len(d) : e[i] = d[i]
  BY <1>1, <1>3, <1>4 DEF Rows
<1>6. TC!saturating_sub(total_size, TC!SizeOf(entries, h)) + len = TC!Total(e)
  BY <1>0, <1>1, <1>2, <1>4 DEF TC!saturating_sub
<1> HIDE DEF e
<1>7. /\ entries' = rest
      /\ total_size' = TC!saturating_sub(TC!Total(e), TC!Total(SubSeq(e, 1, n)))
      /\ recent' = Append(TC!Drop(recent, h), x) /\ max_size' = max_size
  BY <1>6 DEF TC!add_bytedata, TC!Evict, TC!Touched, d, x, e
<1>8. /\ n \in 0..Len(e)
      /\ TC!saturating_sub(TC!Total(e), TC!Total(SubSeq(e, 1, n))) = TC!Total(rest)
      /\ TC!Total(rest) > max_size => Len(e) - n <= 1
      /\ n > 0 => TC!Total(rest) + e[n][2] > max_size /\ Len(e) - n >= 1
      /\ \A i \in 1..Len(e) : e[i][1] \in TC!Held(rest) <=> i > n
  BY <1>0, <1>4, EvictedIs
<1> HIDE DEF n
<1>9. /\ Listed(rest) /\ Len(rest) = Len(e) - n /\ TC!Total(rest) \in Nat /\ rest \in Rows
  <2>1. Listed(rest) /\ Len(rest) = Len(e) - n /\ TC!Total(rest) \in Nat
        /\ \A i \in 1..Len(e) - n : rest[i] = e[n + i]
    BY <1>4, <1>8, TotalOfParts
  <2> HIDE DEF rest
  <2>2. ASSUME NEW i \in 1..Len(rest) PROVE rest[i] \in Hashes \X Sizes
    <3>1. n + i \in 1..Len(e) /\ rest[i] = e[n + i]
      BY <1>3, <1>4, <1>8, <2>1
    <3> QED
      BY <1>5, <3>1 DEF Rows
  <2>3. rest \in Rows
    BY <2>1, <2>2, SMTT(30) DEF Rows, Listed
  <2> QED
    BY <2>1, <2>3
<1>10. Len(e) \in Nat /\ Len(e) >= 1 /\ n < Len(e) /\ n \in Nat
  BY <1>3, <1>4, <1>8
<1>11. /\ OnceIn(recent') /\ recent' \in Rows /\ TC!IsSuffix(e, recent')
       /\ TC!Held(recent') = TC!Held(recent) \cup {h}
  <2> DEFINE r == TC!Drop(recent, h)
  <2>1. OnceIn(r) /\ Listed(r) /\ TC!Held(r) = TC!Held(recent) \ {h} /\ r \in Rows
    BY <1>0, DropIs, RowsDrop DEF OnceIn
  <2>2. TC!IsSuffix(d, r)
    BY <1>0, DropOfEnd DEF d
  <2> HIDE DEF r
  <2>3. OnceIn(Append(r, x)) /\ TC!Held(Append(r, x)) = TC!Held(r) \cup {h}
    BY <1>1, <2>1, HeldOfAppend
  <2>4. Append(r, x) \in Rows
    BY <1>1, <2>1 DEF Rows
  <2>5. TC!IsSuffix(Append(d, x), Append(r, x))
    BY <1>1, <1>2, <2>1, <2>2, AppendToEnd
  <2> QED
    BY <1>7, <2>1, <2>3, <2>4, <2>5 DEF e, r
<1>12. TC!IsSuffix(rest, recent')
  BY <1>4, <1>8, <1>11, RestOfEnd DEF OnceIn
<1> HIDE DEF rest
<1>13. ListsStand'
  <2>1. total_size' > max_size' => Len(entries') = 1
    BY <1>7, <1>8, <1>9, <1>10
  <2> QED
    BY <1>0, <1>7, <1>8, <1>9, <1>11, <1>12, <2>1 DEF ListsStand
<1>14. TC!StopsInTime
  <2>0. /\ Len(entries) \in Nat /\ DOMAIN entries = 1..Len(entries)
    BY <1>0, ListedIs DEF OnceIn
  <2>1. h \in TC!Held(entries')
    BY <1>1, <1>5, <1>7, <1>8, <1>10
  <2>2. CASE n = 0
    <3>1. TC!Held(e) \subseteq TC!Held(entries')
      <4>1. TC!Held(e) = {e[i][1] : i \in 1..Len(e)}
        BY <1>4, ListedIs DEF TC!Held
      <4> QED
        BY <1>7, <1>8, <1>10, <2>2, <4>1
    <3> QED
      BY <1>2, <1>4, <3>1, NoneEvicted
  <2>3. CASE n > 0 /\ h \notin TC!Held(entries)
    <3>1. d = entries
      BY <1>0, <2>3, DropIs DEF d
    <3>2. n \in 1..Len(entries) /\ \A i \in 1..Len(entries) : i \in 1..Len(e) /\ e[i] = entries[i]
      BY <1>4, <1>5, <1>10, <2>0, <2>3, <3>1
    <3>3. /\ entries[n][1] \notin TC!Held(entries')
          /\ \A i \in 1..Len(entries) : i > n => entries[i][1] \in TC!Held(entries')
      BY <1>7, <1>8, <1>10, <3>2, SMTT(30)
    <3>4. entries[n][1] \in TC!Held(recent')
      BY <1>0, <1>11, <2>0, <3>2 DEF TC!Held
    <3>5. TC!Total(entries') + entries[n][2] > max_size'
      BY <1>7, <1>8, <2>3, <3>2
    <3> QED
      BY <1>0, <3>2, <3>3, <3>4, <3>5, LastEvicted
  <2>4. CASE n > 0 /\ h \in TC!Held(entries)
    <3>1. PICK k \in 1..Len(entries) :
            /\ entries[k][1] = h /\ Len(d) = Len(entries) - 1
            /\ \A i \in 1..Len(entries) - 1 : d[i] = IF i < k THEN entries[i] ELSE entries[i + 1]
      BY <1>0, <2>4, DropIs, SMTT(30) DEF d
    <3> DEFINE j == IF n < k THEN n ELSE n + 1
    <3>2. n \in 1..Len(d) /\ n \in 1..Len(entries) - 1 /\ j \in 1..Len(entries) /\ j # k
      BY <1>4, <1>10, <2>0, <2>4, <3>1
    <3>3. e[n] = entries[j] /\ n \in 1..Len(e)
      BY <1>4, <1>5, <1>10, <3>1, <3>2
    <3>4. ASSUME NEW i \in 1..Len(entries), i > j PROVE entries[i][1] \in TC!Held(entries')
      <4>1. CASE i = k
        BY <2>1, <3>1, <4>1
      <4>2. CASE i < k
        <5>1. i \in 1..Len(entries) - 1 /\ i > n /\ i \in 1..Len(d) /\ i \in 1..Len(e)
          BY <1>4, <1>10, <2>0, <3>1, <3>2, <3>4, <4>2
        <5>2. e[i] = entries[i]
          BY <1>5, <3>1, <4>2, <5>1
        <5> QED
          BY <1>7, <1>8, <5>1, <5>2
      <4>3. CASE i > k
        <5>1. /\ i - 1 \in 1..Len(entries) - 1 /\ i - 1 > n /\ i - 1 \in 1..Len(d)
              /\ i - 1 \in 1..Len(e) /\ ~(i - 1 < k) /\ (i - 1) + 1 = i
          BY <1>4, <1>10, <2>0, <3>1, <3>2, <3>4, <4>3
        <5>2. e[i - 1] = entries[i]
          BY <1>5, <3>1, <5>1
        <5> QED
          BY <1>7, <1>8, <5>1, <5>2
      <4> QED
        BY <2>0, <4>1, <4>2, <4>3
    <3> HIDE DEF j
    <3>5. entries[j][1] \notin TC!Held(entries')
      BY <1>7, <1>8, <1>10, <3>3
    <3>6. entries[j][1] \in TC!Held(recent')
      BY <1>0, <1>11, <2>0, <3>2 DEF TC!Held
    <3>7. TC!Total(entries') + entries[j][2] > max_size'
      BY <1>7, <1>8, <2>4, <3>3
    <3> QED
      BY <1>0, <3>2, <3>4, <3>5, <3>6, <3>7, LastEvicted
  <2> QED
    BY <1>10, <2>2, <2>3, <2>4
<1> QED
  BY <1>13, <1>14

\* What is read comes last, with the bytes it has.
LEMMA Read ==
  ASSUME TC!IInv, NEW h \in Hashes, TC!get_bytedata(h)
  PROVE  ListsStand' /\ TC!StopsInTime
<1> DEFINE d == TC!Drop(entries, h)
           r == TC!Drop(recent, h)
           x == <<h, TC!SizeOf(entries, h)>>
<1>0. /\ entries \in Rows /\ recent \in Rows /\ OnceIn(entries) /\ OnceIn(recent)
      /\ TC!Held(entries) \subseteq TC!Held(recent) /\ TC!IsSuffix(entries, recent)
      /\ total_size = TC!Total(entries) /\ total_size \in Nat /\ max_size \in Limits
      /\ total_size > max_size => Len(entries) = 1
  BY CacheIs
<1>1. h \in TC!Held(entries)
  BY DEF TC!get_bytedata
<1>2. PICK k \in 1..Len(entries) :
        /\ entries[k][1] = h /\ TC!index_of(entries, h) = k
        /\ TC!SizeOf(entries, h) = entries[k][2] /\ Len(d) = Len(entries) - 1
  BY <1>0, <1>1, DropIs
<1>3. x \in Hashes \X Sizes /\ x \in Hashes \X Nat /\ x[1] = h /\ x[2] = TC!SizeOf(entries, h)
  BY <1>0, <1>1, RowsDrop, CacheAssumption
<1>4. entries[k] = x
  <2>1. entries[k] \in Hashes \X Sizes
    BY DEF TC!IInv, TC!TypeOK
  <2> QED
    BY <1>2, <2>1
<1>5. /\ entries' = Append(d, x) /\ recent' = Append(r, x)
      /\ total_size' = total_size /\ max_size' = max_size
  BY <1>2, <1>4 DEF TC!get_bytedata, TC!Moved, TC!Touched
<1>6. /\ OnceIn(d) /\ Listed(d) /\ TC!Held(d) = TC!Held(entries) \ {h} /\ d \in Rows
      /\ TC!Total(d) = TC!Total(entries) - TC!SizeOf(entries, h)
      /\ TC!SizeOf(entries, h) \in Nat /\ TC!SizeOf(entries, h) <= TC!Total(entries)
  BY <1>0, DropIs, RowsDrop DEF OnceIn
<1>7. OnceIn(r) /\ Listed(r) /\ TC!Held(r) = TC!Held(recent) \ {h} /\ r \in Rows
  BY <1>0, DropIs, RowsDrop DEF OnceIn
<1>8. TC!IsSuffix(d, r)
  BY <1>0, DropOfEnd
<1> HIDE DEF d, r, x
<1>9. TC!IsSuffix(entries', recent')
  BY <1>3, <1>5, <1>6, <1>7, <1>8, AppendToEnd
<1>10. /\ Len(entries') = Len(d) + 1 /\ TC!Total(entries') = TC!Total(d) + x[2]
       /\ TC!Held(entries') = TC!Held(d) \cup {h} /\ OnceIn(recent')
  BY <1>3, <1>5, <1>6, <1>7, TotalOfAppend, HeldOfAppend
<1>11. entries' \in Rows /\ recent' \in Rows
  BY <1>3, <1>5, <1>6, <1>7 DEF Rows
<1>12. total_size' = TC!Total(entries')
  BY <1>0, <1>3, <1>5, <1>6, <1>10
<1>13. Len(entries') = Len(entries)
  BY <1>2, <1>10
<1>14. ListsStand'
  BY <1>0, <1>5, <1>9, <1>10, <1>11, <1>12, <1>13 DEF ListsStand
<1>15. TC!StopsInTime
  BY <1>6, <1>10, NoneEvicted
<1> QED
  BY <1>14, <1>15

\* A lower limit lets the first ones go until the rest fits.
LEMMA Limited ==
  ASSUME TC!IInv, NEW limit \in Limits, TC!set_maximum_cache_size(limit)
  PROVE  ListsStand' /\ TC!StopsInTime
<1> DEFINE n == TC!Evicted(entries, TC!Total(entries), limit, 0)
           rest == SubSeq(entries, n + 1, Len(entries))
<1>0. /\ entries \in Rows /\ recent \in Rows /\ OnceIn(entries) /\ OnceIn(recent) /\ Listed(entries)
      /\ TC!Held(entries) \subseteq TC!Held(recent) /\ TC!IsSuffix(entries, recent)
      /\ total_size = TC!Total(entries) /\ limit \in Nat /\ Listed(recent)
  BY CacheIs, CacheAssumption DEF OnceIn
<1>1. /\ entries' = rest /\ max_size' = limit /\ recent' = recent
      /\ total_size' = TC!saturating_sub(TC!Total(entries), TC!Total(SubSeq(entries, 1, n)))
  BY <1>0 DEF TC!set_maximum_cache_size, TC!Evict
<1>2. /\ n \in 0..Len(entries)
      /\ TC!saturating_sub(TC!Total(entries), TC!Total(SubSeq(entries, 1, n))) = TC!Total(rest)
      /\ TC!Total(rest) > limit => Len(entries) - n <= 0
      /\ n > 0 => TC!Total(rest) + entries[n][2] > limit
      /\ \A i \in 1..Len(entries) : entries[i][1] \in TC!Held(rest) <=> i > n
  <2>1. n = TC!Evicted(entries, TC!Total(entries), limit, 0) /\ 0 \in Nat
    OBVIOUS
  <2>2. OnceIn(entries) /\ limit \in Nat
    BY <1>0
  <2> HIDE DEF n
  <2> QED
    BY <2>1, <2>2, EvictedIs
<1> HIDE DEF n
<1>3. /\ Listed(rest) /\ Len(rest) = Len(entries) - n /\ TC!Total(rest) \in Nat
      /\ Len(entries) \in Nat
      /\ \A i \in 1..Len(entries) - n : rest[i] = entries[n + i]
  BY <1>0, <1>2, TotalOfParts, ListedIs
<1>4. TC!IsSuffix(rest, recent)
  BY <1>0, <1>2, RestOfEnd
<1> HIDE DEF rest
<1>5. rest \in Rows
  <2>1. ASSUME NEW i \in 1..Len(rest) PROVE rest[i] \in Hashes \X Sizes
    <3>1. n + i \in 1..Len(entries) /\ rest[i] = entries[n + i]
      BY <1>2, <1>3
    <3> QED
      BY <1>0, <3>1 DEF Rows
  <2> QED
    BY <1>3, <2>1 DEF Rows, Listed
<1>6. ~(TC!Total(rest) > limit)
  <2> SUFFICES ASSUME TC!Total(rest) > limit PROVE FALSE
    OBVIOUS
  <2>1. Len(rest) = 0
    BY <1>2, <1>3
  <2> QED
    BY <1>0, <1>3, <2>1, TotalOfNone
<1>7. ListsStand'
  BY <1>0, <1>1, <1>2, <1>4, <1>5, <1>6 DEF ListsStand
<1>8. TC!StopsInTime
  <2>0. DOMAIN entries = 1..Len(entries)
    BY <1>0, ListedIs
  <2>1. CASE n = 0
    <3>1. TC!Held(entries) \subseteq TC!Held(entries')
      BY <1>1, <1>2, <2>0, <2>1 DEF TC!Held
    <3> QED
      BY <3>1, NoneEvicted
  <2>2. CASE n > 0
    <3>1. n \in 1..Len(entries)
      BY <1>2, <1>3, <2>2
    <3>2. /\ entries[n][1] \notin TC!Held(entries')
          /\ \A i \in 1..Len(entries) : i > n => entries[i][1] \in TC!Held(entries')
          /\ entries[n][1] \in TC!Held(recent')
          /\ TC!Total(entries') + entries[n][2] > max_size'
      <4>1. entries[n][1] \in TC!Held(recent)
        BY <1>0, <2>0, <3>1 DEF TC!Held
      <4>2. n \in Nat /\ ~(n > n)
        BY <3>1, <1>3
      <4> QED
        BY <1>1, <1>2, <2>2, <3>1, <4>1, <4>2
    <3> QED
      BY <1>0, <3>1, <3>2, LastEvicted
  <2> QED
    BY <1>2, <2>1, <2>2
<1> QED
  BY <1>7, <1>8

\* What is deleted leaves both lists and nothing else does.
LEMMA Deleted ==
  ASSUME TC!IInv, TC!Delete
  PROVE  /\ ListsStand' /\ FlagsStand'
         /\ TC!StopsInTime /\ TC!LeavesNothing
<1> DEFINE h == holder[2]
           d == TC!Drop(entries, h)
           r == TC!Drop(recent, h)
<1>0. /\ entries \in Rows /\ recent \in Rows /\ OnceIn(entries) /\ OnceIn(recent)
      /\ TC!Held(entries) \subseteq TC!Held(recent) /\ TC!IsSuffix(entries, recent)
      /\ total_size = TC!Total(entries) /\ total_size \in Nat
      /\ max_size \in Limits /\ max_size \in Nat
      /\ total_size > max_size => Len(entries) = 1
  BY CacheIs
<1>1. /\ entries' = d /\ recent' = r /\ max_size' = max_size /\ metadata_cache' = metadata_cache
      /\ total_size' = TC!saturating_sub(total_size, TC!SizeOf(entries, h))
      /\ holder # <<>> /\ holder[1] = "delete" /\ holder' = <<>>
  BY DEF TC!Delete
<1>2. /\ OnceIn(d) /\ Listed(d) /\ TC!Held(d) = TC!Held(entries) \ {h} /\ d \in Rows
      /\ TC!Total(d) = TC!Total(entries) - TC!SizeOf(entries, h)
      /\ TC!SizeOf(entries, h) \in Nat /\ TC!SizeOf(entries, h) <= TC!Total(entries)
      /\ h \notin TC!Held(entries) => d = entries
      /\ h \in TC!Held(entries) => Len(d) = Len(entries) - 1
  BY <1>0, DropIs, RowsDrop, SMTT(30) DEF OnceIn
<1>3. OnceIn(r) /\ TC!Held(r) = TC!Held(recent) \ {h} /\ r \in Rows
  BY <1>0, DropIs, RowsDrop, SMTT(30)
<1>4. TC!IsSuffix(d, r)
  BY <1>0, DropOfEnd
<1> HIDE DEF d, r
<1>5. total_size' = TC!Total(d)
  BY <1>0, <1>1, <1>2 DEF TC!saturating_sub
<1>6. total_size' > max_size' => Len(entries') = 1
  <2> SUFFICES ASSUME total_size' > max_size PROVE Len(entries') = 1
    BY <1>1
  <2>1. total_size > max_size
    BY <1>0, <1>2, <1>5
  <2>2. CASE h \in TC!Held(entries)
    <3>1. Len(d) = 0
      <4>1. Len(d) = Len(entries) - 1
        BY <1>2, <2>2
      <4>2. Len(entries) = 1
        BY <1>0, <2>1
      <4> QED
        BY <4>1, <4>2
    <3>2. TC!Total(d) = 0
      BY <1>2, <3>1, TotalOfNone
    <3> QED
      BY <1>0, <1>5, <3>2
  <2> QED
    BY <1>0, <1>1, <1>2, <2>1, <2>2
<1>7. ListsStand'
  BY <1>0, <1>1, <1>2, <1>3, <1>4, <1>5, <1>6 DEF ListsStand
<1>8. FlagsStand'
  BY <1>1 DEF FlagsStand, TC!HolderInv, TC!IInv, TC!TypeOK
<1>9. TC!StopsInTime
  BY <1>1, <1>2, <1>3, NoneEvicted
<1>10. TC!LeavesNothing
  <2>1. h \notin DOMAIN metadata_cache
    BY <1>1 DEF TC!IInv, TC!HolderInv
  <2> QED
    BY <1>1, <1>2, <2>1 DEF TC!LeavesNothing
<1> QED
  BY <1>7, <1>8, <1>9, <1>10

LEMMA Cleared ==
  ASSUME TC!IInv, TC!Clear
  PROVE  /\ ListsStand' /\ FlagsStand'
         /\ TC!StopsInTime /\ TC!LeavesNothing
<1>1. /\ entries' = <<>> /\ recent' = <<>> /\ total_size' = 0 /\ max_size' = max_size
      /\ metadata_cache' = metadata_cache
      /\ holder # <<>> /\ holder[1] = "clear" /\ holder' = <<>>
  BY DEF TC!Clear
<1>2. <<>> \in Rows /\ Len(<<>>) = 0 /\ Listed(<<>>) /\ OnceIn(<<>>)
  BY DEF Rows, Listed, OnceIn
<1>3. TC!Total(<<>>) = 0 /\ TC!Held(<<>>) = {}
  BY <1>2, TotalOfNone
<1>4. TC!IsSuffix(<<>>, <<>>)
  <2>1. 0 \in 0..Len(<<>>) /\ EndOf(<<>>, <<>>, 0)
    BY <1>2 DEF EndOf
  <2> QED
    BY <1>2, <2>1, SuffixIs
<1>5. max_size \in Limits /\ max_size \in Nat
  BY CacheIs
<1>6. ListsStand'
  BY <1>1, <1>2, <1>3, <1>4, <1>5 DEF ListsStand
<1>7. FlagsStand'
  BY <1>1 DEF FlagsStand, TC!HolderInv, TC!IInv, TC!TypeOK
<1>8. TC!StopsInTime
  BY <1>1, <1>3, NoneEvicted
<1>9. TC!LeavesNothing
  BY <1>1, <1>3 DEF TC!LeavesNothing, TC!IInv, TC!HolderInv
<1> QED
  BY <1>6, <1>7, <1>8, <1>9

LEMMA CacheInit ==
  ASSUME TC!Init PROVE TC!IInv
<1>1. /\ entries = <<>> /\ recent = <<>> /\ total_size = 0 /\ max_size \in Limits
      /\ DOMAIN metadata_cache = {} /\ holder = <<>>
  BY DEF TC!Init
<1>2. <<>> \in Rows /\ Len(<<>>) = 0 /\ Listed(<<>>) /\ OnceIn(<<>>)
  BY DEF Rows, Listed, OnceIn
<1>3. TC!Total(<<>>) = 0
  BY <1>2, TotalOfNone
<1>4. TC!IsSuffix(<<>>, <<>>)
  <2>1. 0 \in 0..Len(<<>>) /\ EndOf(<<>>, <<>>, 0)
    BY <1>2 DEF EndOf
  <2> QED
    BY <1>2, <2>1, SuffixIs
<1>5. ListsStand
  <2>1. max_size \in Nat
    BY <1>1, CacheAssumption
  <2> QED
    BY <1>1, <1>2, <1>3, <1>4, <2>1 DEF ListsStand
<1>6. FlagsStand
  BY <1>1 DEF FlagsStand, TC!HolderInv
<1> QED
  BY <1>5, <1>6, CacheStands

\* Each call keeps the two caches as they should be, evicts no more than it must
\* and leaves nothing of what it removes.
LEMMA CacheStep ==
  ASSUME TC!IInv, TC!Next \/ UNCHANGED cache
  PROVE  TC!IInv' /\ TC!StopsInTime /\ TC!LeavesNothing
<1>0. ListsStand /\ FlagsStand
  BY CacheStands
<1>u. ASSUME UNCHANGED <<entries, total_size, max_size, recent>>
      PROVE  ListsStand' /\ TC!StopsInTime
  <2>1. ListsStand'
    BY <1>0, <1>u DEF ListsStand
  <2>2. TC!StopsInTime
    BY <1>u, NoneEvicted
  <2> QED
    BY <2>1, <2>2
<1>f. ASSUME UNCHANGED <<metadata_cache, holder>>
      PROVE  FlagsStand' /\ TC!LeavesNothing
  BY <1>0, <1>f DEF FlagsStand, TC!HolderInv, TC!LeavesNothing
<1>1. ASSUME NEW h \in Hashes, NEW flags \in FlagSets,
             TC!add_metadata(h, flags) \/ TC!update_flags(h, flags)
      PROVE  ListsStand' /\ FlagsStand' /\ TC!StopsInTime /\ TC!LeavesNothing
  <2>1. UNCHANGED <<entries, total_size, max_size, recent, holder>> /\ holder = <<>>
    BY <1>1 DEF TC!add_metadata, TC!update_flags
  <2>2. /\ DOMAIN metadata_cache' \subseteq Hashes
        /\ \A g \in DOMAIN metadata_cache' : metadata_cache'[g] \in FlagSets
    <3>1. CASE TC!add_metadata(h, flags)
      BY <1>0, <3>1 DEF TC!add_metadata, TC!Entered, FlagsStand
    <3>2. CASE TC!update_flags(h, flags)
      BY <1>0, <3>2 DEF TC!update_flags, FlagsStand
    <3> QED
      BY <1>1, <3>1, <3>2
  <2>3. FlagsStand'
    BY <2>1, <2>2 DEF FlagsStand, TC!HolderInv
  <2>4. TC!LeavesNothing
    BY <2>1 DEF TC!LeavesNothing
  <2> QED
    BY <1>u, <2>1, <2>3, <2>4
<1>2. ASSUME NEW h \in Hashes, NEW len \in Sizes, TC!add_bytedata(h, len)
      PROVE  ListsStand' /\ FlagsStand' /\ TC!StopsInTime /\ TC!LeavesNothing
  BY <1>2, <1>f, Stored DEF TC!add_bytedata
<1>3. ASSUME NEW h \in Hashes, TC!get_bytedata(h)
      PROVE  ListsStand' /\ FlagsStand' /\ TC!StopsInTime /\ TC!LeavesNothing
  BY <1>3, <1>f, Read DEF TC!get_bytedata
<1>4. ASSUME NEW h \in Hashes, TC!DeleteMetadata(h)
      PROVE  ListsStand' /\ FlagsStand' /\ TC!StopsInTime /\ TC!LeavesNothing
  <2>1. /\ UNCHANGED <<entries, total_size, max_size, recent>> /\ holder' = <<"delete", h>>
        /\ metadata_cache' = [g \in DOMAIN metadata_cache \ {h} |-> metadata_cache[g]]
        /\ holder = <<>>
    BY <1>4 DEF TC!DeleteMetadata
  <2>2. FlagsStand' /\ TC!LeavesNothing
    BY <1>0, <2>1 DEF FlagsStand, TC!HolderInv, TC!LeavesNothing
  <2> QED
    BY <1>u, <2>1, <2>2
<1>5. ASSUME NEW limit \in Limits, TC!set_maximum_cache_size(limit)
      PROVE  ListsStand' /\ FlagsStand' /\ TC!StopsInTime /\ TC!LeavesNothing
  BY <1>5, <1>f, Limited DEF TC!set_maximum_cache_size
<1>6. ASSUME TC!ClearMetadata
      PROVE  ListsStand' /\ FlagsStand' /\ TC!StopsInTime /\ TC!LeavesNothing
  <2>1. /\ UNCHANGED <<entries, total_size, max_size, recent>> /\ holder' = <<"clear", "all">>
        /\ DOMAIN metadata_cache' = {} /\ holder = <<>>
    BY <1>6 DEF TC!ClearMetadata
  <2>2. FlagsStand' /\ TC!LeavesNothing
    BY <2>1 DEF FlagsStand, TC!HolderInv, TC!LeavesNothing
  <2> QED
    BY <1>u, <2>1, <2>2
<1>7. ASSUME UNCHANGED cache
      PROVE  ListsStand' /\ FlagsStand' /\ TC!StopsInTime /\ TC!LeavesNothing
  BY <1>7, <1>u, <1>f DEF cache
<1>8. ListsStand' /\ FlagsStand' /\ TC!StopsInTime /\ TC!LeavesNothing
  BY <1>1, <1>2, <1>3, <1>4, <1>5, <1>6, <1>7, Deleted, Cleared DEF TC!Next
<1>9. (ListsStand /\ FlagsStand)' => TC!IInv'
  BY CacheStands, PTL
<1> QED
  BY <1>8, <1>9

\* The list and the metadata hold together between any two steps of any calls.
THEOREM CacheInvariant == Spec => [](part = "cache" => TC!IInv)
<1>1. Init => (part = "cache" => TC!IInv)
  BY CacheInit DEF Init
<1>2. (part = "cache" => TC!IInv) /\ [Next]_vars => (part = "cache" => TC!IInv)'
  <2> SUFFICES ASSUME part = "cache" => TC!IInv, [Next]_vars, part' = "cache" PROVE TC!IInv'
    OBVIOUS
  <2>1. part' = part
    BY DEF Next, vars
  <2>2. part = "cache" => TC!Next \/ UNCHANGED cache
    BY DEF Next, WalletNext, vars
  <2> QED
    BY <2>1, <2>2, CacheStep
<1> QED
  BY <1>1, <1>2, PTL DEF Spec

\* LruCache: the cache holds what was used last, and no more than the limit but
\* for one large transaction.
THEOREM CacheKeepsTheRecent == Spec => []CacheKeeps
<1>1. (part = "cache" => TC!IInv) => CacheKeeps
  BY DEF CacheKeeps, TC!IInv
<1> QED
  BY <1>1, CacheInvariant, PTL

\* LruCache, delete, clear: an eviction stops as soon as the rest fits, and what
\* is deleted is in neither cache although the two locks are taken in turn.
THEOREM CacheEvictsInTime == Spec => CacheForgets
<1>1. (part = "cache" => TC!IInv) /\ [Next]_vars
      => [part = "cache" => TC!StopsInTime /\ TC!LeavesNothing]_vars
  <2> SUFFICES ASSUME part = "cache" => TC!IInv, [Next]_vars, part = "cache"
               PROVE  TC!StopsInTime /\ TC!LeavesNothing
    OBVIOUS
  <2>1. TC!Next \/ UNCHANGED cache
    BY DEF Next, WalletNext, vars
  <2> QED
    BY <2>1, CacheStep
<1> QED
  BY <1>1, CacheInvariant, PTL DEF Spec, CacheForgets
=============================================================================
