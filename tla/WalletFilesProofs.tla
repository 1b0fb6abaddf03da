------------------------- MODULE WalletFilesProofs -------------------------
(* Theorems about WalletFiles, for any number of paths, files, passwords and *)
(* commands in flight: no owner is locked out, a wallet's key survives, and  *)
(* the open wallet is the one its file holds.                                *)
EXTENDS WalletFiles, TLAPS

USE NoneAssumption, LegacyAssumption

-----------------------------------------------------------------------------
(* Initially *)

LEMMA InitInv == Init => IInv
<1> SUFFICES ASSUME Init PROVE IInv
  OBVIOUS
<1>1. PICK place \in [Legacy -> Files], pwd \in Passwords :
        /\ \A p, q \in Legacy : place[p] = place[q] => p = q
        /\ dir = [p \in Paths |-> IF p \in Legacy THEN place[p] ELSE None]
        /\ db = [f \in Files |-> IF \E p \in Legacy : place[p] = f
                                 THEN [schema |-> "old", key |-> f, password |-> pwd, account |-> TRUE]
                                 ELSE Blank]
        /\ main = db
        /\ known = [f \in Files |-> IF db[f].key = None THEN {} ELSE {pwd}]
        /\ active = NoWallet
        /\ pc = [t \in Tasks |-> "idle"] /\ arg = [t \in Tasks |-> Nothing]
        /\ disturbed = {} /\ copies = {}
  BY DEF Init
<1>2. Blank \in Rows /\ Nothing \in Held /\ Blank.key = None /\ Blank.password = None /\ Blank.schema = "none"
  BY DEF Blank, Rows, Nothing, Held
<1>3. \A f \in Files : \/ db[f] = Blank
                       \/ db[f] = [schema |-> "old", key |-> f, password |-> pwd, account |-> TRUE]
  BY <1>1
<1>4. ASSUME NEW f \in Files PROVE db[f] \in Rows /\ (db[f].key = None) = (db[f].password = None)
  <2>1. CASE db[f] = Blank
    BY <1>2, <2>1
  <2>2. CASE db[f] = [schema |-> "old", key |-> f, password |-> pwd, account |-> TRUE]
    <3>1. db[f] \in Rows /\ db[f].key # None /\ db[f].password # None
      BY <2>2 DEF Rows
    <3> QED
      BY <3>1
  <2> QED
    BY <1>3, <2>1, <2>2
<1>5. TypeOK
  <2>1. db \in [Files -> Rows] /\ main \in [Files -> Rows]
    BY <1>1, <1>4
  <2>2. dir \in [Paths -> Files \cup {None}] /\ \A p, q \in Paths : dir[p] = dir[q] /\ Exists(p) => p = q
    BY <1>1 DEF Exists
  <2>3. pc \in [Tasks -> PCs] /\ arg \in [Tasks -> Held]
    BY <1>1, <1>2 DEF PCs
  <2>4. known \in [Files -> SUBSET Passwords]
    BY <1>1
  <2>5. active = NoWallet /\ disturbed = {} /\ copies = {}
    BY <1>1
  <2> QED
    BY <1>4, <2>1, <2>2, <2>3, <2>4, <2>5 DEF TypeOK
<1>6. HoldsWhatItNeeds /\ PendingKnown /\ OneAtATime /\ StageInv
  BY <1>1 DEF HoldsWhatItNeeds, Creating, Keyed, WithFile, PendingKnown, OneAtATime, StageInv
<1>7. RowsInv
  BY <1>1, <1>3, <1>4 DEF RowsInv, Keyed
<1>8. OnePath
  BY <1>1 DEF OnePath, Uses, NoWallet, Nothing
<1>9. SessionInv
  BY <1>1 DEF SessionInv
<1>10. PasswordKnown
  BY <1>1, <1>3 DEF PasswordKnown, Blank
<1>11. CompleteInv
  <2>1. \A p \in Paths : Exists(p) => p \in Legacy /\ dir[p] \in Files /\ db[dir[p]].schema = "old"
                                      /\ db[dir[p]].key = dir[p] /\ db[dir[p]].account
    BY <1>1 DEF Exists
  <2> QED
    BY <2>1 DEF CompleteInv, Complete
<1> QED
  BY <1>5, <1>6, <1>7, <1>8, <1>9, <1>10, <1>11 DEF IInv

-----------------------------------------------------------------------------
(* Types *)

LEMMA RecordTypes ==
  /\ Blank \in Rows /\ Blank.key = None /\ Blank.password = None /\ Blank.schema = "none"
  /\ Nothing \in Held /\ Nothing.path = None /\ Nothing.file = None
  /\ NoWallet.path = None /\ NoWallet.file = None
  BY DEF Blank, Rows, Nothing, Held, NoWallet

RowsTyped ==
  /\ db \in [Files -> Rows] /\ main \in [Files -> Rows]
  /\ \A f \in Files : /\ (db[f].key = None) = (db[f].password = None)
                      /\ (main[f].key = None) = (main[f].password = None)
                      /\ db[f].schema = "none" => db[f] = Blank
                      /\ main[f].schema = "none" => main[f] = Blank

\* No file loses its key or its schema.
RowsKept ==
  /\ \A g \in Files : db[g].key # None => db'[g].key # None
  /\ \A g \in Files : db[g].schema # "none" => db'[g].schema # "none"

LEMMA WriteKeeps ==
  ASSUME RowsTyped, NEW f \in Files, NEW r \in Rows, db' = [db EXCEPT ![f] = r],
         main' = main \/ main' = [main EXCEPT ![f] = r],
         r.schema # "none", (r.key = None) = (r.password = None), db[f].key # None => r.key # None
  PROVE  RowsTyped' /\ db'[f] = r /\ RowsKept
  BY DEF RowsTyped, RowsKept

\* A command that learns its file, its key or its password keeps what else it holds.
LEMMA LearnsFile ==
  ASSUME arg \in [Tasks -> Held], NEW t \in Tasks, NEW f \in Files \cup {None}
  PROVE  /\ [arg EXCEPT ![t].file = f] = [arg EXCEPT ![t] = [path |-> arg[t].path, file |-> f, key |-> arg[t].key, password |-> arg[t].password]]
         /\ [path |-> arg[t].path, file |-> f, key |-> arg[t].key, password |-> arg[t].password] \in Held
<1>1. [arg EXCEPT ![t].file = f] = [arg EXCEPT ![t] = [arg[t] EXCEPT !.file = f]]
  OBVIOUS
<1>2. PICK a \in Held : a = arg[t]
  OBVIOUS
<1>3. [a EXCEPT !.file = f] = [path |-> a.path, file |-> f, key |-> a.key, password |-> a.password]
  BY DEF Held
<1>4. [path |-> a.path, file |-> f, key |-> a.key, password |-> a.password] \in Held
  BY DEF Held
<1> QED
  BY <1>1, <1>2, <1>3, <1>4, Zenon

LEMMA LearnsFileAndKey ==
  ASSUME arg \in [Tasks -> Held], NEW t \in Tasks, NEW f \in Files \cup {None}, NEW k \in Files \cup {None}
  PROVE  /\ [arg EXCEPT ![t].file = f, ![t].key = k] = [arg EXCEPT ![t] = [path |-> arg[t].path, file |-> f, key |-> k, password |-> arg[t].password]]
         /\ [path |-> arg[t].path, file |-> f, key |-> k, password |-> arg[t].password] \in Held
<1>1. [arg EXCEPT ![t].file = f, ![t].key = k] = [arg EXCEPT ![t] = [arg[t] EXCEPT !.file = f, !.key = k]]
  OBVIOUS
<1>2. PICK a \in Held : a = arg[t]
  OBVIOUS
<1>3. [a EXCEPT !.file = f, !.key = k] = [path |-> a.path, file |-> f, key |-> k, password |-> a.password]
  <2> DEFINE b == [path |-> a.path, file |-> f, key |-> a.key, password |-> a.password]
  <2>1. [a EXCEPT !.file = f, !.key = k] = [[a EXCEPT !.file = f] EXCEPT !.key = k]
    OBVIOUS
  <2>2. [a EXCEPT !.file = f] = b
    BY DEF Held
  <2>3. [b EXCEPT !.key = k] = [path |-> a.path, file |-> f, key |-> k, password |-> a.password]
    OBVIOUS
  <2> QED
    BY <2>1, <2>2, <2>3
<1>4. [path |-> a.path, file |-> f, key |-> k, password |-> a.password] \in Held
  BY DEF Held
<1> QED
  BY <1>1, <1>2, <1>3, <1>4, Zenon

LEMMA LearnsKeyAndPassword ==
  ASSUME arg \in [Tasks -> Held], NEW t \in Tasks, NEW k \in Files \cup {None}, NEW w \in Passwords \cup {None}
  PROVE  /\ [arg EXCEPT ![t].key = k, ![t].password = w] = [arg EXCEPT ![t] = [path |-> arg[t].path, file |-> arg[t].file, key |-> k, password |-> w]]
         /\ [path |-> arg[t].path, file |-> arg[t].file, key |-> k, password |-> w] \in Held
<1>1. [arg EXCEPT ![t].key = k, ![t].password = w] = [arg EXCEPT ![t] = [arg[t] EXCEPT !.key = k, !.password = w]]
  OBVIOUS
<1>2. PICK a \in Held : a = arg[t]
  OBVIOUS
<1>3. [a EXCEPT !.key = k, !.password = w] = [path |-> a.path, file |-> a.file, key |-> k, password |-> w]
  <2> DEFINE b == [path |-> a.path, file |-> a.file, key |-> k, password |-> a.password]
  <2>1. [a EXCEPT !.key = k, !.password = w] = [[a EXCEPT !.key = k] EXCEPT !.password = w]
    OBVIOUS
  <2>2. [a EXCEPT !.key = k] = b
    BY DEF Held
  <2>3. [b EXCEPT !.password = w] = [path |-> a.path, file |-> a.file, key |-> k, password |-> w]
    OBVIOUS
  <2> QED
    BY <2>1, <2>2, <2>3
<1>4. [path |-> a.path, file |-> a.file, key |-> k, password |-> w] \in Held
  BY DEF Held
<1> QED
  BY <1>1, <1>2, <1>3, <1>4, Zenon

LEMMA TypesNext == IInv /\ [Next]_vars => (TypeOK /\ HoldsWhatItNeeds /\ RowsInv)'
<1> SUFFICES ASSUME TypeOK, HoldsWhatItNeeds, RowsInv, [Next]_vars
             PROVE  (TypeOK /\ HoldsWhatItNeeds /\ RowsInv)'
  BY DEF IInv
<1> USE DEF disk, local, history
<1>t. /\ dir \in [Paths -> Files \cup {None}]
      /\ \A p, q \in Paths : dir[p] = dir[q] /\ dir[p] # None => p = q
      /\ db \in [Files -> Rows] /\ main \in [Files -> Rows]
      /\ \A f \in Files : (db[f].key = None) = (db[f].password = None)
      /\ active \in {NoWallet} \cup [path : Paths, file : Files, key : Files, password : Passwords]
      /\ pc \in [Tasks -> PCs] /\ arg \in [Tasks -> Held]
      /\ known \in [Files -> SUBSET Passwords]
      /\ disturbed \subseteq Paths /\ copies \subseteq Files
  BY DEF TypeOK, Exists
<1>h. \A t \in Tasks :
        /\ pc[t] # "idle" => arg[t].path \in Paths
        /\ pc[t] \in Creating \cup Keyed => arg[t].password \in Passwords
        /\ pc[t] \in WithFile => arg[t].file \in Files
        /\ pc[t] \in Keyed \cup {"create_schema", "create_open", "create_key"} => arg[t].key \in Files
  BY DEF HoldsWhatItNeeds
<1> DEFINE Goal == (TypeOK /\ HoldsWhatItNeeds /\ RowsInv)'
<1>1. ASSUME NEW t \in Tasks, NEW next \in PCs \ {"idle"} , NEW what \in Held, Begin(t, next, what), what.path \in Paths,
             next \in Creating \cup Keyed => what.password \in Passwords,
             next \in WithFile => what.file \in Files /\ what.key \in Files,
             next \in Keyed => db[what.file].key # None,
             next # "create_key", UNCHANGED <<disk, active, copies>>, known' \in [Files -> SUBSET Passwords]
      PROVE  Goal
  <2>1. pc' = [pc EXCEPT ![t] = next] /\ arg' = [arg EXCEPT ![t] = what] /\ disturbed' \subseteq Paths
    BY <1>1, <1>t DEF Begin
  <2>2. TypeOK'
    BY <1>1, <1>t, <2>1 DEF TypeOK, Exists
  <2>3. HoldsWhatItNeeds'
    BY <1>1, <1>t, <1>h, <2>1 DEF HoldsWhatItNeeds, WithFile, Keyed, Creating
  <2>4. RowsInv'
    BY <1>1, <1>t, <2>1 DEF RowsInv
  <2> QED
    BY <2>2, <2>3, <2>4
<1>2. ASSUME NEW t \in Tasks, NEW p \in Paths, NEW pwd \in Passwords, CreateStart(t, p, pwd) PROVE Goal
  <2>1. [Nothing EXCEPT !.path = p, !.password = pwd] \in Held
    BY DEF Nothing, Held
  <2> QED
    BY <1>1, <1>2, <1>t, <2>1 DEF CreateStart, PCs, Creating, Keyed, WithFile, Nothing
<1>3. ASSUME NEW t \in Tasks, NEW p \in Paths, OpenStart(t, p) PROVE Goal
  <2>1. [Nothing EXCEPT !.path = p] \in Held
    BY DEF Nothing, Held
  <2> QED
    BY <1>1, <1>3, <1>t, <2>1 DEF OpenStart, PCs, Creating, Keyed, WithFile, Nothing
<1>4. ASSUME NEW t \in Tasks, NEW p \in Paths, DeleteCheck(t, p) PROVE Goal
  <2>1. [Nothing EXCEPT !.path = p] \in Held
    BY DEF Nothing, Held
  <2> QED
    BY <1>1, <1>4, <1>t, <2>1 DEF DeleteCheck, PCs, Creating, Keyed, WithFile, Nothing
<1>5. ASSUME NEW t \in Tasks, NEW pwd \in Passwords, NEW new \in Passwords, ChangeStart(t, pwd, new) PROVE Goal
  <2> DEFINE what == [path |-> active.path, file |-> active.file, key |-> active.key, password |-> new]
  <2>1. active \in [path : Paths, file : Files, key : Files, password : Passwords]
    BY <1>5, <1>t DEF ChangeStart
  <2>2. what \in Held /\ db[what.file].key # None
    BY <1>5, <2>1 DEF Held, ChangeStart, RowsInv
  <2>3. known' \in [Files -> SUBSET Passwords]
    BY <1>5, <1>t, <2>1 DEF ChangeStart
  <2> QED
    BY <1>1, <1>5, <2>1, <2>2, <2>3 DEF ChangeStart, PCs, Creating, Keyed, WithFile
<1>r. RowsTyped
  BY <1>t DEF RowsTyped, RowsInv
<1>a. /\ active # NoWallet => active.file \in Files /\ db[active.file].key # None
      /\ \A u \in Tasks : pc[u] \in Keyed => arg[u].file \in Files /\ db[arg[u].file].key # None
      /\ \A u \in Tasks : pc[u] = "create_key" => arg[u].file \in Files /\ db[arg[u].file].schema # "none"
  <2>1. active # NoWallet => active.file \in Files
    BY <1>t
  <2>2. \A u \in Tasks : pc[u] \in Keyed \cup {"create_key"} => arg[u].file \in Files
    BY <1>h DEF WithFile
  <2> QED
    BY <2>1, <2>2 DEF RowsInv
<1>6. ASSUME NEW t \in Tasks, NEW next \in PCs, NEW what \in Held,
             pc' = [pc EXCEPT ![t] = next], arg' = [arg EXCEPT ![t] = what],
             next # "idle" => what.path \in Paths,
             next \in Creating \cup Keyed => what.password \in Passwords,
             next \in WithFile => what.file \in Files,
             next \in Keyed \cup {"create_schema", "create_open", "create_key"} => what.key \in Files,
             RowsTyped', RowsKept,
             next \in Keyed => db'[what.file].key # None,
             next = "create_key" => db'[what.file].schema # "none",
             dir' \in [Paths -> Files \cup {None}],
             \A p, q \in Paths : dir'[p] = dir'[q] /\ dir'[p] # None => p = q,
             active' \in {active, NoWallet} \/ (/\ active' \in [path : Paths, file : Files, key : Files, password : Passwords]
                                               /\ db'[active'.file].key # None),
             known' \in [Files -> SUBSET Passwords], disturbed' \subseteq Paths, copies' = copies
      PROVE  Goal
  <2>1. TypeOK'
    BY <1>6, <1>t DEF TypeOK, RowsTyped, Exists
  <2>2. HoldsWhatItNeeds'
    BY <1>6, <1>t, <1>h DEF HoldsWhatItNeeds
  <2>k. RowsKept
    BY <1>6
  <2>3. active' # NoWallet => db'[active'.file].key # None
    <3>1. active' \in {active, NoWallet} \/ db'[active'.file].key # None
      BY <1>6
    <3>2. active # NoWallet => active.file \in Files /\ db[active.file].key # None
      BY <1>a
    <3>3. CASE active' = active
      BY <2>k, <3>2, <3>3 DEF RowsKept
    <3> QED
      BY <3>1, <3>3
  <2>4. ASSUME NEW u \in Tasks PROVE /\ pc'[u] \in Keyed => db'[arg'[u].file].key # None
                                     /\ pc'[u] = "create_key" => db'[arg'[u].file].schema # "none"
    <3>1. CASE u = t
      BY <1>6, <1>t, <3>1
    <3>2. CASE u # t
      <4>1. pc'[u] = pc[u] /\ arg'[u] = arg[u]
        BY <1>6, <1>t, <3>2
      <4>2. /\ pc[u] \in Keyed => arg[u].file \in Files /\ db[arg[u].file].key # None
            /\ pc[u] = "create_key" => arg[u].file \in Files /\ db[arg[u].file].schema # "none"
        BY <1>a
      <4>3. pc[u] \in Keyed => db'[arg[u].file].key # None
        BY <2>k, <4>2 DEF RowsKept
      <4>4. pc[u] = "create_key" => db'[arg[u].file].schema # "none"
        BY <2>k, <4>2 DEF RowsKept
      <4> QED
        BY <4>1, <4>3, <4>4
    <3> QED
      BY <3>1, <3>2
  <2> QED
    BY <1>6, <2>1, <2>2, <2>3, <2>4 DEF RowsInv, RowsTyped
<1>s. UNCHANGED <<db, main>> => RowsTyped' /\ RowsKept
  BY <1>r DEF RowsTyped, RowsKept
<1>d. \A p \in Paths : Exists(p) => dir[p] \in Files
  BY <1>t DEF Exists
<1>7. ASSUME NEW t \in Tasks, CreateConnect(t) PROVE Goal
  <2>1. PICK f \in Files :
          /\ \/ dir' = dir
             \/ f \notin Range(dir) /\ dir' = [dir EXCEPT ![arg[t].path] = f]
          /\ arg' = [arg EXCEPT ![t].file = f, ![t].key = f]
    <3>1. arg[t].path \in Paths
      BY <1>7, <1>h DEF CreateConnect
    <3>2. CASE Exists(arg[t].path)
      BY <1>7, <1>d, <3>1, <3>2 DEF CreateConnect
    <3>3. CASE ~Exists(arg[t].path)
      BY <1>7, <3>3 DEF CreateConnect, Unused
    <3> QED
      BY <3>2, <3>3
  <2> DEFINE what == [path |-> arg[t].path, file |-> f, key |-> f, password |-> arg[t].password]
  <2>2. what \in Held /\ arg' = [arg EXCEPT ![t] = what]
    BY <1>t, <2>1, LearnsFileAndKey
  <2>3. /\ dir' \in [Paths -> Files \cup {None}]
        /\ \A p, q \in Paths : dir'[p] = dir'[q] /\ dir'[p] # None => p = q
    BY <1>t, <2>1 DEF Range
  <2>4. arg[t].path \in Paths /\ arg[t].password \in Passwords
    BY <1>7, <1>h DEF CreateConnect, Creating
  <2>5. pc' = [pc EXCEPT ![t] = "create_schema"] /\ UNCHANGED <<db, main, active, history>>
    BY <1>7 DEF CreateConnect, Goto
  <2> QED
    BY <1>6, <1>s, <1>t, <2>2, <2>3, <2>4, <2>5 DEF PCs, Creating, Keyed
<1>8. ASSUME NEW t \in Tasks, pc[t] \in WithFile
      PROVE  arg[t].path \in Paths /\ arg[t].file \in Files /\ db[arg[t].file] \in Rows
  BY <1>8, <1>t, <1>h DEF WithFile, Keyed
<1>9. ASSUME NEW t \in Tasks, NEW r \in Rows, pc[t] \in WithFile, db' = [db EXCEPT ![arg[t].file] = r],
             main' = main \/ main' = [main EXCEPT ![arg[t].file] = r],
             r.schema # "none", (r.key = None) = (r.password = None), db[arg[t].file].key # None => r.key # None
      PROVE  RowsTyped' /\ RowsKept /\ db'[arg[t].file] = r
  BY <1>8, <1>9, <1>r, WriteKeeps
<1>10. ASSUME NEW t \in Tasks, CreateSchema(t) PROVE Goal
  <2> DEFINE r == [db[arg[t].file] EXCEPT !.schema = "current"]
  <2>1. db[arg[t].file] \in Rows /\ (db[arg[t].file].key = None) = (db[arg[t].file].password = None)
    BY <1>10, <1>8, <1>t DEF CreateSchema, WithFile
  <2>2. r \in Rows /\ r.schema = "current" /\ r.key = db[arg[t].file].key /\ r.password = db[arg[t].file].password
    BY <2>1 DEF Rows
  <2>3. RowsTyped' /\ RowsKept
    BY <1>9, <1>10, <2>1, <2>2 DEF CreateSchema, WithFile
  <2>4. /\ pc' = [pc EXCEPT ![t] = "create_open"] /\ arg' = [arg EXCEPT ![t] = arg[t]] /\ arg[t] \in Held
        /\ UNCHANGED <<dir, active, history>> /\ pc[t] = "create_schema"
    BY <1>10, <1>t DEF CreateSchema, Goto
  <2> QED
    BY <1>6, <1>t, <1>h, <2>3, <2>4 DEF PCs, Creating, Keyed, WithFile
<1>11. ASSUME NEW t \in Tasks, CreateOpen(t) PROVE Goal
  <2> DEFINE f == dir[arg[t].path]
             r == [db[f] EXCEPT !.schema = "current"]
             what == [path |-> arg[t].path, file |-> f, key |-> arg[t].key, password |-> arg[t].password]
  <2>1. f \in Files /\ arg[t].path \in Paths
    BY <1>11, <1>h, <1>d DEF CreateOpen
  <2>2. db[f] \in Rows /\ (db[f].key = None) = (db[f].password = None)
    BY <2>1, <1>t
  <2>3. r \in Rows /\ r.schema = "current" /\ r.key = db[f].key /\ r.password = db[f].password
    BY <2>2 DEF Rows
  <2>4. RowsTyped' /\ RowsKept /\ db'[f] = r
    <3>1. db' = [db EXCEPT ![f] = r] /\ main' = main
      BY <1>11 DEF CreateOpen, Write
    <3>2. r.schema # "none" /\ (r.key = None) = (r.password = None)
          /\ (db[f].key # None => r.key # None)
      BY <2>2, <2>3
    <3>3. f \in Files /\ r \in Rows
      BY <2>1, <2>3
    <3> HIDE DEF f, r
    <3> QED
      BY <1>r, <3>1, <3>2, <3>3, WriteKeeps, ZenonT(30)
  <2>5. what \in Held /\ arg' = [arg EXCEPT ![t] = what]
    BY <1>11, <1>t, <2>1, LearnsFile DEF CreateOpen
  <2>6. pc' = [pc EXCEPT ![t] = "create_key"] /\ UNCHANGED <<dir, active, history>> /\ pc[t] = "create_open"
    BY <1>11 DEF CreateOpen, Goto
  <2>7. arg[t].key \in Files /\ arg[t].password \in Passwords
    BY <1>h, <2>6 DEF Creating, Keyed
  <2>8. /\ what.path \in Paths /\ what.file \in Files /\ what.key \in Files
        /\ what.password \in Passwords /\ db'[what.file].schema # "none"
    BY <2>1, <2>3, <2>4, <2>7
  <2> HIDE DEF what, f, r
  <2>9. "create_key" \in PCs /\ "create_key" \notin Keyed
    BY DEF PCs, Creating, Keyed
  <2>10. /\ dir' \in [Paths -> Files \cup {None}]
         /\ \A p, q \in Paths : dir'[p] = dir'[q] /\ dir'[p] # None => p = q
         /\ active' = active /\ known' \in [Files -> SUBSET Passwords]
         /\ disturbed' \subseteq Paths /\ copies' = copies
    BY <1>t, <2>6 DEF history, Exists
  <2>11. pc' = [pc EXCEPT ![t] = "create_key"]
    BY <2>6
  <2> QED
    BY <1>6, <2>4, <2>5, <2>8, <2>9, <2>10, <2>11, Zenon
<1>12. ASSUME NEW t \in Tasks, CreateKey(t) PROVE Goal
  <2> DEFINE f == arg[t].file
             r == [db[f] EXCEPT !.key = arg[t].key, !.password = arg[t].password]
  <2>1. /\ pc[t] = "create_key" /\ f \in Files /\ db[f] \in Rows /\ arg[t].key \in Files
        /\ arg[t].password \in Passwords /\ db[f].schema # "none"
    BY <1>12, <1>8, <1>a, <1>h DEF CreateKey, WithFile, Creating
  <2>2. r \in Rows /\ r.schema = db[f].schema /\ r.key # None /\ r.password # None
    <3>1. PICK x \in Rows : x = db[f]
      BY <2>1
    <3> DEFINE y == [x EXCEPT !.key = arg[t].key]
    <3>2. y \in Rows /\ y.schema = x.schema /\ y.key = arg[t].key
      BY <2>1 DEF Rows
    <3>3. r = [y EXCEPT !.password = arg[t].password]
      BY <3>1
    <3> HIDE DEF y, r
    <3> QED
      BY <2>1, <3>1, <3>2, <3>3 DEF Rows
  <2>3. RowsTyped' /\ RowsKept /\ db'[f].key # None
    <3>1. CASE db[f].key = None
      BY <1>9, <1>12, <2>1, <2>2, <3>1 DEF CreateKey, Write, WithFile
    <3>2. CASE db[f].key # None
      BY <1>s, <1>12, <3>2 DEF CreateKey
    <3> QED
      BY <3>1, <3>2
  <2>4. /\ pc' = [pc EXCEPT ![t] = "create_account"] /\ arg' = [arg EXCEPT ![t] = arg[t]] /\ arg[t] \in Held
        /\ UNCHANGED <<dir, active, disturbed, copies>>
    BY <1>12, <1>t DEF CreateKey, Goto
  <2>5. known' \in [Files -> SUBSET Passwords]
    BY <1>12, <1>t, <2>1 DEF CreateKey
  <2> QED
    BY <1>6, <1>t, <1>h, <2>1, <2>3, <2>4, <2>5 DEF PCs, Creating, Keyed, WithFile
<1>13. ASSUME NEW t \in Tasks, CreateAccount(t) PROVE Goal
  <2> DEFINE f == arg[t].file
             r == [db[f] EXCEPT !.account = TRUE]
  <2>1. pc[t] = "create_account" /\ f \in Files /\ db[f] \in Rows /\ db[f].key # None
    BY <1>13, <1>8, <1>a DEF CreateAccount, WithFile, Keyed
  <2>2. r \in Rows /\ r.schema = db[f].schema /\ r.key = db[f].key /\ r.password = db[f].password
    BY <2>1 DEF Rows
  <2>3. db[f].schema # "none" /\ (db[f].key = None) = (db[f].password = None)
    BY <1>r, <2>1, RecordTypes DEF RowsTyped
  <2>4. RowsTyped' /\ RowsKept /\ db'[f] = r
    BY <1>9, <1>13, <2>1, <2>2, <2>3 DEF CreateAccount, Write, WithFile, Keyed
  <2> HIDE DEF r
  <2>5. /\ pc' = [pc EXCEPT ![t] = "create_install"] /\ arg' = [arg EXCEPT ![t] = arg[t]] /\ arg[t] \in Held
        /\ UNCHANGED <<dir, active, history>>
    BY <1>13, <1>t DEF CreateAccount, Goto
  <2>6. /\ arg[t].path \in Paths /\ arg[t].file \in Files /\ arg[t].key \in Files
        /\ arg[t].password \in Passwords /\ db'[arg[t].file].key # None
    BY <1>h, <2>1, <2>2, <2>4 DEF Creating, Keyed
  <2>7. "create_install" \in PCs /\ "create_install" # "create_key"
    BY DEF PCs, Creating
  <2>8. /\ dir' \in [Paths -> Files \cup {None}]
        /\ \A p, q \in Paths : dir'[p] = dir'[q] /\ dir'[p] # None => p = q
        /\ active' = active /\ known' \in [Files -> SUBSET Passwords]
        /\ disturbed' \subseteq Paths /\ copies' = copies
    BY <1>t, <2>5 DEF history, Exists
  <2> QED
    BY <1>6, <2>4, <2>5, <2>6, <2>7, <2>8, Zenon
<1>14. \A t \in Tasks : Done(t) => /\ pc' = [pc EXCEPT ![t] = "idle"] /\ arg' = [arg EXCEPT ![t] = Nothing]
                                /\ Nothing \in Held /\ "idle" \in PCs \ (Creating \cup Keyed \cup WithFile)
  BY RecordTypes DEF Done, PCs, Creating, Keyed, WithFile
<1>15. ASSUME NEW t \in Tasks, pc[t] \in {"create_install", "open_install", "change_install"}
       PROVE  /\ arg[t] \in [path : Paths, file : Files, key : Files, password : Passwords]
              /\ db[arg[t].file].key # None
  <2>1. /\ pc[t] \in Keyed /\ arg[t].path \in Paths /\ arg[t].file \in Files /\ arg[t].key \in Files
        /\ arg[t].password \in Passwords
    BY <1>15, <1>h DEF Keyed, WithFile
  <2> QED
    BY <1>a, <1>t, <2>1 DEF Held
<1>16. ASSUME NEW t \in Tasks, CreateInstall(t) \/ OpenInstall(t) PROVE Goal
  <2>1. /\ pc[t] \in {"create_install", "open_install"} /\ active' = arg[t] /\ Done(t)
        /\ UNCHANGED <<dir, db, main, known, disturbed, copies>>
    BY <1>16 DEF CreateInstall, OpenInstall
  <2> QED
    BY <1>6, <1>14, <1>15, <1>s, <1>t, <2>1 DEF Keyed
<1>17. ASSUME NEW t \in Tasks, OpenDb(t) PROVE Goal
  <2> DEFINE f == dir[arg[t].path]
             what == [path |-> arg[t].path, file |-> f, key |-> arg[t].key, password |-> arg[t].password]
             next == IF db[f].schema = "old" THEN "open_migrate" ELSE "open_key"
  <2>1. f \in Files /\ arg[t].path \in Paths
    BY <1>17, <1>h, <1>d DEF OpenDb
  <2>2. what \in Held /\ arg' = [arg EXCEPT ![t] = what]
    BY <1>17, <1>t, <2>1, LearnsFile DEF OpenDb
  <2>3. /\ pc' = [pc EXCEPT ![t] = next] /\ next \in {"open_migrate", "open_key"}
        /\ UNCHANGED <<dir, db, main, active, known, disturbed, copies>>
    BY <1>17 DEF OpenDb, Goto
  <2>4. next \in PCs /\ next \notin Creating \cup Keyed
    BY <2>3 DEF PCs, Creating, Keyed
  <2> HIDE DEF f, next
  <2> QED
    BY <1>6, <1>s, <1>t, <2>1, <2>2, <2>3, <2>4
<1>18. ASSUME NEW t \in Tasks, OpenMigrate(t) PROVE Goal
  <2> DEFINE f == arg[t].file
             r == [db[f] EXCEPT !.schema = "current"]
  <2>1. db[f] \in Rows /\ (db[f].key = None) = (db[f].password = None) /\ pc[t] = "open_migrate"
    BY <1>18, <1>8, <1>t DEF OpenMigrate, WithFile
  <2>2. r \in Rows /\ r.schema = "current" /\ r.key = db[f].key /\ r.password = db[f].password
    BY <2>1 DEF Rows
  <2>3. db' = [db EXCEPT ![f] = r] /\ main' = main
    BY <1>18 DEF OpenMigrate, Write
  <2> HIDE DEF r
  <2>4. RowsTyped' /\ RowsKept
    BY <1>9, <2>1, <2>2, <2>3 DEF WithFile
  <2>5. /\ pc' = [pc EXCEPT ![t] = "open_key"] /\ arg' = [arg EXCEPT ![t] = arg[t]] /\ arg[t] \in Held
        /\ UNCHANGED <<dir, active, known, disturbed, copies>>
    BY <1>18, <1>t DEF OpenMigrate, Goto
  <2>6. "open_key" \in PCs /\ "open_key" \notin Creating \cup Keyed /\ arg[t].path \in Paths /\ arg[t].file \in Files
    BY <1>8, <2>1 DEF PCs, Creating, Keyed, WithFile
  <2> QED
    BY <1>6, <1>t, <2>4, <2>5, <2>6
<1>19. ASSUME NEW t \in Tasks, OpenKey(t) PROVE Goal
  <2> DEFINE rows == db[arg[t].file]
             what == [path |-> arg[t].path, file |-> arg[t].file, key |-> rows.key, password |-> rows.password]
  <2>1. /\ pc[t] = "open_key" /\ arg[t].path \in Paths /\ arg[t].file \in Files /\ rows.key \in Files
        /\ rows.password \in Passwords
    <3>1. pc[t] = "open_key" /\ rows.key # None
      BY <1>19 DEF OpenKey
    <3>2. arg[t].path \in Paths /\ arg[t].file \in Files /\ rows \in Rows
      BY <1>8, <3>1 DEF WithFile
    <3>3. rows.password # None
      BY <1>t, <3>1, <3>2
    <3> HIDE DEF rows
    <3> QED
      BY <3>1, <3>2, <3>3 DEF Rows
  <2>2. what \in Held /\ arg' = [arg EXCEPT ![t] = what]
    <3>1. arg' = [arg EXCEPT ![t].key = rows.key, ![t].password = rows.password]
      BY <1>19 DEF OpenKey
    <3>2. PICK k \in Files, w \in Passwords : k = rows.key /\ w = rows.password
      BY <2>1
    <3>3. /\ [arg EXCEPT ![t].key = k, ![t].password = w] =
               [arg EXCEPT ![t] = [path |-> arg[t].path, file |-> arg[t].file, key |-> k, password |-> w]]
          /\ [path |-> arg[t].path, file |-> arg[t].file, key |-> k, password |-> w] \in Held
      <4> k \in Files \cup {None} /\ w \in Passwords \cup {None} /\ arg \in [Tasks -> Held]
        BY <1>t
      <4> QED
        BY LearnsKeyAndPassword, Zenon
    <3> QED
      BY <3>1, <3>2, <3>3, Zenon
  <2>3. pc' = [pc EXCEPT ![t] = "open_install"] /\ UNCHANGED <<dir, db, main, active, known, disturbed, copies>>
    BY <1>19 DEF OpenKey, Goto
  <2> QED
    BY <1>6, <1>s, <1>t, <2>1, <2>2, <2>3 DEF PCs, Keyed
<1>20. ASSUME NEW t \in Tasks, ChangeWrite(t) PROVE Goal
  <2> DEFINE f == arg[t].file
             r == [db[f] EXCEPT !.key = arg[t].key, !.password = arg[t].password]
  <2>1. /\ pc[t] = "change_write" /\ f \in Files /\ db[f] \in Rows /\ arg[t].key \in Files
        /\ arg[t].password \in Passwords /\ db[f].schema # "none" /\ arg[t].path \in Paths
    <3>1. pc[t] = "change_write" /\ db[f].key # None
      BY <1>20 DEF ChangeWrite
    <3>2. f \in Files /\ db[f] \in Rows /\ arg[t].path \in Paths
      BY <1>8, <3>1 DEF WithFile, Keyed
    <3>3. db[f].schema # "none"
      BY <1>r, <3>1, <3>2, RecordTypes DEF RowsTyped
    <3> QED
      BY <1>h, <3>1, <3>2, <3>3 DEF Keyed
  <2>2. r \in Rows /\ r.schema = db[f].schema /\ r.key # None /\ r.password # None
    <3>1. PICK x \in Rows : x = db[f]
      BY <2>1
    <3> DEFINE y == [x EXCEPT !.key = arg[t].key]
    <3>2. y \in Rows /\ y.schema = x.schema /\ y.key = arg[t].key
      BY <2>1 DEF Rows
    <3>3. r = [y EXCEPT !.password = arg[t].password]
      BY <3>1
    <3> HIDE DEF y, r
    <3> QED
      BY <2>1, <3>1, <3>2, <3>3 DEF Rows
  <2>3. db' = [db EXCEPT ![f] = r] /\ main' = main
    BY <1>20 DEF ChangeWrite, Write
  <2> HIDE DEF r
  <2>4. RowsTyped' /\ RowsKept /\ db'[f].key # None
    BY <1>9, <2>1, <2>2, <2>3 DEF WithFile, Keyed
  <2>5. /\ pc' = [pc EXCEPT ![t] = "change_install"] /\ arg' = [arg EXCEPT ![t] = arg[t]] /\ arg[t] \in Held
        /\ UNCHANGED <<dir, active, known, disturbed, copies>>
    BY <1>20, <1>t DEF ChangeWrite, Goto
  <2> QED
    BY <1>6, <1>t, <2>1, <2>4, <2>5 DEF PCs
<1>21. ASSUME NEW t \in Tasks, ChangeInstall(t) PROVE Goal
  <2>1. /\ pc[t] = "change_install" /\ Done(t) /\ UNCHANGED <<dir, db, main, disturbed, copies>>
        /\ active' = IF active.path = arg[t].path
                     THEN [active EXCEPT !.key = arg[t].key, !.password = arg[t].password] ELSE active
        /\ known' = [known EXCEPT ![arg[t].file] = IF arg[t].path \in disturbed THEN @ ELSE {arg[t].password}]
    BY <1>21 DEF ChangeInstall
  <2>2. /\ arg[t].path \in Paths /\ arg[t].file \in Files /\ arg[t].key \in Files /\ arg[t].password \in Passwords
    BY <1>15, <2>1
  <2>3. \/ active' = active
        \/ /\ active' \in [path : Paths, file : Files, key : Files, password : Passwords]
           /\ db'[active'.file].key # None
    <3>1. SUFFICES ASSUME active.path = arg[t].path
                   PROVE  /\ active' \in [path : Paths, file : Files, key : Files, password : Passwords]
                          /\ db'[active'.file].key # None
      BY <2>1
    <3>2. active # NoWallet
      BY <2>2, <3>1, RecordTypes
    <3>3. PICK x \in [path : Paths, file : Files, key : Files, password : Passwords] : x = active
      BY <1>t, <3>2
    <3> DEFINE y == [x EXCEPT !.key = arg[t].key]
    <3>4. y \in [path : Paths, file : Files, key : Files, password : Passwords] /\ y.file = x.file
      BY <2>2
    <3>5. active' = [y EXCEPT !.password = arg[t].password]
      BY <2>1, <3>1, <3>3
    <3> HIDE DEF y
    <3>6. active' \in [path : Paths, file : Files, key : Files, password : Passwords] /\ active'.file = active.file
      BY <2>2, <3>3, <3>4, <3>5
    <3> QED
      BY <1>a, <2>1, <3>2, <3>6
  <2>4. known' \in [Files -> SUBSET Passwords]
    BY <1>t, <2>1, <2>2
  <2> QED
    BY <1>6, <1>14, <1>s, <1>t, <2>1, <2>3, <2>4 DEF Keyed
<1>22. ASSUME NEW t \in Tasks, DeleteClose(t) PROVE Goal
  <2>1. /\ pc' = [pc EXCEPT ![t] = "delete_remove"] /\ arg' = [arg EXCEPT ![t] = arg[t]] /\ arg[t] \in Held
        /\ active' = NoWallet /\ UNCHANGED <<dir, db, main, known, disturbed, copies>> /\ arg[t].path \in Paths
    BY <1>22, <1>t, <1>h DEF DeleteClose, Goto
  <2> QED
    BY <1>6, <1>s, <1>t, <2>1 DEF PCs, Creating, Keyed, WithFile
<1>23. ASSUME NEW t \in Tasks, DeleteRemove(t) PROVE Goal
  <2>1. Done(t) /\ dir' = [dir EXCEPT ![arg[t].path] = None] /\ UNCHANGED <<db, main, active, known, disturbed, copies>>
    BY <1>23 DEF DeleteRemove
  <2>2. /\ dir' \in [Paths -> Files \cup {None}]
        /\ \A p, q \in Paths : dir'[p] = dir'[q] /\ dir'[p] # None => p = q
    BY <1>t, <2>1
  <2> QED
    BY <1>6, <1>14, <1>s, <1>t, <2>1, <2>2 DEF Keyed
<1>24. ASSUME NEW t \in Tasks, Fail(t) PROVE Goal
  <2>1. Done(t) /\ UNCHANGED <<dir, db, main, active, known, copies>> /\ disturbed' \subseteq Paths
    BY <1>24, <1>t, <1>h DEF Fail
  <2> QED
    BY <1>6, <1>14, <1>s, <1>t, <2>1 DEF Keyed
<1>25. ASSUME NEW t \in Tasks, Command(t) PROVE Goal
  BY <1>2, <1>3, <1>4, <1>5, <1>7, <1>10, <1>11, <1>12, <1>13, <1>16, <1>17, <1>18, <1>19, <1>20, <1>21,
     <1>22, <1>23, <1>24, <1>25 DEF Command
\* Steps that are nobody's.
<1>26. ASSUME RowsTyped', RowsKept, UNCHANGED <<pc, arg>>, active' \in {active, NoWallet},
              dir' \in [Paths -> Files \cup {None}],
              \A p, q \in Paths : dir'[p] = dir'[q] /\ dir'[p] # None => p = q,
              known' \in [Files -> SUBSET Passwords], disturbed' \subseteq Paths, copies' \subseteq Files
       PROVE  Goal
  <2>1. TypeOK'
    BY <1>26, <1>t DEF TypeOK, RowsTyped, Exists
  <2>2. HoldsWhatItNeeds'
    BY <1>26 DEF HoldsWhatItNeeds
  <2>3. RowsInv'
    BY <1>26, <1>a DEF RowsInv, RowsTyped, RowsKept
  <2> QED
    BY <2>1, <2>2, <2>3
<1>27. ASSUME NEW p \in Paths, BackupWallet(p) PROVE Goal
  <2>1. PICK f \in Files : /\ Unused(f) /\ dir' = [dir EXCEPT ![p] = f]
                           /\ db' = [db EXCEPT ![f] = main[dir[active.path]]]
                           /\ main' = [main EXCEPT ![f] = main[dir[active.path]]]
                           /\ known' = [known EXCEPT ![f] = known[dir[active.path]]]
                           /\ copies' = copies \cup {f}
    BY <1>27 DEF BackupWallet
  <2>2. active.path \in Paths /\ dir[active.path] \in Files
    BY <1>27, <1>t, <1>d DEF BackupWallet
  <2>3. RowsTyped' /\ RowsKept
    BY <1>r, <2>1, <2>2, RecordTypes DEF RowsTyped, RowsKept, Unused
  <2>4. /\ dir' \in [Paths -> Files \cup {None}]
        /\ \A q, r \in Paths : dir'[q] = dir'[r] /\ dir'[q] # None => q = r
    BY <1>t, <2>1 DEF Unused, Range
  <2>5. known' \in [Files -> SUBSET Passwords] /\ copies' \subseteq Files
    BY <1>t, <2>1, <2>2
  <2> QED
    BY <1>26, <1>27, <1>t, <2>3, <2>4, <2>5 DEF BackupWallet
<1>28. ASSUME NEW f \in Files, Checkpoint(f) PROVE Goal
  <2>1. RowsTyped' /\ RowsKept
    BY <1>28, <1>r DEF Checkpoint, RowsTyped, RowsKept
  <2> QED
    BY <1>26, <1>28, <1>t, <2>1 DEF Checkpoint
<1>29. CASE CloseWallet
  BY <1>26, <1>29, <1>s, <1>t DEF CloseWallet
<1>30. CASE Restart
  <2>1. /\ active' = NoWallet /\ pc' = [t \in Tasks |-> "idle"] /\ arg' = [t \in Tasks |-> Nothing]
        /\ disturbed' \subseteq Paths /\ UNCHANGED <<dir, db, main, known, copies>>
    <3>1. \A t \in Tasks : pc[t] \in Creating => arg[t].path \in Paths
      BY <1>h DEF Creating
    <3> QED
      BY <1>30, <1>t, <3>1 DEF Restart
  <2>2. TypeOK'
    BY <1>t, <2>1, RecordTypes DEF TypeOK, Exists, PCs
  <2>3. HoldsWhatItNeeds' /\ RowsInv'
    BY <2>1 DEF HoldsWhatItNeeds, RowsInv, Creating, Keyed, WithFile
  <2> QED
    BY <2>2, <2>3
<1>31. CASE UNCHANGED vars
  BY <1>26, <1>31, <1>s, <1>t DEF vars
<1> QED
  BY <1>25, <1>27, <1>28, <1>29, <1>30, <1>31 DEF Next

-----------------------------------------------------------------------------
(* Who works where *)

\* A step of a command begins it, ends it, or leaves it at its path.
LEMMA CommandSteps ==
  ASSUME TypeOK, HoldsWhatItNeeds, NEW t \in Tasks, Command(t)
  PROVE  /\ disturbed \subseteq disturbed' /\ copies' = copies
         /\ \A u \in Tasks : u # t => pc'[u] = pc[u] /\ arg'[u] = arg[u]
         /\ \/ /\ pc[t] = "idle" /\ pc'[t] # "idle"
               /\ Busy(arg'[t].path) => arg'[t].path \in disturbed'
            \/ pc[t] # "idle" /\ pc'[t] = "idle"
            \/ pc[t] # "idle" /\ pc'[t] # "idle" /\ arg'[t].path = arg[t].path
<1> DEFINE Goal == /\ disturbed \subseteq disturbed' /\ copies' = copies
                   /\ \A u \in Tasks : u # t => pc'[u] = pc[u] /\ arg'[u] = arg[u]
                   /\ \/ /\ pc[t] = "idle" /\ pc'[t] # "idle"
                         /\ Busy(arg'[t].path) => arg'[t].path \in disturbed'
                      \/ pc[t] # "idle" /\ pc'[t] = "idle"
                      \/ pc[t] # "idle" /\ pc'[t] # "idle" /\ arg'[t].path = arg[t].path
<1>t. pc \in [Tasks -> PCs] /\ arg \in [Tasks -> Held]
  BY DEF TypeOK
<1>1. ASSUME NEW next, NEW what, next # "idle", Begin(t, next, what), copies' = copies PROVE Goal
  BY <1>1, <1>t DEF Begin
<1>2. ASSUME NEW next, next # "idle", pc[t] # "idle", Goto(t, next), arg' = arg, UNCHANGED <<disturbed, copies>>
      PROVE  Goal
  BY <1>2, <1>t DEF Goto
<1>3. ASSUME pc[t] # "idle", Done(t), disturbed \subseteq disturbed', copies' = copies PROVE Goal
  BY <1>3, <1>t DEF Done
<1>4. ASSUME NEW p \in Paths, \/ \E pwd \in Passwords : CreateStart(t, p, pwd)
                              \/ OpenStart(t, p) \/ DeleteCheck(t, p)
      PROVE  Goal
  <2>1. CASE \E pwd \in Passwords : CreateStart(t, p, pwd)
    BY <1>1, <2>1 DEF CreateStart
  <2>2. CASE OpenStart(t, p)
    BY <1>1, <2>2 DEF OpenStart
  <2>3. CASE DeleteCheck(t, p)
    BY <1>1, <2>3 DEF DeleteCheck
  <2> QED
    BY <1>4, <2>1, <2>2, <2>3
<1>5. ASSUME NEW pwd \in Passwords, NEW new \in Passwords, ChangeStart(t, pwd, new) PROVE Goal
  BY <1>1, <1>5 DEF ChangeStart
<1>6. CASE CreateSchema(t)
  BY <1>2, <1>6 DEF CreateSchema, history
<1>7. CASE CreateKey(t)
  BY <1>2, <1>7 DEF CreateKey, history
<1>8. CASE CreateAccount(t)
  BY <1>2, <1>8 DEF CreateAccount, history
<1>9. CASE OpenMigrate(t)
  BY <1>2, <1>9 DEF OpenMigrate, history
<1>10. CASE ChangeWrite(t)
  BY <1>2, <1>10 DEF ChangeWrite, history
<1>11. CASE DeleteClose(t)
  BY <1>2, <1>11 DEF DeleteClose, history
<1>12. CASE CreateInstall(t) \/ OpenInstall(t)
  BY <1>3, <1>12 DEF CreateInstall, OpenInstall, history
<1>13. CASE ChangeInstall(t)
  BY <1>3, <1>13 DEF ChangeInstall
<1>14. CASE DeleteRemove(t) \/ Fail(t)
  BY <1>3, <1>14 DEF DeleteRemove, Fail, history
<1>15. CASE CreateConnect(t)
  <2>1. PICK f : arg' = [arg EXCEPT ![t].file = f, ![t].key = f]
    BY <1>15 DEF CreateConnect
  <2>2. arg'[t].path = arg[t].path
    BY <1>t, <2>1 DEF Held
  <2> QED
    BY <1>15, <1>t, <2>1, <2>2 DEF CreateConnect, Goto, history
<1>16. CASE CreateOpen(t)
  BY <1>16, <1>t DEF CreateOpen, Goto, history, Held
<1>17. CASE OpenDb(t)
  BY <1>17, <1>t DEF OpenDb, Goto, history, Held
<1>18. CASE OpenKey(t)
  BY <1>18, <1>t DEF OpenKey, Goto, history, Held
<1> QED
  BY <1>4, <1>5, <1>6, <1>7, <1>8, <1>9, <1>10, <1>11, <1>12, <1>13, <1>14, <1>15, <1>16, <1>17, <1>18 DEF Command

LEMMA OneAtATimeNext == IInv /\ [Next]_vars => OneAtATime'
<1> SUFFICES ASSUME IInv, [Next]_vars PROVE OneAtATime'
  OBVIOUS
<1>1. ASSUME NEW t \in Tasks, Command(t) PROVE OneAtATime'
  <2>1. /\ disturbed \subseteq disturbed'
        /\ \A u \in Tasks : u # t => pc'[u] = pc[u] /\ arg'[u] = arg[u]
        /\ \/ /\ pc[t] = "idle" /\ pc'[t] # "idle"
              /\ Busy(arg'[t].path) => arg'[t].path \in disturbed'
           \/ pc[t] # "idle" /\ pc'[t] = "idle"
           \/ pc[t] # "idle" /\ pc'[t] # "idle" /\ arg'[t].path = arg[t].path
    BY <1>1, CommandSteps DEF IInv
  <2> QED
    BY <2>1 DEF IInv, OneAtATime, Busy
<1>2. CASE Restart
  BY <1>2 DEF OneAtATime, Restart
<1>3. ASSUME UNCHANGED <<pc, arg, disturbed>> PROVE OneAtATime'
  BY <1>3 DEF IInv, OneAtATime
<1> QED
  BY <1>1, <1>2, <1>3 DEF Next, BackupWallet, Checkpoint, CloseWallet, vars, local, history

\* A file nobody uses is nobody's.
LEMMA UnusedApart ==
  ASSUME TypeOK, RowsInv, NEW f \in Files, Unused(f)
  PROVE  \A p \in Paths : ~Uses(f, p)
<1>1. active.file # f
  <2>1. db[f].key = None
    BY RecordTypes DEF Unused
  <2> QED
    BY <2>1, RecordTypes DEF RowsInv
<1>2. \A p \in Paths : dir[p] # f
  BY DEF TypeOK, Unused, Range
<1> QED
  BY <1>1, <1>2 DEF Unused, Uses

LEMMA OnePathNext == IInv /\ [Next]_vars => OnePath'
<1> SUFFICES ASSUME TypeOK, HoldsWhatItNeeds, RowsInv, OnePath, [Next]_vars PROVE OnePath'
  BY DEF IInv
<1>t. /\ pc \in [Tasks -> PCs] /\ arg \in [Tasks -> Held] /\ dir \in [Paths -> Files \cup {None}]
      /\ active \in {NoWallet} \cup [path : Paths, file : Files, key : Files, password : Passwords]
  BY DEF TypeOK
<1>1. ASSUME \A f \in Files, p \in Paths : Uses(f, p)' => Uses(f, p) PROVE OnePath'
  BY <1>1 DEF OnePath
<1>2. ASSUME NEW g \in Files, NEW q \in Paths, Unused(g),
             \A f \in Files, p \in Paths : Uses(f, p)' => Uses(f, p) \/ (f = g /\ p = q)
      PROVE  OnePath'
  BY <1>2, UnusedApart DEF OnePath
<1>3. ASSUME NEW t \in Tasks, NEW what, arg' = [arg EXCEPT ![t] = what],
             what.file \in Files /\ what.path \in Paths => Uses(what.file, what.path),
             active'.file \in Files /\ active'.path \in Paths => Uses(active'.file, active'.path),
             \A p \in Paths : dir'[p] \in {dir[p], None}
      PROVE  OnePath'
  <2>1. ASSUME NEW f \in Files, NEW p \in Paths, Uses(f, p)' PROVE Uses(f, p)
    <3>1. dir'[p] = f => Uses(f, p)
      BY <1>3 DEF Uses
    <3>2. active'.file = f /\ active'.path = p => Uses(f, p)
      BY <1>3
    <3>3. ASSUME NEW u \in Tasks, arg'[u].file = f, arg'[u].path = p PROVE Uses(f, p)
      BY <1>3, <1>t, <3>3 DEF Uses
    <3> QED
      BY <2>1, <3>1, <3>2, <3>3 DEF Uses
  <2> QED
    BY <1>1, <2>1
<1>4. active.file \in Files /\ active.path \in Paths => Uses(active.file, active.path)
  BY DEF Uses
<1>5. \A t \in Tasks : Uses(arg[t].file, arg[t].path)
  BY DEF Uses
<1>6. Nothing.file = None
  BY RecordTypes
<1>7. ASSUME NEW t \in Tasks, NEW p \in Paths, \/ \E pwd \in Passwords : CreateStart(t, p, pwd)
                                               \/ OpenStart(t, p) \/ DeleteCheck(t, p)
      PROVE  OnePath'
  <2>1. PICK what \in {[Nothing EXCEPT !.path = p]} \cup {[Nothing EXCEPT !.path = p, !.password = w] : w \in Passwords} :
          arg' = [arg EXCEPT ![t] = what]
    BY <1>7 DEF CreateStart, OpenStart, DeleteCheck, Begin
  <2>2. what.file = None
    BY DEF Nothing
  <2> QED
    BY <1>3, <1>4, <1>7, <2>1, <2>2 DEF CreateStart, OpenStart, DeleteCheck, disk
<1>8. ASSUME NEW t \in Tasks, NEW pwd \in Passwords, NEW new \in Passwords, ChangeStart(t, pwd, new) PROVE OnePath'
  BY <1>3, <1>4, <1>8 DEF ChangeStart, Begin, disk
<1>9. ASSUME UNCHANGED <<dir, active, arg>> PROVE OnePath'
  BY <1>1, <1>9 DEF Uses
<1>10. ASSUME NEW t \in Tasks, \/ CreateSchema(t) \/ CreateKey(t) \/ CreateAccount(t)
                               \/ OpenMigrate(t) \/ ChangeWrite(t)
       PROVE  OnePath'
  BY <1>9, <1>10 DEF CreateSchema, CreateKey, CreateAccount, OpenMigrate, ChangeWrite
<1>11. ASSUME NEW t \in Tasks, CreateInstall(t) \/ OpenInstall(t) PROVE OnePath'
  BY <1>3, <1>5, <1>6, <1>11 DEF CreateInstall, OpenInstall, Done, disk
<1>12. ASSUME NEW t \in Tasks, ChangeInstall(t) PROVE OnePath'
  <2>1. active'.file \in Files /\ active'.path \in Paths => Uses(active'.file, active'.path)
    <3>1. CASE active.path = arg[t].path /\ active # NoWallet
      <4>1. PICK x \in [path : Paths, file : Files, key : Files, password : Passwords] : x = active
        BY <1>t, <3>1
      <4>2. active' = [x EXCEPT !.key = arg[t].key, !.password = arg[t].password]
        BY <1>12, <3>1, <4>1 DEF ChangeInstall
      <4>3. active'.file = x.file /\ active'.path = x.path
        BY <4>2
      <4> QED
        BY <1>4, <4>1, <4>3
    <3>2. CASE active.path # arg[t].path
      BY <1>4, <1>12, <3>2 DEF ChangeInstall
    <3>3. CASE active.path = arg[t].path /\ active = NoWallet
      BY <1>12, <3>3, RecordTypes DEF ChangeInstall, HoldsWhatItNeeds
    <3> QED
      BY <3>1, <3>2, <3>3
  <2> QED
    BY <1>3, <1>6, <1>12, <2>1 DEF ChangeInstall, Done, disk
<1>13. ASSUME NEW t \in Tasks, DeleteClose(t) PROVE OnePath'
  BY <1>1, <1>13, RecordTypes DEF DeleteClose, disk, Uses
<1>14. ASSUME NEW t \in Tasks, DeleteRemove(t) \/ Fail(t) PROVE OnePath'
  <2>1. arg' = [arg EXCEPT ![t] = Nothing] /\ active' = active /\ \A p \in Paths : dir'[p] \in {dir[p], None}
    BY <1>14, <1>t DEF DeleteRemove, Fail, Done, disk
  <2> QED
    BY <1>3, <1>4, <1>6, <2>1
<1>15. ASSUME NEW t \in Tasks, CreateOpen(t) \/ OpenDb(t) PROVE OnePath'
  <2> DEFINE f == dir[arg[t].path]
             what == [path |-> arg[t].path, file |-> f, key |-> arg[t].key, password |-> arg[t].password]
  <2>1. arg[t].path \in Paths /\ f \in Files
    BY <1>15, <1>t DEF CreateOpen, OpenDb, HoldsWhatItNeeds, Exists
  <2>2. arg' = [arg EXCEPT ![t] = what] /\ UNCHANGED <<dir, active>>
    BY <1>15, <1>t, <2>1, LearnsFile DEF CreateOpen, OpenDb, disk
  <2>3. Uses(what.file, what.path)
    BY DEF Uses
  <2> HIDE DEF what
  <2> QED
    BY <1>3, <1>4, <2>2, <2>3
<1>16. ASSUME NEW t \in Tasks, OpenKey(t) PROVE OnePath'
  <2>1. \A u \in Tasks : arg'[u].file = arg[u].file /\ arg'[u].path = arg[u].path
    BY <1>16, <1>t DEF OpenKey, Held
  <2> QED
    BY <1>1, <1>16, <2>1 DEF OpenKey, disk, Uses
<1>17. ASSUME NEW t \in Tasks, CreateConnect(t) PROVE OnePath'
  <2>1. arg[t].path \in Paths
    BY <1>17 DEF CreateConnect, HoldsWhatItNeeds
  <2>2. \A f, u : arg' = [arg EXCEPT ![t].file = f, ![t].key = f] /\ u \in Tasks =>
          arg'[u].path = arg[u].path /\ arg'[u].file = IF u = t THEN f ELSE arg[u].file
    BY <1>t DEF Held
  <2>3. CASE Exists(arg[t].path)
    <3>1. arg' = [arg EXCEPT ![t].file = dir[arg[t].path], ![t].key = dir[arg[t].path]] /\ UNCHANGED <<dir, active>>
      BY <1>17, <2>3 DEF CreateConnect
    <3>2. \A u \in Tasks : arg'[u].path = arg[u].path /\ arg'[u].file = IF u = t THEN dir[arg[t].path] ELSE arg[u].file
      BY <2>2, <3>1
    <3>3. ASSUME NEW g \in Files, NEW p \in Paths, Uses(g, p)' PROVE Uses(g, p)
      BY <3>1, <3>2, <3>3 DEF Uses
    <3> QED
      BY <1>1, <3>3
  <2>4. CASE ~Exists(arg[t].path)
    <3>1. PICK f \in Files : /\ Unused(f) /\ dir' = [dir EXCEPT ![arg[t].path] = f]
                             /\ arg' = [arg EXCEPT ![t].file = f, ![t].key = f] /\ active' = active
      BY <1>17, <2>4 DEF CreateConnect
    <3>3. \A u \in Tasks : arg'[u].path = arg[u].path /\ arg'[u].file = IF u = t THEN f ELSE arg[u].file
      BY <2>2, <3>1
    <3>4. \A p \in Paths : dir'[p] = IF p = arg[t].path THEN f ELSE dir[p]
      BY <1>t, <3>1
    <3>2. ASSUME NEW g \in Files, NEW p \in Paths, Uses(g, p)' PROVE Uses(g, p) \/ (g = f /\ p = arg[t].path)
      <4>1. CASE dir'[p] = g
        BY <3>4, <4>1 DEF Uses
      <4>2. CASE active'.file = g /\ active'.path = p
        BY <3>1, <4>2 DEF Uses
      <4>3. ASSUME NEW u \in Tasks, arg'[u].file = g, arg'[u].path = p PROVE Uses(g, p) \/ (g = f /\ p = arg[t].path)
        BY <3>3, <4>3 DEF Uses
      <4> QED
        BY <3>2, <4>1, <4>2, <4>3 DEF Uses
    <3> QED
      BY <1>2, <2>1, <3>1, <3>2
  <2> QED
    BY <2>3, <2>4
<1>18. ASSUME NEW q \in Paths, BackupWallet(q) PROVE OnePath'
  <2>1. PICK f \in Files : Unused(f) /\ dir' = [dir EXCEPT ![q] = f] /\ UNCHANGED <<active, arg>>
    BY <1>18 DEF BackupWallet, local
  <2>2. \A g \in Files, p \in Paths : Uses(g, p)' => Uses(g, p) \/ (g = f /\ p = q)
    BY <1>t, <2>1 DEF Uses
  <2> QED
    BY <1>2, <2>1, <2>2
<1>19. CASE CloseWallet
  BY <1>1, <1>19, RecordTypes DEF CloseWallet, disk, local, Uses
<1>20. CASE Restart
  BY <1>1, <1>20, RecordTypes DEF Restart, disk, Uses
<1>21. CASE (\E f \in Files : Checkpoint(f)) \/ UNCHANGED vars
  BY <1>9, <1>21 DEF Checkpoint, vars, disk, local
<1> QED
  BY <1>7, <1>8, <1>10, <1>11, <1>12, <1>13, <1>14, <1>15, <1>16, <1>17, <1>18, <1>19, <1>20, <1>21 DEF Next, Command

\* A command leaves the other paths alone: what they name, the rows of the files
\* that go by them, and the session if it is at one of them.
LEMMA Apart ==
  ASSUME IInv, NEW t \in Tasks, Command(t), NEW q \in Paths,
         pc[t] # "idle" => arg[t].path # q, pc'[t] # "idle" => arg'[t].path # q
  PROVE  /\ dir'[q] = dir[q]
         /\ \A f \in Files : Uses(f, q) => db'[f] = db[f]
         /\ active'.path = q => active' = active
<1> DEFINE Goal == /\ dir'[q] = dir[q]
                   /\ \A f \in Files : Uses(f, q) => db'[f] = db[f]
                   /\ active'.path = q => active' = active
<1>t. /\ pc \in [Tasks -> PCs] /\ arg \in [Tasks -> Held] /\ dir \in [Paths -> Files \cup {None}]
      /\ active \in {NoWallet} \cup [path : Paths, file : Files, key : Files, password : Passwords]
      /\ db \in [Files -> Rows]
  BY DEF IInv, TypeOK
<1>h. pc[t] # "idle" => arg[t].path \in Paths /\ arg[t].path # q
  BY DEF IInv, HoldsWhatItNeeds
<1>o. \A f \in Files, p \in Paths : Uses(f, p) /\ Uses(f, q) => p = q
  BY DEF IInv, OnePath
<1>1. ASSUME UNCHANGED disk, active' = active \/ active' = NoWallet \/ (active' = arg[t] /\ pc[t] # "idle") PROVE Goal
  BY <1>1, <1>h, RecordTypes DEF disk
<1>2. ASSUME pc[t] # "idle", NEW g, NEW r, Uses(g, arg[t].path), db' = db \/ db' = [db EXCEPT ![g] = r],
             UNCHANGED <<dir, active>>
      PROVE  Goal
  <2>1. \A f \in Files : Uses(f, q) => f # g
    BY <1>2, <1>h, <1>o
  <2> QED
    BY <1>2, <1>t, <2>1
<1>3. Uses(arg[t].file, arg[t].path) /\ Uses(dir[arg[t].path], arg[t].path)
  BY DEF Uses
<1>4. ASSUME pc[t] # "idle", NEW r, dir' = dir \/ dir' = [dir EXCEPT ![arg[t].path] = r], UNCHANGED <<db, active>> PROVE Goal
  BY <1>4, <1>h, <1>t
<1>5. ASSUME \/ \E p \in Paths : \/ \E pwd \in Passwords : CreateStart(t, p, pwd)
                                 \/ OpenStart(t, p) \/ DeleteCheck(t, p)
             \/ \E pwd, new \in Passwords : ChangeStart(t, pwd, new)
             \/ OpenDb(t) \/ OpenKey(t) \/ Fail(t)
      PROVE  Goal
  <2>1. UNCHANGED <<disk, active>>
    BY <1>5 DEF CreateStart, OpenStart, DeleteCheck, ChangeStart, OpenDb, OpenKey, Fail
  <2> QED
    BY <1>1, <2>1 DEF disk
<1>6. ASSUME CreateInstall(t) \/ OpenInstall(t) \/ DeleteClose(t) PROVE Goal
  <2>1. UNCHANGED disk /\ (active' = NoWallet \/ (active' = arg[t] /\ pc[t] # "idle"))
    BY <1>6 DEF CreateInstall, OpenInstall, DeleteClose, disk
  <2> QED
    BY <1>1, <2>1
<1>7. CASE ChangeInstall(t)
  <2>1. CASE active.path = arg[t].path
    <3>1. arg[t].path \in Paths /\ arg[t].path # q /\ active # NoWallet
      BY <1>7, <1>h, <2>1, RecordTypes DEF ChangeInstall
    <3>2. PICK x \in [path : Paths, file : Files, key : Files, password : Passwords] : x = active
      BY <1>t, <3>1
    <3>3. active' = [x EXCEPT !.key = arg[t].key, !.password = arg[t].password]
      BY <1>7, <2>1, <3>2 DEF ChangeInstall
    <3>4. active'.path = x.path
      BY <3>3
    <3> QED
      BY <1>7, <2>1, <3>1, <3>2, <3>4 DEF ChangeInstall, disk
  <2>2. CASE active.path # arg[t].path
    BY <1>1, <1>7, <2>2 DEF ChangeInstall, disk
  <2> QED
    BY <2>1, <2>2
<1>8. CASE DeleteRemove(t)
  BY <1>4, <1>8 DEF DeleteRemove
<1>9. CASE CreateConnect(t)
  BY <1>4, <1>9 DEF CreateConnect
<1>10. CASE CreateSchema(t)
  <2>1. pc[t] # "idle" /\ UNCHANGED <<dir, active>>
        /\ db' = [db EXCEPT ![arg[t].file] = [db[arg[t].file] EXCEPT !.schema = "current"]]
    BY <1>10 DEF CreateSchema
  <2> QED
    BY <1>2, <1>3, <2>1
<1>11. CASE CreateOpen(t)
  <2>1. pc[t] # "idle" /\ UNCHANGED <<dir, active>>
        /\ db' = [db EXCEPT ![dir[arg[t].path]] = [db[dir[arg[t].path]] EXCEPT !.schema = "current"]]
    BY <1>11 DEF CreateOpen, Write
  <2> QED
    BY <1>2, <1>3, <2>1
<1>12. CASE CreateKey(t)
  <2>1. pc[t] # "idle" /\ UNCHANGED <<dir, active>>
        /\ \/ db' = db
           \/ db' = [db EXCEPT ![arg[t].file] =
                       [db[arg[t].file] EXCEPT !.key = arg[t].key, !.password = arg[t].password]]
    BY <1>12 DEF CreateKey, Write
  <2> QED
    BY <1>2, <1>3, <2>1
<1>13. CASE CreateAccount(t)
  <2>1. pc[t] # "idle" /\ UNCHANGED <<dir, active>>
        /\ db' = [db EXCEPT ![arg[t].file] = [db[arg[t].file] EXCEPT !.account = TRUE]]
    BY <1>13 DEF CreateAccount, Write
  <2> QED
    BY <1>2, <1>3, <2>1
<1>14. CASE OpenMigrate(t)
  <2>1. pc[t] # "idle" /\ UNCHANGED <<dir, active>>
        /\ db' = [db EXCEPT ![arg[t].file] = [db[arg[t].file] EXCEPT !.schema = "current"]]
    BY <1>14 DEF OpenMigrate, Write
  <2> QED
    BY <1>2, <1>3, <2>1
<1>15. CASE ChangeWrite(t)
  <2>1. pc[t] # "idle" /\ UNCHANGED <<dir, active>>
        /\ db' = [db EXCEPT ![arg[t].file] =
                    [db[arg[t].file] EXCEPT !.key = arg[t].key, !.password = arg[t].password]]
    BY <1>15 DEF ChangeWrite, Write
  <2> QED
    BY <1>2, <1>3, <2>1
<1> QED
  BY <1>5, <1>6, <1>7, <1>8, <1>9, <1>10, <1>11, <1>12, <1>13, <1>14, <1>15 DEF Command

-----------------------------------------------------------------------------
(* What a write leaves of a row *)

\* A master key is written with the password it is under.
Rekeys(f, k, w) == db' = [db EXCEPT ![f] = [db[f] EXCEPT !.key = k, !.password = w]]

LEMMA KeyWrites ==
  ASSUME NEW t \in Tasks, ChangeWrite(t) \/ (CreateKey(t) /\ db[arg[t].file].key = None)
  PROVE  Rekeys(arg[t].file, arg[t].key, arg[t].password)
BY DEF ChangeWrite, CreateKey, Write, Rekeys

LEMMA Rekeyed ==
  ASSUME db \in [Files -> Rows], NEW f \in Files, NEW k \in Files, NEW w \in Passwords,
         Rekeys(f, k, w)
  PROVE  /\ db'[f].key = k /\ db'[f].password = w
         /\ db'[f].schema = db[f].schema /\ db'[f].account = db[f].account
         /\ \A g \in Files : g # f => db'[g] = db[g]
<1>0. db' = [db EXCEPT ![f] = [db[f] EXCEPT !.key = k, !.password = w]]
  BY DEF Rekeys
<1>1. PICK x \in Rows : x = db[f]
  OBVIOUS
<1> DEFINE y == [x EXCEPT !.key = k]
<1>2. y \in Rows /\ y.schema = x.schema /\ y.key = k /\ y.account = x.account
  BY DEF Rows
<1>3. db'[f] = [y EXCEPT !.password = w]
  BY <1>0, <1>1
<1> HIDE DEF y
<1>4. db'[f].key = y.key /\ db'[f].password = w /\ db'[f].schema = y.schema /\ db'[f].account = y.account
  BY <1>2, <1>3 DEF Rows
<1>5. \A g \in Files : g # f => db'[g] = db[g]
  BY <1>0
<1> QED
  BY <1>1, <1>2, <1>4, <1>5

LEMMA Rewritten ==
  ASSUME db \in [Files -> Rows], NEW f \in Files,
         \/ db' = [db EXCEPT ![f] = [db[f] EXCEPT !.schema = "current"]]
         \/ db' = [db EXCEPT ![f] = [db[f] EXCEPT !.account = TRUE]]
  PROVE  /\ db'[f].key = db[f].key /\ db'[f].password = db[f].password
         /\ db'[f].schema \in {db[f].schema, "current"} /\ db'[f].account \in {db[f].account, TRUE}
         /\ db' = [db EXCEPT ![f] = [db[f] EXCEPT !.account = TRUE]] => db'[f].account
         /\ \A g \in Files : g # f => db'[g] = db[g]
<1>1. PICK x \in Rows : x = db[f]
  OBVIOUS
<1>2. CASE db' = [db EXCEPT ![f] = [db[f] EXCEPT !.account = TRUE]]
  <2>1. db'[f] = [x EXCEPT !.account = TRUE] /\ \A g \in Files : g # f => db'[g] = db[g]
    BY <1>1, <1>2
  <2> QED
    BY <1>1, <2>1 DEF Rows
<1>3. CASE /\ db' = [db EXCEPT ![f] = [db[f] EXCEPT !.schema = "current"]]
           /\ db' # [db EXCEPT ![f] = [db[f] EXCEPT !.account = TRUE]]
  <2>1. db'[f] = [x EXCEPT !.schema = "current"] /\ \A g \in Files : g # f => db'[g] = db[g]
    BY <1>1, <1>3
  <2> QED
    BY <1>1, <1>3, <2>1 DEF Rows
<1> QED
  BY <1>2, <1>3

-----------------------------------------------------------------------------
(* Passwords *)

LEMMA PasswordsNext == IInv /\ [Next]_vars => (PasswordKnown /\ PendingKnown)'
<1> SUFFICES ASSUME IInv, [Next]_vars PROVE (PasswordKnown /\ PendingKnown)'
  OBVIOUS
<1>t. /\ pc \in [Tasks -> PCs] /\ arg \in [Tasks -> Held] /\ dir \in [Paths -> Files \cup {None}]
      /\ active \in {NoWallet} \cup [path : Paths, file : Files, key : Files, password : Passwords]
      /\ db \in [Files -> Rows] /\ known \in [Files -> SUBSET Passwords]
  BY DEF IInv, TypeOK
<1>h. \A t \in Tasks :
        /\ pc[t] # "idle" => arg[t].path \in Paths
        /\ pc[t] \in Creating \cup Keyed => arg[t].password \in Passwords
        /\ pc[t] \in WithFile => arg[t].file \in Files
        /\ pc[t] \in Keyed \cup {"create_schema", "create_open", "create_key"} => arg[t].key \in Files
  BY DEF IInv, HoldsWhatItNeeds
<1>k. \A t \in Tasks : pc[t] = "change_write" =>
        arg[t].file \in Files /\ db[arg[t].file].key # None /\ arg[t].password \in known[arg[t].file]
  BY <1>h DEF IInv, RowsInv, PendingKnown, Keyed, WithFile
<1> DEFINE Goal == (PasswordKnown /\ PendingKnown)'
<1>1. ASSUME \A f \in Files : db'[f].key = db[f].key /\ db'[f].password = db[f].password,
             \A f \in Files : known[f] \subseteq known'[f], copies' = copies,
             \A u \in Tasks : pc'[u] = "change_write" => pc[u] = "change_write" /\ arg'[u] = arg[u]
      PROVE  Goal
  <2>1. PasswordKnown'
    BY <1>1 DEF IInv, PasswordKnown
  <2>2. PendingKnown'
    BY <1>1, <1>k DEF PendingKnown
  <2> QED
    BY <2>1, <2>2
<1>2. ASSUME NEW t \in Tasks, Command(t), UNCHANGED <<known, copies>>, pc'[t] # "change_write",
             \A f \in Files : db'[f].key = db[f].key /\ db'[f].password = db[f].password
      PROVE  Goal
  <2>1. \A u \in Tasks : u # t => pc'[u] = pc[u] /\ arg'[u] = arg[u]
    BY <1>2, CommandSteps DEF IInv
  <2> QED
    BY <1>1, <1>2, <2>1
<1>3. ASSUME NEW t \in Tasks, NEW p \in Paths, \/ \E pwd \in Passwords : CreateStart(t, p, pwd)
                                               \/ OpenStart(t, p) \/ DeleteCheck(t, p)
      PROVE  Goal
  <2>1. /\ \E l \in {"create_connect", "open_db", "delete_close", "delete_remove"} : pc' = [pc EXCEPT ![t] = l]
        /\ UNCHANGED <<db, known, copies>> /\ Command(t)
    BY <1>3 DEF CreateStart, OpenStart, DeleteCheck, Begin, disk, Command
  <2> QED
    BY <1>2, <1>t, <2>1
<1>4. ASSUME NEW t \in Tasks, NEW pwd \in Passwords, NEW new \in Passwords, ChangeStart(t, pwd, new) PROVE Goal
  <2>1. /\ pc' = [pc EXCEPT ![t] = "change_write"] /\ UNCHANGED <<db, copies>>
        /\ arg' = [arg EXCEPT ![t] = [path |-> active.path, file |-> active.file, key |-> active.key, password |-> new]]
        /\ known' = [known EXCEPT ![active.file] = @ \cup {new}] /\ active.file \in Files
    BY <1>4, <1>t DEF ChangeStart, Begin, disk
  <2>2. \A f \in Files : known[f] \subseteq known'[f]
    BY <1>t, <2>1
  <2>3. PasswordKnown'
    BY <2>1, <2>2 DEF IInv, PasswordKnown
  <2>4. PendingKnown'
    <3>1. ASSUME NEW u \in Tasks, u # t, pc'[u] = "change_write" PROVE arg'[u].password \in known'[arg'[u].file]
      BY <1>t, <1>k, <2>1, <2>2, <3>1
    <3>2. arg'[t].password \in known'[arg'[t].file]
      BY <1>t, <2>1
    <3> QED
      BY <3>1, <3>2 DEF PendingKnown
  <2> QED
    BY <2>3, <2>4
<1>5. ASSUME NEW t \in Tasks, \/ CreateConnect(t) \/ CreateInstall(t) \/ OpenDb(t) \/ OpenKey(t) \/ OpenInstall(t)
                              \/ DeleteClose(t) \/ DeleteRemove(t) \/ Fail(t)
      PROVE  Goal
  <2>1. /\ UNCHANGED <<db, known, copies>> /\ Command(t)
        /\ \E l \in {"create_schema", "idle", "open_migrate", "open_key", "open_install", "delete_remove"} :
             pc' = [pc EXCEPT ![t] = l]
    BY <1>5 DEF CreateConnect, CreateInstall, OpenDb, OpenKey, OpenInstall, DeleteClose, DeleteRemove, Fail,
       disk, history, Goto, Done, Command
  <2> QED
    BY <1>2, <1>t, <2>1
<1>6. ASSUME NEW t \in Tasks, \/ CreateSchema(t) \/ CreateOpen(t) \/ CreateAccount(t) \/ OpenMigrate(t)
      PROVE  Goal
  <2>1. /\ UNCHANGED <<known, copies>> /\ Command(t)
        /\ \E l \in {"create_open", "create_key", "create_install", "open_key"} : pc' = [pc EXCEPT ![t] = l]
    BY <1>6 DEF CreateSchema, CreateOpen, CreateAccount, OpenMigrate, history, Goto, Command
  <2>2. PICK f \in Files : \/ db' = [db EXCEPT ![f] = [db[f] EXCEPT !.schema = "current"]]
                           \/ db' = [db EXCEPT ![f] = [db[f] EXCEPT !.account = TRUE]]
    <3>1. CASE CreateOpen(t)
      <4>1. dir[arg[t].path] \in Files
        BY <3>1, <1>h, <1>t DEF CreateOpen, Exists
      <4> QED
        BY <3>1, <4>1 DEF CreateOpen, Write
    <3>2. CASE CreateSchema(t) \/ CreateAccount(t) \/ OpenMigrate(t)
      <4>1. arg[t].file \in Files
        BY <3>2, <1>h DEF CreateSchema, CreateAccount, OpenMigrate, WithFile, Keyed
      <4> QED
        BY <3>2, <4>1 DEF CreateSchema, CreateAccount, OpenMigrate, Write
    <3> QED
      BY <1>6, <3>1, <3>2
  <2>3. \A g \in Files : db'[g].key = db[g].key /\ db'[g].password = db[g].password
    BY <1>t, <2>2, Rewritten
  <2> QED
    BY <1>2, <1>t, <2>1, <2>3
<1>7. ASSUME NEW t \in Tasks, CreateKey(t) PROVE Goal
  <2> DEFINE f == arg[t].file
  <2>1. pc[t] = "create_key" /\ f \in Files /\ arg[t].key \in Files /\ arg[t].password \in Passwords
    BY <1>7, <1>h DEF CreateKey, WithFile, Creating
  <2>2. CASE db[f].key # None
    <3>1. UNCHANGED <<db, known, copies>> /\ pc' = [pc EXCEPT ![t] = "create_account"] /\ Command(t)
      BY <1>7, <2>2 DEF CreateKey, Goto, Command
    <3> QED
      BY <1>2, <1>t, <3>1
  <2>3. CASE db[f].key = None
    <3>1. /\ db' = [db EXCEPT ![f] = [db[f] EXCEPT !.key = arg[t].key, !.password = arg[t].password]]
          /\ known' = [known EXCEPT ![f] = {arg[t].password}]
          /\ pc' = [pc EXCEPT ![t] = "create_account"] /\ UNCHANGED <<arg, copies>>
      BY <1>7, <2>3 DEF CreateKey, Write, Goto
    <3>2. db'[f].password = arg[t].password /\ \A g \in Files : g # f => db'[g] = db[g]
      <4>1. Rekeys(f, arg[t].key, arg[t].password)
        BY <1>7, <2>3, KeyWrites
      <4> HIDE DEF f
      <4> QED
        BY <1>t, <2>1, <4>1, Rekeyed
    <3>3. known'[f] = {arg[t].password} /\ \A g \in Files : g # f => known'[g] = known[g]
      BY <1>t, <2>1, <3>1
    <3>4. PasswordKnown'
      BY <3>1, <3>2, <3>3 DEF IInv, PasswordKnown
    <3>5. PendingKnown'
      BY <1>t, <1>k, <2>1, <2>3, <3>1, <3>3 DEF PendingKnown
    <3> QED
      BY <3>4, <3>5
  <2> QED
    BY <2>2, <2>3
<1>8. ASSUME NEW t \in Tasks, ChangeWrite(t) PROVE Goal
  <2> DEFINE f == arg[t].file
  <2>1. pc[t] = "change_write" /\ f \in Files /\ arg[t].key \in Files /\ arg[t].password \in Passwords
    BY <1>8, <1>h DEF ChangeWrite, WithFile, Keyed
  <2>2. /\ db' = [db EXCEPT ![f] = [db[f] EXCEPT !.key = arg[t].key, !.password = arg[t].password]]
        /\ pc' = [pc EXCEPT ![t] = "change_install"] /\ UNCHANGED <<arg, known, copies>>
    BY <1>8 DEF ChangeWrite, Write, Goto, history
  <2>3. db'[f].password = arg[t].password /\ \A g \in Files : g # f => db'[g] = db[g]
    <3>1. Rekeys(f, arg[t].key, arg[t].password)
      BY <1>8, KeyWrites
    <3> HIDE DEF f
    <3> QED
      BY <1>t, <2>1, <3>1, Rekeyed
  <2>4. PasswordKnown'
    BY <1>k, <2>1, <2>2, <2>3 DEF IInv, PasswordKnown
  <2>5. PendingKnown'
    BY <1>t, <1>k, <2>2 DEF PendingKnown
  <2> QED
    BY <2>4, <2>5
<1>9. ASSUME NEW t \in Tasks, ChangeInstall(t) PROVE Goal
  <2> DEFINE f == arg[t].file
  <2>1. pc[t] = "change_install" /\ f \in Files /\ arg[t].path \in Paths
    BY <1>9, <1>h DEF ChangeInstall, WithFile, Keyed
  <2>2. /\ known' = [known EXCEPT ![f] = IF arg[t].path \in disturbed THEN @ ELSE {arg[t].password}]
        /\ pc' = [pc EXCEPT ![t] = "idle"] /\ arg' = [arg EXCEPT ![t] = Nothing] /\ UNCHANGED <<db, copies>>
    BY <1>9 DEF ChangeInstall, Done, disk
  <2>3. CASE arg[t].path \in disturbed
    <3>1. known' = known
      BY <1>t, <2>2, <2>3
    <3>2. Command(t)
      BY <1>9 DEF Command
    <3> QED
      BY <1>2, <1>t, <2>2, <3>1, <3>2
  <2>4. CASE arg[t].path \notin disturbed
    <3>1. db[f].password = arg[t].password
      BY <2>1, <2>4 DEF IInv, StageInv, Stage, Keyed
    <3>2. known'[f] = {arg[t].password} /\ \A g \in Files : g # f => known'[g] = known[g]
      BY <1>t, <2>1, <2>2, <2>4
    <3>3. PasswordKnown'
      BY <2>2, <3>1, <3>2 DEF IInv, PasswordKnown
    <3>4. ASSUME NEW u \in Tasks, u # t, pc[u] = "change_write" PROVE arg[u].file # f
      <4>1. SUFFICES ASSUME arg[u].file = f PROVE FALSE
        OBVIOUS
      <4>2. Uses(f, arg[u].path) /\ Uses(f, arg[t].path) /\ arg[u].path \in Paths
        BY <1>h, <3>4, <4>1 DEF Uses
      <4>3. arg[u].path = arg[t].path
        BY <2>1, <4>2 DEF IInv, OnePath
      <4> QED
        BY <2>1, <2>4, <3>4, <4>3 DEF IInv, OneAtATime
    <3>5. PendingKnown'
      BY <1>t, <1>k, <2>2, <3>2, <3>4 DEF PendingKnown
    <3> QED
      BY <3>3, <3>5
  <2> QED
    BY <2>3, <2>4
<1>10. ASSUME NEW t \in Tasks, Command(t) PROVE Goal
  BY <1>3, <1>4, <1>5, <1>6, <1>7, <1>8, <1>9, <1>10 DEF Command
<1>11. ASSUME NEW q \in Paths, BackupWallet(q) PROVE Goal
  <2>1. PICK f \in Files : /\ Unused(f) /\ db' = [db EXCEPT ![f] = main[dir[active.path]]]
                           /\ known' = [known EXCEPT ![f] = known[dir[active.path]]]
                           /\ copies' = copies \cup {f} /\ UNCHANGED <<pc, arg>>
    BY <1>11 DEF BackupWallet, local
  <2>2. \A g \in Files : g # f => db'[g] = db[g] /\ known'[g] = known[g]
    BY <1>t, <2>1
  <2>3. \A u \in Tasks : arg[u].file # f
    BY <2>1 DEF Unused
  <2>4. PasswordKnown'
    BY <2>1, <2>2 DEF IInv, PasswordKnown
  <2>5. PendingKnown'
    BY <1>k, <2>1, <2>2, <2>3 DEF PendingKnown
  <2> QED
    BY <2>4, <2>5
<1>12. CASE CloseWallet \/ Restart \/ (\E f \in Files : Checkpoint(f)) \/ UNCHANGED vars
  <2>1. UNCHANGED <<db, known, copies>> /\ \A u \in Tasks : pc'[u] = "change_write" => pc[u] = "change_write" /\ arg'[u] = arg[u]
    BY <1>12 DEF CloseWallet, Restart, Checkpoint, vars, disk, local, history
  <2> QED
    BY <1>1, <2>1
<1> QED
  BY <1>10, <1>11, <1>12 DEF Next

-----------------------------------------------------------------------------
(* Where each command is *)

LEMMA StageKept ==
  ASSUME NEW u \in Tasks, Stage(u), pc'[u] = pc[u], arg'[u] = arg[u], copies \subseteq copies',
         \/ dir'[arg[u].path] = dir[arg[u].path]
         \/ ~Exists(arg[u].path) /\ dir'[arg[u].path] \in copies' /\ pc[u] \notin WithFile,
         pc[u] \in WithFile => db'[arg[u].file] = db[arg[u].file],
         active'.path = arg[u].path => active.path = arg[u].path
  PROVE  Stage(u)'
  BY DEF Stage, Exists, WithFile, Keyed

\* What a command has just done is what the next step finds.
LEMMA StageReached ==
  ASSUME IInv, NEW t \in Tasks, Command(t), pc'[t] # "idle", arg'[t].path \notin disturbed'
  PROVE  Stage(t)'
<1>t. /\ pc \in [Tasks -> PCs] /\ arg \in [Tasks -> Held] /\ dir \in [Paths -> Files \cup {None}]
      /\ active \in {NoWallet} \cup [path : Paths, file : Files, key : Files, password : Passwords]
      /\ db \in [Files -> Rows]
  BY DEF IInv, TypeOK
<1>h. /\ pc[t] # "idle" => arg[t].path \in Paths
      /\ pc[t] \in Creating \cup Keyed => arg[t].password \in Passwords
      /\ pc[t] \in WithFile => arg[t].file \in Files
      /\ pc[t] \in Keyed \cup {"create_schema", "create_open", "create_key"} => arg[t].key \in Files
  BY DEF IInv, HoldsWhatItNeeds
<1>b. disturbed \subseteq disturbed'
  BY CommandSteps DEF IInv
<1>s. ASSUME pc[t] # "idle", arg'[t].path = arg[t].path PROVE Stage(t)
  BY <1>b, <1>s DEF IInv, StageInv
<1>1. ASSUME NEW p \in Paths, NEW pwd \in Passwords, CreateStart(t, p, pwd) PROVE Stage(t)'
  <2>1. /\ ~Exists(p) /\ pc'[t] = "create_connect" /\ arg'[t].path = p /\ UNCHANGED <<dir, active, copies>>
    BY <1>1, <1>t DEF CreateStart, Begin, disk, Nothing
  <2>2. active.path # p
    <3>1. SUFFICES ASSUME active.path = p PROVE FALSE
      OBVIOUS
    <3>2. active # NoWallet /\ active.file \in Files /\ p \notin disturbed
      BY <1>b, <1>t, <2>1, <3>1, RecordTypes
    <3> QED
      BY <2>1, <3>1, <3>2 DEF IInv, SessionInv, Exists
  <2> QED
    BY <2>1, <2>2 DEF Stage, WithFile, Keyed, Exists
<1>2. ASSUME NEW p \in Paths, OpenStart(t, p) \/ DeleteCheck(t, p) PROVE Stage(t)'
  <2>1. /\ pc'[t] \in {"open_db", "delete_close", "delete_remove"} /\ arg'[t].path = p /\ active' = active
        /\ pc'[t] = "delete_remove" => active.path # p
    BY <1>2, <1>t DEF OpenStart, DeleteCheck, Begin, Nothing
  <2> QED
    BY <2>1 DEF Stage, WithFile, Keyed, Creating
<1>3. ASSUME NEW pwd \in Passwords, NEW new \in Passwords, ChangeStart(t, pwd, new) PROVE Stage(t)'
  <2>1. /\ active # NoWallet /\ pc'[t] = "change_write" /\ arg'[t].path = active.path
        /\ arg'[t].file = active.file /\ arg'[t].key = active.key /\ UNCHANGED <<dir, db>>
    BY <1>3, <1>t DEF ChangeStart, Begin, disk
  <2>2. dir[active.path] = active.file /\ db[active.file].key = active.key
    BY <1>b, <2>1 DEF IInv, SessionInv
  <2> QED
    BY <2>1, <2>2 DEF Stage, WithFile, Keyed, Creating
<1>4. CASE CreateConnect(t)
  <2>1. /\ pc[t] = "create_connect" /\ pc'[t] = "create_schema" /\ active' = active /\ arg[t].path \in Paths
    BY <1>4, <1>t, <1>h DEF CreateConnect, Goto
  <2>2. PICK f : arg' = [arg EXCEPT ![t].file = f, ![t].key = f] /\ dir'[arg[t].path] = f
    BY <1>4, <1>t, <2>1 DEF CreateConnect
  <2>3. arg'[t].path = arg[t].path /\ arg'[t].file = f
    BY <1>t, <2>2 DEF Held
  <2>4. active.path # arg[t].path
    BY <1>s, <2>1, <2>3 DEF Stage, Creating
  <2> QED
    BY <2>1, <2>2, <2>3, <2>4 DEF Stage, Keyed
<1>5. CASE CreateSchema(t)
  <2>1. /\ pc[t] = "create_schema" /\ pc'[t] = "create_open" /\ UNCHANGED <<dir, active, arg>>
        /\ arg[t].file \in Files /\ db[arg[t].file].schema = "none"
        /\ db' = [db EXCEPT ![arg[t].file] = [db[arg[t].file] EXCEPT !.schema = "current"]]
    BY <1>5, <1>t, <1>h DEF CreateSchema, Goto, WithFile
  <2>2. db'[arg[t].file].key = None
    <3>1. db'[arg[t].file].key = db[arg[t].file].key
      BY <1>t, <2>1, Rewritten
    <3> QED
      BY <2>1, <3>1, RecordTypes DEF IInv, RowsInv
  <2>3. active.path # arg[t].path /\ dir[arg[t].path] = arg[t].file
    BY <1>s, <2>1 DEF Stage, Creating, WithFile
  <2> QED
    BY <2>1, <2>2, <2>3 DEF Stage, Keyed
<1>6. CASE CreateOpen(t)
  <2>1. /\ pc[t] = "create_open" /\ pc'[t] = "create_key" /\ UNCHANGED <<dir, active>> /\ arg[t].file \in Files
        /\ db' = [db EXCEPT ![dir[arg[t].path]] = [db[dir[arg[t].path]] EXCEPT !.schema = "current"]]
        /\ arg'[t].path = arg[t].path /\ arg'[t].file = dir[arg[t].path]
    BY <1>6, <1>t, <1>h DEF CreateOpen, Goto, WithFile, Write, Held
  <2>2. active.path # arg[t].path /\ dir[arg[t].path] = arg[t].file /\ db[arg[t].file].key = None
    BY <1>s, <2>1 DEF Stage, Creating, WithFile
  <2>3. db'[arg[t].file].key = None
    BY <1>t, <2>1, <2>2, Rewritten
  <2> QED
    BY <2>1, <2>2, <2>3 DEF Stage, Keyed
<1>7. CASE CreateKey(t)
  <2>1. /\ pc[t] = "create_key" /\ pc'[t] = "create_account" /\ UNCHANGED <<dir, active, arg>>
        /\ arg[t].file \in Files /\ arg[t].key \in Files /\ arg[t].password \in Passwords
    BY <1>7, <1>t, <1>h DEF CreateKey, Goto, WithFile, Creating
  <2>2. active.path # arg[t].path /\ dir[arg[t].path] = arg[t].file /\ db[arg[t].file].key = None
    BY <1>s, <2>1 DEF Stage, Creating, WithFile
  <2>3. db'[arg[t].file].key = arg[t].key /\ db'[arg[t].file].password = arg[t].password
    <3>1. Rekeys(arg[t].file, arg[t].key, arg[t].password)
      BY <1>7, <2>2, KeyWrites
    <3> QED
      BY <1>t, <2>1, <3>1, Rekeyed
  <2> QED
    BY <2>1, <2>2, <2>3 DEF Stage, Keyed
<1>8. CASE CreateAccount(t)
  <2>1. /\ pc[t] = "create_account" /\ pc'[t] = "create_install" /\ UNCHANGED <<dir, active, arg>>
        /\ arg[t].file \in Files
        /\ db' = [db EXCEPT ![arg[t].file] = [db[arg[t].file] EXCEPT !.account = TRUE]]
    BY <1>8, <1>t, <1>h DEF CreateAccount, Goto, WithFile, Keyed, Write
  <2>2. /\ active.path # arg[t].path /\ dir[arg[t].path] = arg[t].file
        /\ db[arg[t].file].key = arg[t].key /\ db[arg[t].file].password = arg[t].password
    BY <1>s, <2>1 DEF Stage, Creating, WithFile, Keyed
  <2>3. /\ db'[arg[t].file].key = db[arg[t].file].key /\ db'[arg[t].file].password = db[arg[t].file].password
        /\ db'[arg[t].file].account
    BY <1>t, <2>1, Rewritten
  <2> QED
    BY <2>1, <2>2, <2>3 DEF Stage, Keyed
<1>9. CASE OpenDb(t)
  <2>1. /\ pc'[t] \in {"open_migrate", "open_key"} /\ UNCHANGED <<dir, active>>
        /\ arg'[t].path = arg[t].path /\ arg'[t].file = dir[arg[t].path]
    BY <1>9, <1>t DEF OpenDb, Goto, disk, Held
  <2> QED
    BY <2>1 DEF Stage, Keyed, Creating
<1>10. CASE OpenMigrate(t)
  <2>1. pc[t] = "open_migrate" /\ pc'[t] = "open_key" /\ UNCHANGED <<dir, active, arg>>
    BY <1>10, <1>t DEF OpenMigrate, Goto
  <2>2. dir[arg[t].path] = arg[t].file
    BY <1>s, <2>1 DEF Stage, WithFile
  <2> QED
    BY <2>1, <2>2 DEF Stage, Keyed, Creating
<1>11. CASE OpenKey(t)
  <2>1. /\ pc[t] = "open_key" /\ pc'[t] = "open_install" /\ UNCHANGED <<dir, db, active>>
        /\ arg' = [arg EXCEPT ![t].key = db[arg[t].file].key, ![t].password = db[arg[t].file].password]
        /\ arg[t].file \in Files /\ db[arg[t].file] \in Rows /\ db[arg[t].file].key # None
    BY <1>11, <1>t, <1>h DEF OpenKey, Goto, disk, WithFile
  <2>2. PICK k \in Files, w \in Passwords : k = db[arg[t].file].key /\ w = db[arg[t].file].password
    <3>1. db[arg[t].file].password # None
      BY <2>1 DEF IInv, TypeOK
    <3> QED
      BY <2>1, <3>1 DEF Rows
  <2>3. arg' = [arg EXCEPT ![t] = [path |-> arg[t].path, file |-> arg[t].file, key |-> k, password |-> w]]
    <3>1. arg' = [arg EXCEPT ![t].key = k, ![t].password = w]
      BY <2>1, <2>2
    <3>2. /\ [arg EXCEPT ![t].key = k, ![t].password = w] =
               [arg EXCEPT ![t] = [path |-> arg[t].path, file |-> arg[t].file, key |-> k, password |-> w]]
          /\ [path |-> arg[t].path, file |-> arg[t].file, key |-> k, password |-> w] \in Held
      <4> k \in Files \cup {None} /\ w \in Passwords \cup {None} /\ arg \in [Tasks -> Held]
        BY <1>t
      <4> QED
        BY LearnsKeyAndPassword, Zenon
    <3> QED
      BY <3>1, <3>2, Zenon
  <2>4. arg'[t].path = arg[t].path /\ arg'[t].file = arg[t].file /\ arg'[t].key = k /\ arg'[t].password = w
    BY <1>t, <2>3
  <2>5. dir[arg[t].path] = arg[t].file
    BY <1>s, <2>1, <2>4 DEF Stage, WithFile
  <2> QED
    BY <2>1, <2>2, <2>4, <2>5 DEF Stage, Keyed, Creating
<1>12. CASE ChangeWrite(t)
  <2>1. /\ pc[t] = "change_write" /\ pc'[t] = "change_install" /\ UNCHANGED <<dir, active, arg>>
        /\ arg[t].file \in Files /\ arg[t].key \in Files /\ arg[t].password \in Passwords
    BY <1>12, <1>t, <1>h DEF ChangeWrite, Goto, WithFile, Keyed
  <2>2. dir[arg[t].path] = arg[t].file
    BY <1>s, <2>1 DEF Stage, WithFile, Keyed
  <2>3. db'[arg[t].file].key = arg[t].key /\ db'[arg[t].file].password = arg[t].password
    <3>1. Rekeys(arg[t].file, arg[t].key, arg[t].password)
      BY <1>12, KeyWrites
    <3> QED
      BY <1>t, <2>1, <3>1, Rekeyed
  <2> QED
    BY <2>1, <2>2, <2>3 DEF Stage, Keyed, Creating
<1>13. CASE DeleteClose(t)
  <2>1. /\ pc[t] = "delete_close" /\ pc'[t] = "delete_remove" /\ active' = NoWallet /\ arg' = arg
        /\ arg[t].path \in Paths
    BY <1>13, <1>t, <1>h DEF DeleteClose, Goto
  <2> QED
    BY <2>1, RecordTypes DEF Stage, Keyed, Creating, WithFile
<1>14. CASE CreateInstall(t) \/ OpenInstall(t) \/ ChangeInstall(t) \/ DeleteRemove(t) \/ Fail(t)
  <2>1. pc'[t] = "idle"
    BY <1>14, <1>t DEF CreateInstall, OpenInstall, ChangeInstall, DeleteRemove, Fail, Done
  <2> QED
    BY <2>1
<1> QED
  BY <1>1, <1>2, <1>3, <1>4, <1>5, <1>6, <1>7, <1>8, <1>9, <1>10, <1>11, <1>12, <1>13, <1>14 DEF Command

\* Where nobody is disturbed a command is elsewhere.
LEMMA Elsewhere ==
  ASSUME IInv, OneAtATime', NEW t \in Tasks, Command(t), NEW u \in Tasks, u # t,
         pc'[u] # "idle", arg'[u].path \notin disturbed'
  PROVE  /\ pc[u] # "idle" /\ arg[u].path \in Paths \ disturbed
         /\ pc[t] # "idle" => arg[t].path # arg[u].path
         /\ pc'[t] # "idle" => arg'[t].path # arg[u].path
<1>1. disturbed \subseteq disturbed' /\ pc'[u] = pc[u] /\ arg'[u] = arg[u]
  BY CommandSteps DEF IInv
<1>2. arg[u].path \in Paths
  BY <1>1 DEF IInv, HoldsWhatItNeeds
<1> QED
  BY <1>1, <1>2 DEF IInv, OneAtATime

LEMMA StageNext == IInv /\ [Next]_vars => StageInv'
<1> SUFFICES ASSUME IInv, [Next]_vars PROVE StageInv'
  OBVIOUS
<1>o. OneAtATime'
  BY OneAtATimeNext
<1>w. \A u \in Tasks : pc[u] \in WithFile => arg[u].file \in Files
  BY DEF IInv, HoldsWhatItNeeds
<1>1. ASSUME NEW t \in Tasks, Command(t) PROVE StageInv'
  <2>1. ASSUME NEW u \in Tasks, u # t, pc'[u] # "idle", arg'[u].path \notin disturbed' PROVE Stage(u)'
    <3>1. /\ pc[u] # "idle" /\ arg[u].path \in Paths \ disturbed
          /\ pc[t] # "idle" => arg[t].path # arg[u].path
          /\ pc'[t] # "idle" => arg'[t].path # arg[u].path
      BY <1>1, <1>o, <2>1, Elsewhere
    <3>2. pc'[u] = pc[u] /\ arg'[u] = arg[u] /\ copies' = copies
      BY <1>1, <2>1, CommandSteps DEF IInv
    <3>3. PICK q \in Paths : q = arg[u].path
      BY <3>1
    <3>4. /\ dir'[q] = dir[q] /\ \A f \in Files : Uses(f, q) => db'[f] = db[f]
          /\ active'.path = q => active' = active
      BY <1>1, <3>1, <3>3, Apart
    <3>5. Uses(arg[u].file, q)
      BY <3>3 DEF Uses
    <3>6. Stage(u)
      BY <3>1 DEF IInv, StageInv
    <3> QED
      BY <1>w, <3>2, <3>3, <3>4, <3>5, <3>6, StageKept
  <2>2. pc'[t] # "idle" /\ arg'[t].path \notin disturbed' => Stage(t)'
    BY <1>1, StageReached
  <2> QED
    BY <2>1, <2>2 DEF StageInv
<1>2. ASSUME NEW p \in Paths, BackupWallet(p) PROVE StageInv'
  <2>1. PICK f \in Files : /\ Unused(f) /\ dir' = [dir EXCEPT ![p] = f] /\ copies' = copies \cup {f}
                           /\ db' = [db EXCEPT ![f] = main[dir[active.path]]]
                           /\ UNCHANGED <<active, pc, arg, disturbed>> /\ ~Exists(p)
    BY <1>2 DEF BackupWallet, local
  <2>2. ASSUME NEW u \in Tasks, pc'[u] # "idle", arg'[u].path \notin disturbed' PROVE Stage(u)'
    <3>1. Stage(u) /\ pc'[u] = pc[u] /\ arg'[u] = arg[u] /\ arg[u].path \in Paths
      BY <2>1, <2>2 DEF IInv, StageInv, HoldsWhatItNeeds
    <3>2. pc[u] \in WithFile => db'[arg[u].file] = db[arg[u].file]
      BY <1>w, <2>1 DEF IInv, TypeOK, Unused
    <3>3. CASE arg[u].path = p
      <4>1. dir'[p] = f /\ pc[u] \notin WithFile
        BY <1>w, <2>1, <3>1, <3>3 DEF IInv, TypeOK, Stage, Exists
      <4> QED
        BY <2>1, <3>1, <3>2, <3>3, <4>1, StageKept
    <3>4. CASE arg[u].path # p
      <4>1. dir'[arg[u].path] = dir[arg[u].path]
        BY <2>1, <3>1, <3>4 DEF IInv, TypeOK
      <4> QED
        BY <2>1, <3>1, <3>2, <4>1, StageKept
    <3> QED
      BY <3>3, <3>4
  <2> QED
    BY <2>2 DEF StageInv
<1>3. CASE Restart
  BY <1>3 DEF Restart, StageInv
<1>4. CASE CloseWallet \/ (\E f \in Files : Checkpoint(f)) \/ UNCHANGED vars
  <2>1. UNCHANGED <<dir, db, pc, arg, disturbed, copies>> /\ active' \in {active, NoWallet}
    BY <1>4 DEF CloseWallet, Checkpoint, vars, disk, local, history
  <2>2. ASSUME NEW u \in Tasks, pc'[u] # "idle", arg'[u].path \notin disturbed' PROVE Stage(u)'
    <3>1. Stage(u) /\ arg[u].path \in Paths
      BY <2>1, <2>2 DEF IInv, StageInv, HoldsWhatItNeeds
    <3>2. active'.path = arg[u].path => active.path = arg[u].path
      BY <2>1, <3>1, RecordTypes
    <3> QED
      BY <2>1, <3>1, <3>2, StageKept
  <2> QED
    BY <2>2 DEF StageInv
<1> QED
  BY <1>1, <1>2, <1>3, <1>4 DEF Next

-----------------------------------------------------------------------------
(* The session and its file *)

LEMMA SessionNext == IInv /\ [Next]_vars => SessionInv'
<1> SUFFICES ASSUME IInv, [Next]_vars, active' # NoWallet, active'.path \notin disturbed'
             PROVE  /\ dir'[active'.path] = active'.file
                    /\ db'[active'.file].key = active'.key
                    /\ \/ db'[active'.file].password = active'.password
                       \/ \E t \in Tasks : pc'[t] = "change_install" /\ arg'[t].path = active'.path
  BY DEF SessionInv
<1> DEFINE q == active'.path
           Goal == /\ dir'[q] = active'.file
                   /\ db'[active'.file].key = active'.key
                   /\ \/ db'[active'.file].password = active'.password
                      \/ \E t \in Tasks : pc'[t] = "change_install" /\ arg'[t].path = q
<1>t. /\ pc \in [Tasks -> PCs] /\ arg \in [Tasks -> Held] /\ dir \in [Paths -> Files \cup {None}]
      /\ active \in {NoWallet} \cup [path : Paths, file : Files, key : Files, password : Passwords]
      /\ db \in [Files -> Rows]
  BY DEF IInv, TypeOK
<1>q. q \in Paths /\ active'.file \in Files
  <2>1. TypeOK'
    BY TypesNext
  <2> QED
    BY <2>1 DEF TypeOK
<1>i. ASSUME active' = active, disturbed \subseteq disturbed'
      PROVE  /\ dir[q] = active.file /\ db[active.file].key = active.key
             /\ \/ db[active.file].password = active.password
                \/ \E t \in Tasks : pc[t] = "change_install" /\ arg[t].path = q
  BY <1>i DEF IInv, SessionInv
\* The session, its path and its file's key and password stay as they are.
<1>1. ASSUME active' = active, disturbed \subseteq disturbed', dir'[q] = dir[q],
             db'[active.file].key = db[active.file].key, db'[active.file].password = db[active.file].password,
             \A u \in Tasks : pc[u] = "change_install" /\ arg[u].path = q =>
                                pc'[u] = "change_install" /\ arg'[u].path = q
      PROVE  Goal
  BY <1>1, <1>i
<1>2. ASSUME NEW t \in Tasks, Command(t) PROVE Goal
  <2>b. /\ disturbed \subseteq disturbed' /\ q \notin disturbed
        /\ \A u \in Tasks : u # t => pc'[u] = pc[u] /\ arg'[u] = arg[u]
    BY <1>2, CommandSteps DEF IInv
  <2>1. CASE (pc[t] # "idle" => arg[t].path # q) /\ (pc'[t] # "idle" => arg'[t].path # q)
    <3>1. PICK p \in Paths : p = q
      BY <1>q
    <3>2. dir'[p] = dir[p] /\ (\A f \in Files : Uses(f, p) => db'[f] = db[f]) /\ (active'.path = p => active' = active)
      <4>1. (pc[t] # "idle" => arg[t].path # p) /\ (pc'[t] # "idle" => arg'[t].path # p)
        BY <2>1, <3>1
      <4> QED
        BY <1>2, <4>1, Apart
    <3>3. active' = active /\ dir'[q] = dir[q]
      BY <3>1, <3>2
    <3>4. db'[active.file] = db[active.file]
      BY <1>q, <3>1, <3>2, <3>3 DEF Uses
    <3>5. \A u \in Tasks : pc[u] = "change_install" /\ arg[u].path = q => u # t
      BY <2>1
    <3> QED
      BY <1>1, <2>b, <3>3, <3>4, <3>5
  <2>2. ASSUME UNCHANGED <<dir, active>>, pc[t] # "change_install",
               \A f \in Files : db'[f].key = db[f].key /\ db'[f].password = db[f].password
        PROVE  Goal
    <3>1. \A u \in Tasks : pc[u] = "change_install" /\ arg[u].path = q => u # t
      BY <2>2
    <3>2. active.file \in Files
      BY <1>q, <2>2
    <3> QED
      BY <1>1, <2>b, <2>2, <3>1, <3>2
  <2>3. ASSUME NEW p \in Paths, \/ \E pwd \in Passwords : CreateStart(t, p, pwd)
                                \/ OpenStart(t, p) \/ DeleteCheck(t, p)
        PROVE  Goal
    <3>1. UNCHANGED <<dir, db, active>> /\ pc[t] = "idle"
      BY <2>3 DEF CreateStart, OpenStart, DeleteCheck, Begin, disk
    <3> QED
      BY <2>2, <3>1
  <2>4. ASSUME \/ \E pwd, new \in Passwords : ChangeStart(t, pwd, new)
               \/ OpenDb(t) \/ OpenKey(t) \/ (Fail(t) /\ pc[t] # "change_install")
        PROVE  Goal
    <3>1. UNCHANGED <<dir, db, active>> /\ pc[t] # "change_install"
      BY <2>4 DEF ChangeStart, OpenDb, OpenKey, Fail, Begin, disk
    <3> QED
      BY <2>2, <3>1
  <2>5. CASE Fail(t) /\ pc[t] = "change_install"
    <3>1. UNCHANGED <<dir, db, active>> /\ arg[t].path \in disturbed'
      BY <2>5 DEF Fail, HalfDone, disk
    <3>2. \A u \in Tasks : pc[u] = "change_install" /\ arg[u].path = q => u # t
      BY <3>1
    <3> QED
      BY <1>1, <2>b, <3>1, <3>2
  <2>6. CASE DeleteClose(t)
    BY <2>6 DEF DeleteClose
  \* At the session's own path a wallet is not being made or removed.
  <2>7. ASSUME \/ CreateConnect(t) \/ CreateSchema(t) \/ CreateOpen(t) \/ CreateKey(t) \/ CreateAccount(t)
               \/ DeleteRemove(t)
        PROVE  arg[t].path # q /\ pc[t] # "idle" /\ active' = active
    <3>1. pc[t] \in Creating \cup {"delete_remove"} /\ active' = active
      BY <2>7 DEF CreateConnect, CreateSchema, CreateOpen, CreateKey, CreateAccount, DeleteRemove, Creating
    <3>2. arg[t].path = q => active.path # q
      BY <2>b, <3>1 DEF IInv, StageInv, Stage, Creating
    <3> QED
      BY <3>1, <3>2 DEF Creating
  <2>8. ASSUME \/ CreateConnect(t) \/ CreateSchema(t) \/ CreateOpen(t) \/ CreateKey(t) \/ CreateAccount(t)
               \/ DeleteRemove(t)
        PROVE  Goal
    <3>1. pc'[t] # "idle" => arg'[t].path = arg[t].path
      BY <1>2, <2>7, <2>8, CommandSteps DEF IInv
    <3> QED
      BY <2>1, <2>7, <2>8, <3>1
  <2>9. CASE CreateInstall(t) \/ OpenInstall(t)
    <3>1. active' = arg[t] /\ pc[t] \in {"create_install", "open_install"} /\ UNCHANGED <<dir, db>>
      BY <2>9 DEF CreateInstall, OpenInstall, disk
    <3>2. /\ dir[arg[t].path] = arg[t].file /\ db[arg[t].file].key = arg[t].key
          /\ db[arg[t].file].password = arg[t].password
      BY <2>b, <3>1 DEF IInv, StageInv, Stage, WithFile, Keyed
    <3> QED
      BY <3>1, <3>2
  <2>10. CASE OpenMigrate(t)
    <3>1. /\ UNCHANGED <<dir, active>> /\ pc[t] = "open_migrate" /\ arg[t].file \in Files
          /\ db' = [db EXCEPT ![arg[t].file] = [db[arg[t].file] EXCEPT !.schema = "current"]]
      BY <2>10 DEF OpenMigrate, Write, IInv, HoldsWhatItNeeds, WithFile
    <3>2. \A f \in Files : db'[f].key = db[f].key /\ db'[f].password = db[f].password
      BY <1>t, <3>1, Rewritten
    <3> QED
      BY <2>2, <3>1, <3>2
  <2>11. CASE ChangeWrite(t)
    <3>1. /\ UNCHANGED <<dir, active, arg>> /\ pc[t] = "change_write" /\ pc'[t] = "change_install"
          /\ arg[t].file \in Files /\ arg[t].key \in Files /\ arg[t].password \in Passwords
      BY <2>11, <1>t DEF ChangeWrite, Goto, IInv, HoldsWhatItNeeds, WithFile, Keyed
    <3>2. CASE arg[t].path # q
      BY <2>1, <3>1, <3>2
    <3>3. CASE arg[t].path = q
      <4>1. dir[q] = arg[t].file /\ db[arg[t].file].key = arg[t].key
        BY <2>b, <3>1, <3>3 DEF IInv, StageInv, Stage, WithFile, Keyed
      <4>2. active.file = arg[t].file /\ active.key = arg[t].key
        BY <1>i, <2>b, <3>1, <4>1
      <4>3. db'[arg[t].file].key = arg[t].key
        <5>1. Rekeys(arg[t].file, arg[t].key, arg[t].password)
          BY <2>11, KeyWrites
        <5> QED
          BY <1>t, <3>1, <5>1, Rekeyed
      <4> QED
        BY <3>1, <3>3, <4>1, <4>2, <4>3
    <3> QED
      BY <3>2, <3>3
  <2>12. CASE ChangeInstall(t)
    <3>1. /\ UNCHANGED <<dir, db>> /\ pc[t] = "change_install" /\ pc'[t] = "idle"
          /\ arg[t].path \in Paths /\ arg[t].key \in Files /\ arg[t].password \in Passwords
      BY <2>12, <1>t DEF ChangeInstall, Done, disk, IInv, HoldsWhatItNeeds, Keyed
    <3>2. CASE arg[t].path # q
      BY <2>1, <3>1, <3>2
    <3>3. CASE arg[t].path = q
      <4>1. active.path = q /\ active # NoWallet
        <5>1. SUFFICES ASSUME active.path # arg[t].path PROVE FALSE
          BY <1>q, <3>1, <3>3, RecordTypes
        <5> QED
          BY <2>12, <3>3, <5>1 DEF ChangeInstall
      <4>2. PICK x \in [path : Paths, file : Files, key : Files, password : Passwords] : x = active
        BY <1>t, <4>1
      <4> DEFINE y == [x EXCEPT !.key = arg[t].key]
      <4>3. y.file = x.file /\ y.path = x.path /\ y.key = arg[t].key
            /\ y \in [path : Paths, file : Files, key : Files, password : Passwords]
        BY <3>1
      <4>4. active' = [y EXCEPT !.password = arg[t].password]
        BY <2>12, <3>3, <4>1, <4>2 DEF ChangeInstall
      <4> HIDE DEF y
      <4>5. active'.file = active.file /\ active'.key = arg[t].key /\ active'.password = arg[t].password
        BY <4>2, <4>3, <4>4
      <4>6. dir[q] = active.file
        BY <2>b, <4>1 DEF IInv, SessionInv
      <4>7. /\ dir[q] = arg[t].file /\ db[arg[t].file].key = arg[t].key
            /\ db[arg[t].file].password = arg[t].password
        BY <2>b, <3>1, <3>3 DEF IInv, StageInv, Stage, WithFile, Keyed
      <4> QED
        BY <3>1, <4>5, <4>6, <4>7
    <3> QED
      BY <3>2, <3>3
  <2> HIDE DEF Goal
  <2>13. CASE Fail(t)
    BY <2>4, <2>5, <2>13
  <2>14. ASSUME NEW pwd \in Passwords, NEW new \in Passwords, ChangeStart(t, pwd, new) PROVE Goal
    BY <2>4, <2>14
  <2>15. CASE OpenDb(t)
    BY <2>4, <2>15
  <2>16. CASE OpenKey(t)
    BY <2>4, <2>16
  <2> QED
    BY <1>2, <2>3, <2>6, <2>8, <2>9, <2>10, <2>11, <2>12, <2>13, <2>14, <2>15, <2>16 DEF Command
<1>3. ASSUME NEW p \in Paths, BackupWallet(p) PROVE Goal
  <2>1. PICK f \in Files : /\ Unused(f) /\ dir' = [dir EXCEPT ![p] = f]
                           /\ db' = [db EXCEPT ![f] = main[dir[active.path]]]
                           /\ UNCHANGED <<active, pc, arg, disturbed>> /\ ~Exists(p)
    BY <1>3 DEF BackupWallet, local
  <2>2. dir[q] = active.file /\ active.file \in Files
    BY <1>i, <1>q, <2>1
  <2>3. q # p
    BY <2>1, <2>2 DEF Exists
  <2>4. active.file # f
    BY <1>q, <2>1, UnusedApart DEF IInv, Uses
  <2> QED
    BY <1>1, <1>q, <1>t, <2>1, <2>2, <2>3, <2>4
<1>4. CASE CloseWallet \/ Restart
  BY <1>4 DEF CloseWallet, Restart
<1>5. CASE (\E f \in Files : Checkpoint(f)) \/ UNCHANGED vars
  <2>1. UNCHANGED <<dir, db, active, pc, arg, disturbed>>
    BY <1>5 DEF Checkpoint, vars, disk, local, history
  <2> QED
    BY <1>1, <2>1
<1> QED
  BY <1>2, <1>3, <1>4, <1>5 DEF Next

-----------------------------------------------------------------------------
(* Complete files *)

\* The commands that keep an incomplete file from being opened.
Making(t, p) == pc[t] \in Creating \ {"create_connect"} /\ arg[t].path = p

LEMMA CompleteNext == IInv /\ [Next]_vars => CompleteInv'
<1> SUFFICES ASSUME IInv, [Next]_vars, NEW p \in Paths, p \notin disturbed', Exists(p)', dir'[p] \notin copies'
             PROVE  Complete(dir[p])' \/ \E t \in Tasks : Making(t, p)'
  BY DEF CompleteInv, Making
<1> DEFINE Goal == Complete(dir[p])' \/ \E t \in Tasks : Making(t, p)'
<1>t. /\ pc \in [Tasks -> PCs] /\ arg \in [Tasks -> Held] /\ dir \in [Paths -> Files \cup {None}]
      /\ db \in [Files -> Rows]
  BY DEF IInv, TypeOK
<1>i. ASSUME p \notin disturbed, Exists(p), dir[p] \notin copies
      PROVE  Complete(dir[p]) \/ \E t \in Tasks : Making(t, p)
  BY <1>i DEF IInv, CompleteInv, Making
\* The path names the same file, which is as complete as it was, and whoever makes it goes on.
<1>1. ASSUME disturbed \subseteq disturbed', copies \subseteq copies', dir'[p] = dir[p],
             dir[p] \in Files /\ Complete(dir[p]) => Complete(dir[p])', \A t \in Tasks : Making(t, p) => Making(t, p)'
      PROVE  Goal
  <2>1. dir[p] \in Files /\ (Complete(dir[p]) \/ \E t \in Tasks : Making(t, p))
    BY <1>1, <1>i, <1>t DEF Exists
  <2> QED
    BY <1>1, <2>1
<1>2. ASSUME NEW t \in Tasks, Command(t) PROVE Goal
  <2>b. /\ disturbed \subseteq disturbed' /\ copies' = copies
        /\ \A u \in Tasks : u # t => pc'[u] = pc[u] /\ arg'[u] = arg[u]
        /\ pc[t] # "idle" /\ pc'[t] # "idle" => arg'[t].path = arg[t].path
    BY <1>2, CommandSteps DEF IInv
  <2>1. CASE (pc[t] # "idle" => arg[t].path # p) /\ (pc'[t] # "idle" => arg'[t].path # p)
    <3>1. dir'[p] = dir[p] /\ \A f \in Files : Uses(f, p) => db'[f] = db[f]
      BY <1>2, <2>1, Apart
    <3>2. dir[p] \in Files /\ Complete(dir[p]) => Complete(dir[p])'
      BY <3>1 DEF Uses, Complete
    <3>3. \A u \in Tasks : Making(u, p) => Making(u, p)'
      BY <2>1, <2>b DEF Making, Creating
    <3> QED
      BY <1>1, <2>b, <3>1, <3>2, <3>3
  <2>2. ASSUME dir' = dir, \A f \in Files : Complete(f) => Complete(f)', Making(t, p) => Making(t, p)'
        PROVE  Goal
    <3>1. \A u \in Tasks : Making(u, p) => Making(u, p)'
      BY <2>2, <2>b DEF Making
    <3>2. dir[p] \in Files => (Complete(dir[p]) => Complete(dir[p])')
      BY <2>2 DEF Complete
    <3> QED
      BY <1>1, <2>2, <2>b, <3>1, <3>2
  <2>3. ASSUME UNCHANGED <<dir, db>>, pc[t] \notin Creating \ {"create_connect"} PROVE Goal
    BY <2>2, <2>3 DEF Making, Complete
  <2>4. ASSUME NEW q \in Paths, \/ \E pwd \in Passwords : CreateStart(t, q, pwd)
                                \/ OpenStart(t, q) \/ DeleteCheck(t, q)
        PROVE  Goal
    <3>1. UNCHANGED <<dir, db>> /\ pc[t] = "idle"
      BY <2>4 DEF CreateStart, OpenStart, DeleteCheck, Begin, disk
    <3> QED
      BY <2>3, <3>1 DEF Creating
  <2>5. ASSUME NEW pwd \in Passwords, NEW new \in Passwords, ChangeStart(t, pwd, new) PROVE Goal
    <3>1. UNCHANGED <<dir, db>> /\ pc[t] = "idle"
      BY <2>5 DEF ChangeStart, Begin, disk
    <3> QED
      BY <2>3, <3>1 DEF Creating
  <2>6. CASE OpenDb(t) \/ OpenKey(t) \/ OpenInstall(t) \/ ChangeInstall(t) \/ DeleteClose(t)
    <3>1. UNCHANGED <<dir, db>> /\ pc[t] \in {"open_db", "open_key", "open_install", "change_install", "delete_close"}
      BY <2>6 DEF OpenDb, OpenKey, OpenInstall, ChangeInstall, DeleteClose, disk
    <3> QED
      BY <2>3, <3>1 DEF Creating
  \* A new version of the schema, an account: the file is no less complete.
  <2>7. CASE CreateSchema(t) \/ CreateOpen(t) \/ CreateAccount(t) \/ OpenMigrate(t)
    <3>1. dir' = dir /\ (Making(t, p) => Making(t, p)')
      <4>1. /\ dir' = dir /\ pc[t] # "idle"
            /\ \/ pc[t] = "open_migrate"
               \/ \E l \in {"create_open", "create_key", "create_install"} : pc' = [pc EXCEPT ![t] = l]
        BY <2>7 DEF CreateSchema, CreateOpen, CreateAccount, OpenMigrate, Goto
      <4> QED
        BY <1>t, <2>b, <4>1 DEF Making, Creating
    <3>2. PICK f \in Files : \/ db' = [db EXCEPT ![f] = [db[f] EXCEPT !.schema = "current"]]
                             \/ db' = [db EXCEPT ![f] = [db[f] EXCEPT !.account = TRUE]]
      <4>1. CASE CreateOpen(t)
        <5>1. arg[t].path \in Paths /\ dir[arg[t].path] \in Files
          BY <1>t, <4>1 DEF CreateOpen, Exists, IInv, HoldsWhatItNeeds
        <5> QED
          BY <4>1, <5>1 DEF CreateOpen, Write
      <4>2. CASE CreateSchema(t) \/ CreateAccount(t) \/ OpenMigrate(t)
        <5>1. arg[t].file \in Files
          BY <4>2 DEF CreateSchema, CreateAccount, OpenMigrate, IInv, HoldsWhatItNeeds, WithFile, Keyed
        <5> QED
          BY <4>2, <5>1 DEF CreateSchema, CreateAccount, OpenMigrate, Write
      <4> QED
        BY <2>7, <4>1, <4>2
    <3>3. \A g \in Files : /\ db'[g].key = db[g].key
                           /\ db'[g].schema \in {db[g].schema, "current"}
                           /\ db'[g].account \in {db[g].account, TRUE}
      BY <1>t, <3>2, Rewritten
    <3>4. \A g \in Files : Complete(g) => Complete(g)'
      BY <3>3 DEF Complete
    <3> QED
      BY <2>2, <3>1, <3>4
  <2>8. CASE CreateKey(t) \/ ChangeWrite(t)
    <3>1. /\ dir' = dir /\ arg[t].file \in Files /\ arg[t].key \in Files /\ arg[t].password \in Passwords
          /\ Making(t, p) => Making(t, p)'
      BY <1>t, <2>8, <2>b DEF CreateKey, ChangeWrite, Goto, IInv, HoldsWhatItNeeds, WithFile, Keyed, Creating, Making
    <3>2. CASE db' = db
      BY <2>2, <3>1, <3>2 DEF Complete
    <3>3. CASE Rekeys(arg[t].file, arg[t].key, arg[t].password)
      <4> HIDE DEF Goal
      <4>1. PICK f \in Files : f = arg[t].file /\ db'[f].key \in Files /\ db'[f].password \in Passwords
              /\ db'[f].schema = db[f].schema /\ db'[f].account = db[f].account
              /\ \A e \in Files : e # f => db'[e] = db[e]
        BY <1>t, <3>1, <3>3, Rekeyed
      <4>2. \A e \in Files : Complete(e) => Complete(e)'
        BY <4>1 DEF Complete
      <4> QED
        BY <2>2, <3>1, <4>2
    <3>4. db' = db \/ (ChangeWrite(t) \/ (CreateKey(t) /\ db[arg[t].file].key = None))
      BY <2>8 DEF CreateKey
    <3> QED
      BY <3>2, <3>3, <3>4, KeyWrites
  <2>9. CASE CreateConnect(t)
    <3>1. pc[t] # "idle" /\ pc'[t] = "create_schema"
      BY <1>t, <2>9 DEF CreateConnect, Goto
    <3>2. arg'[t].path = p => Making(t, p)'
      BY <3>1 DEF Making, Creating
    <3> QED
      BY <2>1, <2>b, <3>1, <3>2
  <2>10. CASE CreateInstall(t)
    <3>1. pc[t] = "create_install" /\ pc'[t] = "idle" /\ UNCHANGED <<dir, db>> /\ arg[t].file \in Files /\ arg[t].key \in Files
      BY <1>t, <2>10 DEF CreateInstall, Done, disk, IInv, HoldsWhatItNeeds, WithFile, Keyed
    <3>2. CASE arg[t].path = p
      <4>1. dir[p] = arg[t].file /\ db[arg[t].file].key = arg[t].key /\ db[arg[t].file].account
        BY <2>b, <3>1, <3>2 DEF IInv, StageInv, Stage, WithFile, Keyed
      <4>2. db[arg[t].file].schema # "none"
        BY <3>1, <4>1, RecordTypes DEF IInv, RowsInv
      <4> QED
        BY <3>1, <4>1, <4>2 DEF Complete
    <3> QED
      BY <2>1, <3>1, <3>2
  <2>11. CASE DeleteRemove(t)
    <3>1. pc[t] # "idle" /\ pc'[t] = "idle" /\ dir' = [dir EXCEPT ![arg[t].path] = None]
      BY <1>t, <2>11 DEF DeleteRemove, Done
    <3>2. arg[t].path # p
      BY <1>t, <3>1 DEF Exists
    <3> QED
      BY <2>1, <3>1, <3>2
  <2>12. CASE Fail(t)
    <3>1. /\ UNCHANGED <<dir, db>>
          /\ pc[t] \in Creating \ {"create_connect"} => arg[t].path \in disturbed'
      BY <2>12 DEF Fail, HalfDone, disk
    <3>2. ~Making(t, p)
      BY <3>1 DEF Making
    <3> QED
      BY <2>2, <3>1, <3>2 DEF Complete
  <2> HIDE DEF Goal
  <2> QED
    BY <1>2, <2>4, <2>5, <2>6, <2>7, <2>8, <2>9, <2>10, <2>11, <2>12 DEF Command
<1>3. ASSUME NEW q \in Paths, BackupWallet(q) PROVE Goal
  <2>1. PICK f \in Files : /\ Unused(f) /\ dir' = [dir EXCEPT ![q] = f] /\ copies' = copies \cup {f}
                           /\ db' = [db EXCEPT ![f] = main[dir[active.path]]]
                           /\ UNCHANGED <<active, pc, arg, disturbed>>
    BY <1>3 DEF BackupWallet, local
  <2>2. p # q /\ dir'[p] = dir[p]
    BY <1>t, <2>1
  <2>3. dir[p] \in Files => db'[dir[p]] = db[dir[p]]
    BY <1>t, <2>1 DEF Unused, Range
  <2> QED
    BY <1>1, <2>1, <2>2, <2>3 DEF Complete, Making
<1>4. CASE Restart
  <2>1. /\ UNCHANGED <<dir, db, copies>> /\ disturbed \subseteq disturbed'
        /\ \A t \in Tasks : pc[t] \in Creating \ {"create_connect"} => arg[t].path \in disturbed'
    BY <1>4 DEF Restart, disk
  <2>2. \A t \in Tasks : ~Making(t, p)
    BY <2>1 DEF Making
  <2> QED
    BY <1>1, <2>1, <2>2 DEF Complete
<1>5. CASE CloseWallet \/ (\E f \in Files : Checkpoint(f)) \/ UNCHANGED vars
  <2>1. UNCHANGED <<dir, db, pc, arg, disturbed, copies>>
    BY <1>5 DEF CloseWallet, Checkpoint, vars, disk, local, history
  <2> QED
    BY <1>1, <2>1 DEF Complete, Making
<1>6. \/ \E t \in Tasks : Command(t)
      \/ \E q \in Paths : BackupWallet(q)
      \/ CloseWallet \/ Restart \/ (\E f \in Files : Checkpoint(f)) \/ UNCHANGED vars
  BY DEF Next
<1> QED
  BY <1>2, <1>3, <1>4, <1>5, <1>6

-----------------------------------------------------------------------------
(* The theorems *)

LEMMA InvNext == IInv /\ [Next]_vars => IInv'
  BY TypesNext, OneAtATimeNext, OnePathNext, PasswordsNext, StageNext, SessionNext, CompleteNext DEF IInv

\* What the commands hold and have written, what the session is and what is on
\* disk agree at every path that nothing has disturbed.
THEOREM Invariant == Spec => []IInv
  BY InitInv, InvNext, PTL DEF Spec

\* No owner is locked out: every file with a key is under a password its owner
\* has been told, and a wallet nothing has disturbed is complete.
THEOREM FilesStayOpen == Spec => []FilesOpen
<1>1. IInv => FilesOpen
  <2> SUFFICES ASSUME IInv PROVE FilesOpen
    OBVIOUS
  <2>1. ListedWalletsOpen
    <3> SUFFICES ASSUME NEW p \in Paths \ disturbed, Exists(p), ~Busy(p), dir[p] \notin copies
                 PROVE  Complete(dir[p])
      BY DEF ListedWalletsOpen, Complete
    <3>1. ~\E t \in Tasks : pc[t] \in Creating \ {"create_connect"} /\ arg[t].path = p
      BY DEF Busy, Creating
    <3> QED
      BY <3>1 DEF IInv, CompleteInv
  <2> QED
    BY <2>1 DEF IInv, FilesOpen
<1> QED
  BY <1>1, Invariant, PTL

\* The open wallet is the file its path names, with that file's key and password,
\* unless commands on it overlap, overlapped, or one failed half-way.
THEOREM SessionIsTheFiles == Spec => []SessionMatchesFile
<1>1. IInv => SessionMatchesFile
  <2> SUFFICES ASSUME IInv, active # NoWallet, active.path \notin disturbed, ~Busy(active.path)
               PROVE  /\ dir[active.path] = active.file /\ db[active.file].key = active.key
                      /\ db[active.file].password = active.password
    BY DEF SessionMatchesFile
  <2>1. ~\E t \in Tasks : pc[t] = "change_install" /\ arg[t].path = active.path
    BY DEF Busy
  <2> QED
    BY <2>1 DEF IInv, SessionInv
<1> QED
  BY <1>1, Invariant, PTL

\* A file's master key is never replaced or lost, whatever commands fail or
\* interleave on other files and wherever a crash cuts them off.
THEOREM KeysAreKept == Spec => KeysSurvive
<1> DEFINE Kept(p) == Exists(p) /\ dir'[p] = dir[p] /\ db[dir[p]].key # None => db'[dir[p]].key = db[dir[p]].key
<1>1. ASSUME IInv, [Next]_vars, NEW p \in Paths \ disturbed PROVE Kept(p)
  <2> SUFFICES ASSUME Exists(p), dir'[p] = dir[p], db[dir[p]].key # None PROVE db'[dir[p]].key = db[dir[p]].key
    OBVIOUS
  <2>t. /\ dir \in [Paths -> Files \cup {None}] /\ db \in [Files -> Rows] /\ dir[p] \in Files
    BY <1>1 DEF IInv, TypeOK, Exists
  <2>h. \A t \in Tasks :
          /\ pc[t] # "idle" => arg[t].path \in Paths
          /\ pc[t] \in Keyed \cup {"create_schema", "create_key", "open_migrate"} => arg[t].file \in Files
          /\ pc[t] \in Keyed => arg[t].key \in Files /\ arg[t].password \in Passwords
    BY <1>1 DEF IInv, HoldsWhatItNeeds, WithFile
  <2>1. ASSUME NEW f \in Files, \/ db' = [db EXCEPT ![f] = [db[f] EXCEPT !.schema = "current"]]
                                \/ db' = [db EXCEPT ![f] = [db[f] EXCEPT !.account = TRUE]]
        PROVE  db'[dir[p]].key = db[dir[p]].key
    BY <2>1, <2>t, Rewritten
  <2>2. ASSUME NEW t \in Tasks, CreateSchema(t) \/ CreateAccount(t) \/ OpenMigrate(t) PROVE db'[dir[p]].key = db[dir[p]].key
    <3>1. arg[t].file \in Files
      BY <2>2, <2>h DEF CreateSchema, CreateAccount, OpenMigrate, Keyed
    <3> QED
      BY <2>1, <2>2, <3>1 DEF CreateSchema, CreateAccount, OpenMigrate, Write
  <2>3. ASSUME NEW t \in Tasks, CreateOpen(t) PROVE db'[dir[p]].key = db[dir[p]].key
    <3>1. dir[arg[t].path] \in Files
      BY <2>3, <2>h, <2>t DEF CreateOpen, Exists
    <3> QED
      BY <2>1, <2>3, <3>1 DEF CreateOpen, Write
  <2>4. ASSUME NEW t \in Tasks, CreateKey(t) PROVE db'[dir[p]].key = db[dir[p]].key
    <3>1. arg[t].file \in Files
      BY <2>4, <2>h DEF CreateKey
    <3> QED
      BY <2>4, <2>t, <3>1 DEF CreateKey, Write
  \* The key that is written was read from this file, if the file is at this path.
  <2>5. ASSUME NEW t \in Tasks, ChangeWrite(t) PROVE db'[dir[p]].key = db[dir[p]].key
    <3>1. pc[t] = "change_write" /\ arg[t].file \in Files /\ arg[t].key \in Files /\ arg[t].password \in Passwords /\ arg[t].path \in Paths
      BY <2>5, <2>h DEF ChangeWrite, Keyed
    <3>2. Rekeys(arg[t].file, arg[t].key, arg[t].password)
      BY <2>5, KeyWrites
    <3>3. /\ db'[arg[t].file].key = arg[t].key
          /\ \A e \in Files : e # arg[t].file => db'[e] = db[e]
      BY <2>t, <3>1, <3>2, Rekeyed
    <3>4. CASE arg[t].file # dir[p]
      BY <2>t, <3>3, <3>4
    <3>5. CASE arg[t].file = dir[p]
      <4>1. Uses(arg[t].file, p) /\ Uses(arg[t].file, arg[t].path)
        BY <3>5 DEF Uses
      <4>2. arg[t].path = p
        BY <1>1, <3>1, <4>1 DEF IInv, OnePath
      <4>3. db[arg[t].file].key = arg[t].key
        BY <1>1, <3>1, <4>2 DEF IInv, StageInv, Stage, Keyed
      <4> QED
        BY <3>3, <3>5, <4>3
    <3> QED
      BY <3>4, <3>5
  <2>6. ASSUME NEW q \in Paths, BackupWallet(q) PROVE db'[dir[p]].key = db[dir[p]].key
    <3>1. PICK f \in Files : Unused(f) /\ db' = [db EXCEPT ![f] = main[dir[active.path]]]
      BY <2>6 DEF BackupWallet
    <3>2. dir[p] # f
      BY <2>t, <3>1 DEF Unused, Range
    <3> QED
      BY <2>t, <3>1, <3>2
  <2>7. ASSUME NEW t \in Tasks, Command(t) PROVE db'[dir[p]].key = db[dir[p]].key
    <3>1. ASSUME db' = db PROVE db'[dir[p]].key = db[dir[p]].key
      BY <3>1
    <3>2. ASSUME NEW q \in Paths, \/ \E pwd \in Passwords : CreateStart(t, q, pwd)
                                  \/ OpenStart(t, q) \/ DeleteCheck(t, q)
          PROVE  db' = db
      BY <3>2 DEF CreateStart, OpenStart, DeleteCheck, disk
    <3>3. ASSUME NEW pwd \in Passwords, NEW new \in Passwords, ChangeStart(t, pwd, new) PROVE db' = db
      BY <3>3 DEF ChangeStart, disk
    <3>4. ASSUME \/ CreateConnect(t) \/ CreateInstall(t) \/ OpenDb(t) \/ OpenKey(t) \/ OpenInstall(t)
                 \/ ChangeInstall(t) \/ DeleteClose(t) \/ DeleteRemove(t) \/ Fail(t)
          PROVE  db' = db
      BY <3>4 DEF CreateConnect, CreateInstall, OpenDb, OpenKey, OpenInstall, ChangeInstall, DeleteClose,
         DeleteRemove, Fail, disk
    <3> QED
      BY <2>2, <2>3, <2>4, <2>5, <2>7, <3>1, <3>2, <3>3, <3>4 DEF Command
  <2>8. CASE CloseWallet \/ Restart \/ (\E f \in Files : Checkpoint(f)) \/ UNCHANGED vars
    BY <2>8 DEF CloseWallet, Restart, Checkpoint, vars, disk
  <2> QED
    BY <1>1, <2>6, <2>7, <2>8 DEF Next
<1>2. IInv /\ [Next]_vars => \A p \in Paths \ disturbed : Kept(p)
  BY <1>1
<1> QED
  BY <1>2, Invariant, PTL DEF Spec, KeysSurvive
=============================================================================
