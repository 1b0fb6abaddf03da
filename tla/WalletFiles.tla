---------------------------- MODULE WalletFiles ----------------------------
(***************************************************************************)
(* services/wallet_service.rs, commands/wallet.rs and db/connection.rs:    *)
(* wallet files are made, opened, migrated, re-encrypted, copied and       *)
(* deleted, while one of them is open in AppState.active_wallet.           *)
(*                                                                         *)
(* A path names a file; the file lives on for whoever has it open when the *)
(* path is removed.  SQLite runs in WAL mode: db[f] is what a connection   *)
(* reads, main[f] what the .sqlite file itself holds, which catches up at  *)
(* a checkpoint.  A master key is named by the file it was made in; being  *)
(* encrypted is carrying the password that decrypts it.                    *)
(***************************************************************************)
EXTENDS FiniteSetsExt, Functions

CONSTANTS
  Paths,      \* names of wallet files in data_dir
  Passwords,
  Files,      \* files ever made, a new one for every creation and copy
  Legacy,     \* paths of wallets an older version has left
  Tasks,      \* command invocations in flight at the same time
  None

ASSUME NoneAssumption == None \notin Paths \cup Passwords \cup Files
ASSUME LegacyAssumption == Legacy \subseteq Paths

VARIABLES
  dir,        \* the file each path names, None: no file
  db, main,   \* the rows of each file: as connections see it, as it is copied
  active,     \* AppState.active_wallet
  pc, arg,    \* where each invocation is, and what it holds
  known,      \* history: per file, the passwords its owner knows may open it
  disturbed,  \* history: paths where two commands overlapped or one failed
  copies      \* history: the files backup_wallet made

disk == <<dir, db, main>>
local == <<pc, arg>>
history == <<known, disturbed, copies>>
vars == <<disk, active, local, history>>

Blank == [schema |-> "none", key |-> None, password |-> None, account |-> FALSE]
NoWallet == [path |-> None, file |-> None, key |-> None, password |-> None]
Nothing == [path |-> None, file |-> None, key |-> None, password |-> None]

\* A file left by an older version has its key under some password.
Init ==
  \E place \in [Legacy -> Files], pwd \in Passwords :
    /\ \A p, q \in Legacy : place[p] = place[q] => p = q
    /\ dir = [p \in Paths |-> IF p \in Legacy THEN place[p] ELSE None]
    /\ db = [f \in Files |-> IF \E p \in Legacy : place[p] = f
                             THEN [schema |-> "old", key |-> f, password |-> pwd, account |-> TRUE]
                             ELSE Blank]
    /\ main = db
    /\ known = [f \in Files |-> IF db[f].key = None THEN {} ELSE {pwd}]
    /\ active = NoWallet
    /\ pc = [t \in Tasks |-> "idle"] /\ arg = [t \in Tasks |-> Nothing]
    /\ disturbed = {} /\ copies = {}

\* The commands that have made, or half made, a wallet file.
Creating == {"create_connect", "create_schema", "create_open", "create_key",
             "create_account", "create_install"}

Exists(p) == dir[p] # None
Busy(p) == \E t \in Tasks : pc[t] # "idle" /\ arg[t].path = p
\* A file nobody has used yet.
Unused(f) ==
  /\ db[f] = Blank /\ f \notin Range(dir)
  /\ \A t \in Tasks : f \notin {arg[t].file, arg[t].key}
  /\ f # active.key /\ \A g \in Files : f # db[g].key

Begin(t, next, what) ==
  /\ pc[t] = "idle"
  /\ pc' = [pc EXCEPT ![t] = next]
  /\ arg' = [arg EXCEPT ![t] = what]
  /\ disturbed' = IF Busy(what.path) THEN disturbed \cup {what.path} ELSE disturbed
Goto(t, next) == pc' = [pc EXCEPT ![t] = next]
Done(t) ==
  /\ pc' = [pc EXCEPT ![t] = "idle"]
  /\ arg' = [arg EXCEPT ![t] = Nothing]
Write(f, rows) == db' = [db EXCEPT ![f] = rows] /\ UNCHANGED main

-----------------------------------------------------------------------------
(* create_wallet *)

\* Both checks for an existing file come before the first await.
CreateStart(t, p, pwd) ==
  /\ ~Exists(p)
  /\ Begin(t, "create_connect", [Nothing EXCEPT !.path = p, !.password = pwd])
  /\ UNCHANGED <<disk, active, known, copies>>

\* create_if_missing: a file that has appeared since is used as it is.
CreateConnect(t) ==
  /\ pc[t] = "create_connect"
  /\ IF Exists(arg[t].path)
     THEN LET f == dir[arg[t].path] IN
            arg' = [arg EXCEPT ![t].file = f, ![t].key = f] /\ UNCHANGED dir
     ELSE \E f \in Files : /\ Unused(f)
                           /\ dir' = [dir EXCEPT ![arg[t].path] = f]
                           /\ arg' = [arg EXCEPT ![t].file = f, ![t].key = f]
  /\ Goto(t, "create_schema")
  /\ UNCHANGED <<db, main, active, history>>

\* One transaction for all migrations, which fails where there is a schema; closing the pool checkpoints it.
CreateSchema(t) ==
  /\ pc[t] = "create_schema"
  /\ db[arg[t].file].schema = "none"
  /\ LET rows == [db[arg[t].file] EXCEPT !.schema = "current"] IN
       db' = [db EXCEPT ![arg[t].file] = rows] /\ main' = [main EXCEPT ![arg[t].file] = rows]
  /\ Goto(t, "create_open")
  /\ UNCHANGED <<dir, active, arg, history>>

\* The same open_wallet_db as in OpenDb: were there another file by now, it would
\* have to be a wallet, and be migrated.
CreateOpen(t) ==
  /\ pc[t] = "create_open"
  /\ Exists(arg[t].path)
  /\ LET f == dir[arg[t].path] IN
       /\ db[f].schema # "none"
       /\ Write(f, [db[f] EXCEPT !.schema = "current"])
       /\ arg' = [arg EXCEPT ![t].file = f]
  /\ Goto(t, "create_key")
  /\ UNCHANGED <<dir, active, history>>

\* The wallet's key is the first row: in a file that has one another changes
\* nothing, although the session of its maker will use it.
CreateKey(t) ==
  /\ pc[t] = "create_key"
  /\ IF db[arg[t].file].key = None
     THEN /\ Write(arg[t].file, [db[arg[t].file] EXCEPT !.key = arg[t].key,
                                                       !.password = arg[t].password])
          /\ known' = [known EXCEPT ![arg[t].file] = {arg[t].password}]
     ELSE UNCHANGED <<db, main, known>>
  /\ Goto(t, "create_account")
  /\ UNCHANGED <<dir, active, arg, disturbed, copies>>

CreateAccount(t) ==
  /\ pc[t] = "create_account"
  /\ Write(arg[t].file, [db[arg[t].file] EXCEPT !.account = TRUE])
  /\ Goto(t, "create_install")
  /\ UNCHANGED <<dir, active, arg, history>>

\* After the password token and the counters, which nothing reads: the wallet
\* is the active one, whatever was open before.
CreateInstall(t) ==
  /\ pc[t] = "create_install"
  /\ active' = arg[t]
  /\ Done(t)
  /\ UNCHANGED <<disk, history>>

-----------------------------------------------------------------------------
(* open_wallet, close_wallet *)

OpenStart(t, p) ==
  /\ Exists(p) /\ active.path # p
  /\ Begin(t, "open_db", [Nothing EXCEPT !.path = p])
  /\ UNCHANGED <<disk, active, known, copies>>

\* open_wallet_db: fails when the path is gone or the file has no WalletData.
OpenDb(t) ==
  /\ pc[t] = "open_db"
  /\ Exists(arg[t].path)
  /\ LET f == dir[arg[t].path] IN
       /\ db[f].schema # "none"
       /\ arg' = [arg EXCEPT ![t].file = f]
       /\ Goto(t, IF db[f].schema = "old" THEN "open_migrate" ELSE "open_key")
  /\ UNCHANGED <<disk, active, history>>

\* One transaction: whoever comes second finds the column there and fails.
OpenMigrate_Rewrites(t) ==
  /\ pc[t] = "open_migrate"
  /\ Write(arg[t].file, [Blank EXCEPT !.schema = "current"])
  /\ Goto(t, "open_key")
  /\ UNCHANGED <<dir, active, arg, history>>
OpenMigrate(t) ==
  /\ pc[t] = "open_migrate"
  /\ db[arg[t].file].schema = "old"
  /\ Write(arg[t].file, [db[arg[t].file] EXCEPT !.schema = "current"])
  /\ Goto(t, "open_key")
  /\ UNCHANGED <<dir, active, arg, history>>

OpenKey(t) ==
  /\ pc[t] = "open_key"
  /\ LET rows == db[arg[t].file] IN
       /\ rows.key # None
       /\ arg' = [arg EXCEPT ![t].key = rows.key, ![t].password = rows.password]
  /\ Goto(t, "open_install")
  /\ UNCHANGED <<disk, active, history>>

OpenInstall(t) ==
  /\ pc[t] = "open_install"
  /\ active' = arg[t]
  /\ Done(t)
  /\ UNCHANGED <<disk, history>>

CloseWallet ==
  /\ active # NoWallet
  /\ active' = NoWallet
  /\ UNCHANGED <<disk, local, history>>

-----------------------------------------------------------------------------
(* change_password *)

\* The password is verified against the copy in memory.  From here on the file
\* may be under the new one.
ChangeStart(t, pwd, new) ==
  /\ active # NoWallet /\ active.password = pwd /\ new # pwd
  /\ Begin(t, "change_write", [path |-> active.path, file |-> active.file,
                               key |-> active.key, password |-> new])
  /\ known' = [known EXCEPT ![active.file] = @ \cup {new}]
  /\ UNCHANGED <<disk, active, copies>>

\* The first master key's row gets the key of the copy, re-encrypted.
ChangeWrite_Reread(t) ==
  /\ pc[t] = "change_write" /\ active # NoWallet
  /\ Write(active.file, [db[active.file] EXCEPT !.key = arg[t].key, !.password = arg[t].password])
  /\ Goto(t, "change_install")
  /\ UNCHANGED <<dir, active, arg, history>>
ChangeWrite(t) ==
  /\ pc[t] = "change_write"
  /\ db[arg[t].file].key # None
  /\ Write(arg[t].file, [db[arg[t].file] EXCEPT !.key = arg[t].key, !.password = arg[t].password])
  /\ Goto(t, "change_install")
  /\ UNCHANGED <<dir, active, arg, history>>

\* After the password token: memory follows, if the wallet is still the open one.
ChangeInstall_Forgets(t) ==
  /\ pc[t] = "change_install"
  /\ known' = [known EXCEPT ![arg[t].file] = IF arg[t].path \in disturbed THEN @ ELSE {arg[t].password}]
  /\ Done(t)
  /\ UNCHANGED <<disk, active, disturbed, copies>>
ChangeInstall(t) ==
  /\ pc[t] = "change_install"
  /\ active' = IF active.path = arg[t].path
               THEN [active EXCEPT !.key = arg[t].key, !.password = arg[t].password]
               ELSE active
  /\ known' = [known EXCEPT ![arg[t].file] = IF arg[t].path \in disturbed THEN @ ELSE {arg[t].password}]
  /\ Done(t)
  /\ UNCHANGED <<disk, disturbed, copies>>

-----------------------------------------------------------------------------
(* delete_wallet, backup_wallet *)

\* The menu offers to delete a wallet that is or was open, none in the making.
DeleteCheck(t, p) ==
  /\ ~\E u \in Tasks : arg[u].path = p /\ pc[u] \in Creating
  /\ Begin(t, IF active.path = p THEN "delete_close" ELSE "delete_remove",
           [Nothing EXCEPT !.path = p])
  /\ UNCHANGED <<disk, active, known, copies>>

\* The lock was released in between: whatever wallet is open now is closed.
DeleteClose(t) ==
  /\ pc[t] = "delete_close"
  /\ active # NoWallet
  /\ active' = NoWallet
  /\ Goto(t, "delete_remove")
  /\ UNCHANGED <<disk, arg, history>>

\* Only the .sqlite file: with it goes the path, not the handles on it.
DeleteRemove(t) ==
  /\ pc[t] = "delete_remove"
  /\ Exists(arg[t].path)
  /\ dir' = [dir EXCEPT ![arg[t].path] = None]
  /\ Done(t)
  /\ UNCHANGED <<db, main, active, history>>

\* std::fs::copy of the .sqlite file alone; the WAL is not copied.
BackupWallet(p) ==
  /\ active # NoWallet /\ Exists(active.path) /\ ~Exists(p)
  /\ \E f \in Files :
       /\ Unused(f)
       /\ dir' = [dir EXCEPT ![p] = f]
       /\ db' = [db EXCEPT ![f] = main[dir[active.path]]]
       /\ main' = [main EXCEPT ![f] = main[dir[active.path]]]
       /\ known' = [known EXCEPT ![f] = known[dir[active.path]]]
       /\ copies' = copies \cup {f}
  /\ UNCHANGED <<active, local, disturbed>>

\* SQLite moves the WAL into the file when it likes, at the latest on closing.
Checkpoint(f) ==
  /\ main[f] # db[f]
  /\ main' = [main EXCEPT ![f] = db[f]]
  /\ UNCHANGED <<dir, db, active, local, history>>

-----------------------------------------------------------------------------
\* An error at an await, or a check that finds what the steps above exclude.
\* What was written stays: a file half made, a row already under the new password.
HalfDone == (Creating \ {"create_connect"}) \cup {"change_install"}

Fail(t) ==
  /\ pc[t] # "idle"
  /\ disturbed' = IF pc[t] \in HalfDone THEN disturbed \cup {arg[t].path} ELSE disturbed
  /\ Done(t)
  /\ UNCHANGED <<disk, active, known, copies>>

\* The process ends or crashes.
Restart ==
  /\ active' = NoWallet
  /\ pc' = [t \in Tasks |-> "idle"] /\ arg' = [t \in Tasks |-> Nothing]
  /\ disturbed' = disturbed \cup {arg[t].path : t \in {u \in Tasks : pc[u] \in Creating \ {"create_connect"}}}
  /\ UNCHANGED <<disk, known, copies>>

Command(t) ==
  \/ \E p \in Paths : \/ \E pwd \in Passwords : CreateStart(t, p, pwd)
                      \/ OpenStart(t, p) \/ DeleteCheck(t, p)
  \/ CreateConnect(t) \/ CreateSchema(t) \/ CreateOpen(t) \/ CreateKey(t)
  \/ CreateAccount(t) \/ CreateInstall(t)
  \/ OpenDb(t) \/ OpenMigrate(t) \/ OpenKey(t) \/ OpenInstall(t)
  \/ \E pwd, new \in Passwords : ChangeStart(t, pwd, new)
  \/ ChangeWrite(t) \/ ChangeInstall(t)
  \/ DeleteClose(t) \/ DeleteRemove(t)
  \/ Fail(t)

Next ==
  \/ \E t \in Tasks : Command(t)
  \/ \E p \in Paths : BackupWallet(p)
  \/ \E f \in Files : Checkpoint(f)
  \/ CloseWallet \/ Restart

Spec == Init /\ [][Next]_vars

-----------------------------------------------------------------------------
(* Properties *)

Rows == [schema : {"none", "old", "current"}, key : Files \cup {None},
         password : Passwords \cup {None}, account : BOOLEAN]
Held == [path : Paths \cup {None}, file : Files \cup {None}, key : Files \cup {None},
         password : Passwords \cup {None}]
PCs == Creating \cup {"idle", "open_db", "open_migrate", "open_key", "open_install",
                      "change_write", "change_install", "delete_close", "delete_remove"}

TypeOK ==
  /\ dir \in [Paths -> Files \cup {None}]
  /\ \A p, q \in Paths : dir[p] = dir[q] /\ Exists(p) => p = q
  /\ db \in [Files -> Rows] /\ main \in [Files -> Rows]
  /\ \A f \in Files : (db[f].key = None) = (db[f].password = None)
  /\ active \in {NoWallet} \cup [path : Paths, file : Files, key : Files, password : Passwords]
  /\ pc \in [Tasks -> PCs] /\ arg \in [Tasks -> Held]
  /\ known \in [Files -> SUBSET Passwords]
  /\ disturbed \subseteq Paths /\ copies \subseteq Files

\* A file's master key is never replaced by another or lost, whatever commands
\* fail, interleave on other files or are cut off by a crash.  Commands on one
\* path can do it: a wallet deleted and made anew while its password is changed
\* gets the old key in memory, since the path is all that is compared.
KeysSurvive ==
  [][\A p \in Paths \ disturbed :
       Exists(p) /\ dir'[p] = dir[p] /\ db[dir[p]].key # None => db'[dir[p]].key = db[dir[p]].key]_vars

\* The file opens with a password its owner has been told: the one it was made
\* with or changed to last, or one of the changes since that came to no good end.
\* A copy may still be under the password before the last change.
PasswordKnown ==
  \A f \in Files \ copies : db[f].key # None => db[f].password \in known[f]

\* Unless commands on it overlapped or one failed half-way, the open wallet is
\* the file its path names, with the key and the password that file has.
SessionMatchesFile ==
  active # NoWallet /\ active.path \notin disturbed /\ ~Busy(active.path) =>
    /\ dir[active.path] = active.file
    /\ db[active.file].key = active.key
    /\ db[active.file].password = active.password

\* A wallet file that nothing disturbed can be opened: it has its schema, its
\* key and its account.
ListedWalletsOpen ==
  \A p \in Paths \ disturbed :
    Exists(p) /\ ~Busy(p) /\ dir[p] \notin copies =>
      /\ db[dir[p]].schema # "none"
      /\ db[dir[p]].key # None /\ db[dir[p]].account

\* No owner is locked out: a file is complete, and under a password that is known.
FilesOpen == TypeOK /\ PasswordKnown /\ ListedWalletsOpen

\* "Backup the current wallet database file to a specified path" (extra.rs:216):
\* the copy of a wallet that can be opened can be opened.
BackupsOpen ==
  [][\A f \in copies' \ copies : db[active.file].key # None => db'[f].key # None]_vars
-----------------------------------------------------------------------------
(* The inductive invariant behind FilesOpen, SessionMatchesFile and KeysSurvive *)

Keyed == {"create_account", "create_install", "open_install", "change_write", "change_install"}
WithFile == Keyed \cup {"create_schema", "create_open", "create_key", "open_migrate", "open_key"}

\* What an invocation holds at each of its steps.
HoldsWhatItNeeds == \A t \in Tasks :
  /\ pc[t] # "idle" => arg[t].path \in Paths
  /\ pc[t] \in Creating \cup Keyed => arg[t].password \in Passwords
  /\ pc[t] \in WithFile => arg[t].file \in Files
  /\ pc[t] \in Keyed \cup {"create_schema", "create_open", "create_key"} => arg[t].key \in Files

\* A file without a schema is empty, also as far as it is checkpointed; keys come
\* with the password that encrypts them, and stay.
RowsInv ==
  /\ \A f \in Files : /\ (main[f].key = None) = (main[f].password = None)
                      /\ db[f].schema = "none" => db[f] = Blank
                      /\ main[f].schema = "none" => main[f] = Blank
  /\ active # NoWallet => db[active.file].key # None
  /\ \A t \in Tasks : /\ pc[t] \in Keyed => db[arg[t].file].key # None
                      /\ pc[t] = "create_key" => db[arg[t].file].schema # "none"

\* Who uses file f, and by which path.
Uses(f, p) ==
  \/ dir[p] = f
  \/ active.file = f /\ active.path = p
  \/ \E t \in Tasks : arg[t].file = f /\ arg[t].path = p

\* A file goes by one path as long as it lives.
OnePath == \A f \in Files : \A p, q \in Paths : Uses(f, p) /\ Uses(f, q) => p = q

\* What may be written as a file's password is known to its owner.
PendingKnown == \A t \in Tasks :
  pc[t] = "change_write" => arg[t].password \in known[arg[t].file]

\* At a path that is not disturbed there is one command at a time ...
OneAtATime == \A t, u \in Tasks :
  pc[t] # "idle" /\ pc[u] # "idle" /\ arg[t].path = arg[u].path /\ arg[t].path \notin disturbed => t = u

\* ... whose file is the one the path names, with what the command has written;
Stage(t) ==
  LET p == arg[t].path
      rows == db[arg[t].file] IN
  /\ pc[t] \in Creating \cup {"delete_remove"} => active.path # p
  /\ pc[t] \in WithFile => dir[p] = arg[t].file
  /\ pc[t] = "create_connect" /\ Exists(p) => dir[p] \in copies
  /\ pc[t] \in {"create_open", "create_key"} => rows.key = None
  /\ pc[t] \in Keyed => rows.key = arg[t].key
  /\ pc[t] \in Keyed \ {"change_write"} => rows.password = arg[t].password
  /\ pc[t] = "create_install" => rows.account
StageInv == \A t \in Tasks : pc[t] # "idle" /\ arg[t].path \notin disturbed => Stage(t)

\* ... the session there is that file's, but for a password about to be installed;
SessionInv ==
  active # NoWallet /\ active.path \notin disturbed =>
    /\ dir[active.path] = active.file
    /\ db[active.file].key = active.key
    /\ \/ db[active.file].password = active.password
       \/ \E t \in Tasks : pc[t] = "change_install" /\ arg[t].path = active.path

\* ... and the file is complete, but for one that is being made.
Complete(f) == db[f].schema # "none" /\ db[f].key # None /\ db[f].account
CompleteInv ==
  \A p \in Paths \ disturbed :
    Exists(p) /\ dir[p] \notin copies =>
      \/ Complete(dir[p])
      \/ \E t \in Tasks : pc[t] \in Creating \ {"create_connect"} /\ arg[t].path = p

IInv == /\ TypeOK /\ HoldsWhatItNeeds /\ RowsInv /\ OnePath /\ PasswordKnown /\ PendingKnown
        /\ OneAtATime /\ StageInv /\ SessionInv /\ CompleteInv
=============================================================================
