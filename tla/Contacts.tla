------------------------------ MODULE Contacts ------------------------------
(***************************************************************************)
(* commands/contacts.rs over the tables of migration 0029.  Nothing in the *)
(* schema keeps labels apart: every command looks first and writes in a    *)
(* later statement.  contact_id is a rowid without AUTOINCREMENT, so the   *)
(* id of the last contact is given again once it is deleted.               *)
(***************************************************************************)
EXTENDS Naturals, FiniteSetsExt

CONSTANTS
  Labels,    \* labels, after trimming
  MaxIds,    \* bound: contact ids
  MaxMade,   \* bound: contacts ever made
  Tasks,     \* command invocations in flight at the same time
  None

VARIABLES
  contacts,     \* Contacts by contact_id: the label, and its number, 0: no row
  identities,   \* ContactIdentities: contact_id and the contact it was meant for
  pc, arg,      \* where each invocation is, and what it holds
  made,         \* history: contacts made so far; a contact is named by its number
  gone,         \* history: the contacts deleted
  clash         \* history: labels two calls have tried to give at the same time

tables == <<contacts, identities>>
history == <<made, gone, clash>>
vars == <<tables, pc, arg, history>>

Ids == 1..MaxIds
Nobody == [label |-> None, number |-> 0]
Nothing == [label |-> None, id |-> 0, number |-> 0]
Present == {i \in Ids : contacts[i].number # 0}

Init ==
  /\ contacts = [i \in Ids |-> Nobody] /\ identities = {}
  /\ pc = [t \in Tasks |-> "idle"] /\ arg = [t \in Tasks |-> Nothing]
  /\ made = 0 /\ gone = {} /\ clash = {}

Goto(t, next, what) ==
  /\ pc' = [pc EXCEPT ![t] = next]
  /\ arg' = [arg EXCEPT ![t] = what]

Return(t) == Goto(t, "idle", Nothing)

check_label_in_use(l) == \E i \in Present : contacts[i].label = l

Giving(l) == {t \in Tasks : pc[t] \in {"add", "rename_check", "rename"} /\ arg[t].label = l}
Claim(l) == clash' = IF Giving(l) = {} THEN clash ELSE clash \cup {l}

-----------------------------------------------------------------------------
(* add_contact *)

AddCheck(t, l) ==
  /\ pc[t] = "idle"
  /\ ~check_label_in_use(l)
  /\ Goto(t, "add", [Nothing EXCEPT !.label = l])
  /\ Claim(l)
  /\ UNCHANGED <<tables, made, gone>>

\* SQLite numbers a row one past the largest there is.
NewId == Max(Present \cup {0}) + 1

Add(t) ==
  /\ pc[t] = "add"
  /\ NewId \in Ids /\ made < MaxMade
  /\ made' = made + 1
  /\ contacts' = [contacts EXCEPT ![NewId] = [label |-> arg[t].label, number |-> made']]
  /\ Goto(t, "identify", [arg[t] EXCEPT !.id = NewId, !.number = made'])
  /\ UNCHANGED <<identities, gone, clash>>

\* The foreign key refuses an identity of a contact that is gone, not one of
\* the contact that has its id by now.
Identify(t) ==
  /\ pc[t] = "identify"
  /\ identities' = identities \cup
       (IF arg[t].id \in Present
        THEN {[id |-> arg[t].id, number |-> arg[t].number, late |-> arg[t].number \in gone]}
        ELSE {})
  /\ Return(t)
  /\ UNCHANGED <<contacts, history>>

-----------------------------------------------------------------------------
(* update_contact *)

RenameFind_Unchecked(t, i, l) ==
  /\ pc[t] = "idle"
  /\ i \in Present
  /\ Goto(t, "rename", [label |-> l, id |-> i, number |-> contacts[i].number])
  /\ Claim(l)
  /\ UNCHANGED <<tables, made, gone>>
RenameFind(t, i, l) ==
  /\ pc[t] = "idle"
  /\ i \in Present
  /\ Goto(t, IF contacts[i].label = l THEN "rename" ELSE "rename_check",
          [label |-> l, id |-> i, number |-> contacts[i].number])
  /\ Claim(l)
  /\ UNCHANGED <<tables, made, gone>>

RenameCheck(t) ==
  /\ pc[t] = "rename_check"
  /\ IF check_label_in_use(arg[t].label) THEN Return(t) ELSE Goto(t, "rename", arg[t])
  /\ UNCHANGED <<tables, history>>

\* An UPDATE: whoever has the id by now, or no row at all.
Rename(t) ==
  /\ pc[t] = "rename"
  /\ contacts' = IF arg[t].id \in Present
                 THEN [contacts EXCEPT ![arg[t].id].label = arg[t].label] ELSE contacts
  /\ Return(t)
  /\ UNCHANGED <<identities, history>>

-----------------------------------------------------------------------------
(* delete_contact *)

DeleteFind(t, i) ==
  /\ pc[t] = "idle"
  /\ i \in Present
  /\ Goto(t, "delete", [Nothing EXCEPT !.id = i])
  /\ UNCHANGED <<tables, history>>

\* ON DELETE CASCADE, which the pool switches on (PRAGMA foreign_keys).
Cascade(i) == identities' = {x \in identities : x.id # i}

Delete(t) ==
  /\ pc[t] = "delete"
  /\ LET i == arg[t].id IN
       /\ contacts' = [contacts EXCEPT ![i] = Nobody]
       /\ gone' = gone \cup ({contacts[i].number} \ {0})
       /\ Cascade(i)
  /\ Return(t)
  /\ UNCHANGED <<made, clash>>

\* A statement fails, or the process dies there: what was written stays.
Fail(t) ==
  /\ pc[t] # "idle"
  /\ Return(t)
  /\ UNCHANGED <<tables, history>>

Next == \E t \in Tasks :
  \/ \E l \in Labels : AddCheck(t, l)
  \/ Add(t) \/ Identify(t)
  \/ \E i \in Ids, l \in Labels : RenameFind(t, i, l)
  \/ RenameCheck(t) \/ Rename(t)
  \/ \E i \in Ids : DeleteFind(t, i)
  \/ Delete(t) \/ Fail(t)
Spec == Init /\ [][Next]_vars

-----------------------------------------------------------------------------
TypeOK ==
  /\ contacts \in [Ids -> [label : Labels \cup {None}, number : 0..MaxMade]]
  /\ \A x \in identities : x.id \in Present
  /\ identities \subseteq [id : Ids, number : 1..MaxMade, late : BOOLEAN]
  /\ made \in 0..MaxMade /\ gone \subseteq 1..made /\ clash \subseteq Labels

\* add_contact, update_contact: a label names one contact, as long as no two
\* calls try to give it at the same time.
LabelsApart ==
  \A i, j \in Present :
    contacts[i].label = contacts[j].label /\ contacts[i].label \notin clash => i = j

\* add_contact, delete_contact: an address belongs to the contact it was added
\* for, although ids are given again.  (One whose contact was deleted while it
\* was being added may end up with the next contact.)
IdentityOfItsContact ==
  \A x \in identities : ~x.late => contacts[x.id].number = x.number

-----------------------------------------------------------------------------
(* What it rests on *)

\* What calls hold, and that numbers are given once.
LocalsOK ==
  /\ pc \in [Tasks -> {"idle", "add", "identify", "rename_check", "rename", "delete"}]
  /\ arg \in [Tasks -> [label : Labels \cup {None}, id : Nat, number : 0..MaxMade]]
  /\ \A i \in Ids : contacts[i].number <= made
  /\ \A t \in Tasks :
       /\ pc[t] # "idle" /\ pc[t] # "add" => arg[t].id \in Ids
       /\ pc[t] = "identify" => arg[t].number \in 1..made

\* Calls that give a label at different times: one at most is at it, and finds
\* no other contact with the label when it writes.
LabelInv ==
  \A t \in Tasks : pc[t] \in {"add", "rename_check", "rename"} /\ arg[t].label \notin clash =>
    /\ \A u \in Giving(arg[t].label) : u = t
    /\ \A i \in Present : contacts[i].label = arg[t].label =>
         pc[t] # "add" /\ (pc[t] = "rename" => i = arg[t].id)

\* The contact an address is being added for has its id until it is deleted.
NumberInv ==
  \A t \in Tasks : pc[t] = "identify" /\ arg[t].number \notin gone =>
    contacts[arg[t].id].number = arg[t].number

IInv == /\ TypeOK /\ LocalsOK /\ LabelInv /\ NumberInv
        /\ LabelsApart /\ IdentityOfItsContact
=============================================================================
