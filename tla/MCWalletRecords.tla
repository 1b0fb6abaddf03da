-------------------------- MODULE MCWalletRecords --------------------------
(***************************************************************************)
(* Records that are read in one step and written in a later one: the rows  *)
(* of a wallet file, the transaction cache, and what wallets exchange by   *)
(* way of servers.  They have nothing in common, so each group is explored *)
(* by itself: `part` says which, and the variables of the others are 0.    *)
(***************************************************************************)
EXTENDS Naturals, FiniteSets, TLC

CONSTANTS Tasks, None, t1, t2,
          Secrets, s1, s2, MaxLists, NumCodes,
          MaxAccounts, MaxKeys,
          Labels, l1, l2, MaxIds, MaxMade,
          Hashes, Sizes, Limits, FlagSets,
          Cosigners, required_sigs, MaxCalls,
          Devices, Labelled, Texts, Passphrases, MaxPushes,
          Payloads, MaxMessages

ASSUME BoundsAssumption == /\ MaxLists \in Nat /\ MaxKeys \in Nat /\ MaxAccounts \in Nat \ {0}
                           /\ MaxIds \in Nat /\ MaxMade \in Nat /\ MaxCalls \in Nat
                           /\ MaxPushes \in Nat /\ required_sigs \in Nat
ASSUME TasksAssumption == IsFiniteSet(Tasks)
ASSUME CacheAssumption == Sizes \subseteq Nat /\ Limits \subseteq Nat
ASSUME NoneAssumption == None \notin Nat /\ "none" \notin Cosigners

VARIABLES part, pc, arg, clash,
          secret, scope, codes, made, lists, handed, spent, saw,
          accounts, configs, keys, requests, began,
          contacts, identities, gone,
          metadata_cache, entries, total_size, max_size, holder, recent,
          pool, copy, behind, calls,
          passphrase, local, server, pulled, pushes,
          channel, messages, inbox, done, posted

factor == <<secret, scope, codes, lists, handed, spent, saw>>
account == <<accounts, configs, keys, requests, began>>
contact == <<contacts, identities, gone>>
wallet == <<pc, arg, clash, made, factor, account, contact>>
cache == <<metadata_cache, entries, total_size, max_size, holder, recent>>
signing == <<pool, copy, behind, calls>>
labelling == <<passphrase, local, server, pulled, pushes>>
relay == <<channel, messages, inbox, done, posted>>
vars == <<part, wallet, cache, signing, labelling, relay>>

SF == INSTANCE SecondFactor
AK == INSTANCE AccountKeys
CO == INSTANCE Contacts
TC == INSTANCE TransactionCache
CP == INSTANCE CosignerPool
LY == INSTANCE LabelSync
SC == INSTANCE SpvChannels

\* The tables of the other groups, which a part leaves alone.
NoFactor == /\ secret = 0 /\ scope = 0 /\ codes = 0 /\ lists = 0
            /\ handed = 0 /\ spent = 0 /\ saw = 0
NoAccount == accounts = 0 /\ configs = 0 /\ keys = 0 /\ requests = 0 /\ began = 0
NoContact == contacts = 0 /\ identities = 0 /\ gone = 0

NoWallet == /\ pc = 0 /\ arg = 0 /\ clash = 0 /\ made = 0 /\ NoFactor /\ NoAccount /\ NoContact
NoCache == /\ metadata_cache = 0 /\ entries = 0 /\ total_size = 0 /\ max_size = 0
           /\ holder = 0 /\ recent = 0
NoSigning == pool = 0 /\ copy = 0 /\ behind = 0 /\ calls = 0
NoLabelling == passphrase = 0 /\ local = 0 /\ server = 0 /\ pulled = 0 /\ pushes = 0
NoRelay == channel = 0 /\ messages = 0 /\ inbox = 0 /\ done = 0 /\ posted = 0

Init ==
  \/ /\ \/ part = "factor" /\ SF!Init /\ NoAccount /\ NoContact
        \/ part = "keys" /\ AK!Init /\ NoFactor /\ made = 0 /\ NoContact
        \/ part = "contacts" /\ CO!Init /\ NoFactor /\ NoAccount
     /\ NoCache /\ NoSigning /\ NoLabelling /\ NoRelay
  \/ part = "cache" /\ TC!Init /\ NoWallet /\ NoSigning /\ NoLabelling /\ NoRelay
  \/ part = "signing" /\ CP!Init /\ NoWallet /\ NoCache /\ NoLabelling /\ NoRelay
  \/ part = "labelling" /\ LY!Init /\ NoWallet /\ NoCache /\ NoSigning /\ NoRelay
  \/ part = "relay" /\ SC!Init /\ NoWallet /\ NoCache /\ NoSigning /\ NoLabelling

WalletNext ==
  /\ \/ part = "factor" /\ SF!Next /\ UNCHANGED <<account, contact>>
     \/ part = "keys" /\ AK!Next /\ UNCHANGED <<factor, made, contact>>
     \/ part = "contacts" /\ CO!Next /\ UNCHANGED <<factor, account>>
  /\ UNCHANGED <<cache, signing, labelling, relay>>
Next ==
  /\ \/ WalletNext
     \/ part = "cache" /\ TC!Next /\ UNCHANGED <<wallet, signing, labelling, relay>>
     \/ part = "signing" /\ CP!Next /\ UNCHANGED <<wallet, cache, labelling, relay>>
     \/ part = "labelling" /\ LY!Next /\ UNCHANGED <<wallet, cache, signing, relay>>
     \/ part = "relay" /\ SC!Next /\ UNCHANGED <<wallet, cache, signing, labelling>>
  /\ UNCHANGED part
Spec == Init /\ [][Next]_vars

-----------------------------------------------------------------------------
(* What each part promises, its type invariant included. *)

\* totp_recover, export_seed, export_privkey: the recovery codes that work are
\* those handed out last and not used yet, unless two writers of the list
\* overlap, and no key is shown to a call without a code that was good during it.
OnlyByCode == part = "factor" => SF!TypeOK /\ SF!CodesAsHandedOut /\ SF!RevealGuarded

\* enable_totp, set_totp_scope: a second factor is neither replaced nor weakened
\* by a call that did not see it missing or low and gave no code of it.
FactorStands ==
  [][part = "factor" =>
       /\ scope = "tx" /\ scope' = "login" => SF!ByCode
       /\ secret # None /\ secret' \notin {secret, None} => SF!ByEnrolment]_vars

\* get_receive_address, create_payment_request: an address that was there when a
\* call began is not handed out by it, each request has a key of its own, and
\* as long as calls do not overlap no index is skipped.
AddressesApart ==
  part = "keys" => AK!TypeOK /\ AK!FreshAddress /\ AK!RequestsApart /\ AK!DenseWhenAlone

\* add_contact, update_contact, delete_contact: a label names one contact unless
\* two calls give it at the same time, and an address stays with the contact it
\* was added for, although ids are given again.
ContactsApart == part = "contacts" => CO!TypeOK /\ CO!LabelsApart /\ CO!IdentityOfItsContact

\* LruCache: the cache holds what was used last, and no more than the limit but
\* for one large transaction.
CacheKeeps == part = "cache" => TC!TypeOK /\ TC!WithinLimit /\ TC!KeepsTheRecent

\* LruCache, delete, clear: an eviction stops as soon as the rest fits, and what
\* is deleted is in neither cache although the two locks are taken in turn.
CacheForgets == [][part = "cache" => TC!StopsInTime /\ TC!LeavesNothing]_vars

\* What wallets exchange by way of a server arrives as it was sent: a complete
\* transaction is signed by different cosigners, labels are those one device
\* pushed, and no message of a channel is marked read unseen.
SharedAsSent ==
  CASE part = "signing" -> CP!TypeOK /\ CP!CompleteByDifferent
    [] part = "labelling" -> LY!TypeOK /\ LY!AsOnePushed
    [] part = "relay" -> SC!TypeOK /\ SC!NothingUnseen
    [] OTHER -> TRUE

\* submit_tx: only a cosigner whose copy is behind removes a signature.
KeptByTheInformed == [][part = "signing" => CP!KeepsSignatures]_vars

-----------------------------------------------------------------------------
(* Instances *)

\* Flags of transactions whose bytes and whose height are known.
SomeFlags == {{}, {"HAS_BYTEDATA"}, {"HAS_BYTEDATA", "HAS_HEIGHT"}}

\* Invocations are interchangeable, and so are secrets and labels.
MCSymmetry == Permutations(Tasks) \cup Permutations(Secrets) \cup Permutations(Labels)
=============================================================================
