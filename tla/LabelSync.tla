----------------------------- MODULE LabelSync -----------------------------
(***************************************************************************)
(* features/label_sync.rs and its commands (commands/services.rs): devices *)
(* of one wallet exchange their labels through a server, which gets them   *)
(* encrypted one by one.  A push replaces what is there; a pull decrypts   *)
(* all or fails.  Under another key than the one used, AES-CBC fails on    *)
(* the padding or yields rubbish.                                          *)
(***************************************************************************)
EXTENDS Naturals, SequencesExt

CONSTANTS
  Devices, Labelled, Texts,
  Passphrases,
  MaxPushes       \* bound on pushes

VARIABLES
  passphrase,   \* of each device
  local,        \* its labels: a text for some ids
  server,       \* what the server holds, in the order it came: EncryptedLabels
  pulled,       \* what the last pull of each device returned
  pushes        \* history: the labels and the passphrase of every push, in order

vars == <<passphrase, local, server, pulled, pushes>>

LabelSets == UNION {[S -> Texts] : S \in SUBSET Labelled}
Without(status) == [status |-> status, labels |-> <<>>]
Failed == {Without("error"), Without("rubbish")}

\* Each label with the key it is encrypted with.
encrypt(labels, key) == {[id |-> i, text |-> labels[i], key |-> key] : i \in DOMAIN labels}

Init ==
  /\ passphrase \in [Devices -> Passphrases]
  /\ local \in [Devices -> {<<>>}]
  /\ server = {} /\ pulled = [d \in Devices |-> Without("nothing")] /\ pushes = <<>>

\* The user labels something (commands/labels.rs).
Edit(d, i, t) ==
  /\ local' = [local EXCEPT ![d] = [j \in DOMAIN @ \cup {i} |-> IF j = i THEN t ELSE @[j]]]
  /\ UNCHANGED <<passphrase, server, pulled, pushes>>

\* The server takes the push; the answer may be lost.
push(d) ==
  /\ Len(pushes) < MaxPushes
  /\ server' = encrypt(local[d], passphrase[d])
  /\ pushes' = Append(pushes, [labels |-> local[d], key |-> passphrase[d]])
  /\ UNCHANGED <<passphrase, local, pulled>>

\* What a pull may return.
Decrypted ==
  [status |-> "ok",
   labels |-> [i \in {e.id : e \in server} |-> (CHOOSE e \in server : e.id = i).text]]
decrypt(d) ==
  IF \A e \in server : e.key = passphrase[d] THEN {Decrypted} ELSE Failed
pull(d) ==
  /\ \E r \in decrypt(d) : pulled' = [pulled EXCEPT ![d] = r]
  /\ UNCHANGED <<passphrase, local, server, pushes>>

Next ==
  \E d \in Devices :
    \/ \E i \in Labelled, t \in Texts : Edit(d, i, t)
    \/ push(d) \/ pull(d)
Spec == Init /\ [][Next]_vars

-----------------------------------------------------------------------------
TypeOK ==
  /\ \A d \in Devices : local[d] \in LabelSets /\ pulled[d].labels \in LabelSets
  /\ server \subseteq [id : Labelled, text : Texts, key : Passphrases]
  /\ Len(pushes) <= MaxPushes

\* push, pull: what a device gets is what one device has pushed at one time with
\* the passphrase they share, never a mixture of two and never another's.
AsOnePushed ==
  \A d \in Devices : pulled[d].status = "ok" =>
    \E p \in Range(pushes) \cup {[labels |-> <<>>, key |-> passphrase[d]]} :
      p.labels = pulled[d].labels /\ (p.key = passphrase[d] \/ p.labels = <<>>)

-----------------------------------------------------------------------------
(* What it rests on *)

\* The server holds one push, whole.
ServerInv ==
  server = {} \/ \E p \in Range(pushes) : server = encrypt(p.labels, p.key)

StateOK ==
  /\ passphrase \in [Devices -> Passphrases] /\ local \in [Devices -> LabelSets]
  /\ DOMAIN pulled = Devices
  /\ pushes \in Seq([labels : LabelSets, key : Passphrases])

IInv == TypeOK /\ StateOK /\ ServerInv /\ AsOnePushed
=============================================================================
