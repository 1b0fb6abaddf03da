---------------------------- MODULE CosignerPool ----------------------------
(***************************************************************************)
(* features/cosigner_pool.rs and its commands (commands/services.rs): the  *)
(* cosigners of a wallet hand a transaction round by way of a server that  *)
(* keeps the latest version of it.  A cosigner fetches it, adds a          *)
(* signature and submits it; nothing tells one that others did so too.  An *)
(* HTTP request may be lost, refused, or answered in vain.                 *)
(***************************************************************************)
EXTENDS Naturals, SequencesExt

CONSTANTS
  Cosigners,
  required_sigs,
  MaxCalls        \* bound on submits and deletes

VARIABLES
  pool,      \* the server: PartiallySignedTx.signers, or NoTx
  copy,      \* the version each cosigner holds
  behind,    \* history: the cosigners whose copy the pool has overtaken
  calls      \* history: how often the server's state was set

NoTx == <<"none">>
vars == <<pool, copy, behind, calls>>

is_complete(tx) == Len(tx) >= required_sigs

Init ==
  /\ pool = NoTx /\ copy = [c \in Cosigners |-> NoTx]
  /\ behind = {} /\ calls = 0

\* A cosigner makes the transaction and has a first, unsigned copy of it.
Create(c) ==
  /\ \A d \in Cosigners : copy[d] = NoTx
  /\ copy' = [copy EXCEPT ![c] = <<>>]
  /\ UNCHANGED <<pool, behind, calls>>

\* get_pending; when it fails, or the server knows no such wallet, c keeps its copy.
get_pending(c) ==
  /\ pool # NoTx
  /\ copy' = [copy EXCEPT ![c] = pool]
  /\ behind' = behind \ {c}
  /\ UNCHANGED <<pool, calls>>

add_signature_Alone(c) ==
  /\ copy[c] # NoTx /\ ~is_complete(copy[c])
  /\ copy' = [copy EXCEPT ![c] = <<c>>]
  /\ UNCHANGED <<pool, behind, calls>>
add_signature(c) ==
  /\ copy[c] # NoTx /\ ~is_complete(copy[c])
  /\ copy' = [copy EXCEPT ![c] = IF Contains(@, c) THEN @ ELSE Append(@, c)]
  /\ UNCHANGED <<pool, behind, calls>>

\* The server stores what it gets.  Whether the answer comes back makes no
\* difference: the cosigner keeps its copy and may submit it again.
submit_tx(c) ==
  /\ copy[c] # NoTx /\ calls < MaxCalls
  /\ pool' = copy[c]
  /\ behind' = {d \in Cosigners : d # c /\ copy[d] # NoTx /\ copy[d] # copy[c]}
  /\ calls' = calls + 1
  /\ UNCHANGED copy

\* After the broadcast of a complete transaction.
delete_tx(c) ==
  /\ copy[c] # NoTx /\ is_complete(copy[c]) /\ calls < MaxCalls
  /\ pool' = NoTx
  /\ behind' = {d \in Cosigners : copy[d] # NoTx}
  /\ calls' = calls + 1
  /\ UNCHANGED copy

Next ==
  \E c \in Cosigners : \/ Create(c) \/ get_pending(c) \/ add_signature(c)
                       \/ submit_tx(c) \/ delete_tx(c)
Spec == Init /\ [][Next]_vars

-----------------------------------------------------------------------------
TypeOK ==
  /\ pool = NoTx \/ pool \in Seq(Cosigners)
  /\ \A c \in Cosigners : copy[c] = NoTx \/ copy[c] \in Seq(Cosigners)
  /\ behind \subseteq Cosigners /\ calls \in 0..MaxCalls

\* PartiallySignedTx: a version counts as complete only when as many different
\* cosigners have signed it, and none signs a complete one.
CompleteByDifferent ==
  \A tx \in {pool} \cup Range(copy) :
    tx # NoTx => IsInjective(tx) /\ Len(tx) <= required_sigs

\* submit_tx: a signature that has reached the pool is lost only through a
\* cosigner who submits a copy that the pool had overtaken.
KeepsSignatures ==
  \A c \in Cosigners :
    submit_tx(c) /\ pool # NoTx /\ c \notin behind => Range(pool) \subseteq Range(pool')
KeptByTheInformed == [][KeepsSignatures]_vars

-----------------------------------------------------------------------------
(* What it rests on *)

\* What is in the pool came from a cosigner, and a cosigner whose copy the pool
\* has not overtaken holds every signature that is there.
PoolInv ==
  pool # NoTx =>
    /\ \E c \in Cosigners : copy[c] # NoTx
    /\ \A c \in Cosigners \ behind : copy[c] # NoTx => Range(pool) \subseteq Range(copy[c])

IInv == TypeOK /\ DOMAIN copy = Cosigners /\ CompleteByDifferent /\ PoolInv
=============================================================================
