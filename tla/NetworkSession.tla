--------------------------- MODULE NetworkSession ---------------------------
(***************************************************************************)
(* commands/network.rs: AppState.network is one mutex over the server list *)
(* and over who serves the wallet, an ElectrumX client or WhatsOnChain.    *)
(* connect_server, disconnect_server and set_network_backend drop the lock *)
(* while they talk to the network and take it again to store the outcome:  *)
(* each is cut there, and any number of them may be between the two.       *)
(*                                                                         *)
(* A client object is an Arc: its TLS connection and reader task live on   *)
(* when NetworkState drops its copy, until disconnect() or the server ends *)
(* them.  The server list is module ServerList; the commands neither add   *)
(* nor remove servers, nor do they record failures.                        *)
(***************************************************************************)
EXTENDS Sequences, FiniteSetsExt, Functions

CONSTANTS
  Hosts, Defaults, MaxServers, MaxSelects,   \* see ServerList
  Clients,   \* ElectrumXClient objects, a new one for every connection
  Tasks,     \* command invocations in flight at the same time
  None

ASSUME ListAssumption == Defaults \in Seq(Hosts) /\ MaxSelects \in Nat
ASSUME NoneAssumption == None \notin Hosts \cup Clients \cup {"ElectrumX", "WhatsOnChain"}

VARIABLES
  servers, health, active_index, rr_counter,   \* net.server_list
  connected,       \* net.connected
  client,          \* net.client
  woc_client,      \* net.woc_client is Some
  active_backend,  \* net.active_backend
  host_of,         \* the server each client object was made for, None: not made
  live,            \* the client objects whose TLS connection is open
  pc, taken        \* where each invocation is, and what it holds meanwhile

list == <<servers, health, active_index, rr_counter>>
backend == <<connected, client, woc_client, active_backend>>
wires == <<host_of, live>>
local == <<pc, taken>>
vars == <<list, backend, wires, local>>

SL == INSTANCE ServerList

ActiveHost == IF SL!NoActive THEN None ELSE servers[active_index]
Status(h) == health[h].status

Nothing == [host |-> None, client |-> None, woc |-> FALSE]

Init ==
  /\ SL!Init
  /\ connected = FALSE /\ client = None /\ woc_client = FALSE /\ active_backend = None
  /\ host_of = [c \in Clients |-> None] /\ live = {}
  /\ pc = [t \in Tasks |-> "idle"] /\ taken = [t \in Tasks |-> Nothing]

Begin(t, next, what) ==
  /\ pc[t] = "idle"
  /\ pc' = [pc EXCEPT ![t] = next]
  /\ taken' = [taken EXCEPT ![t] = what]

Return(t) ==
  /\ pc' = [pc EXCEPT ![t] = "idle"]
  /\ taken' = [taken EXCEPT ![t] = Nothing]

-----------------------------------------------------------------------------
(* connect_server *)

\* A host the user names is taken as it is: no look at its status.
ConnectTo(t, h) ==
  /\ h \in Range(servers)
  /\ Begin(t, "connecting", [Nothing EXCEPT !.host = h])
  /\ UNCHANGED <<list, backend, wires>>

ConnectBest(t) ==
  /\ \E h \in Hosts : /\ SL!SelectBest(h)
                      /\ Begin(t, "connecting", [Nothing EXCEPT !.host = h])
  /\ UNCHANGED <<backend, wires>>

\* The client made before is replaced, it is not disconnected.
ConnectDone(t) ==
  /\ pc[t] = "connecting"
  /\ SL!RecordSuccess(taken[t].host)
  /\ connected' = TRUE
  /\ active_backend' = "ElectrumX"
  /\ \E c \in Clients :
       /\ host_of[c] = None
       /\ host_of' = [host_of EXCEPT ![c] = taken[t].host]
       /\ live' = live \cup {c}
       /\ client' = c
  /\ Return(t)
  /\ UNCHANGED woc_client

\* No failure is recorded.  When only the handshake failed the connection was
\* made, and its reader task keeps it although the client object is dropped.
ConnectFailed(t) ==
  /\ pc[t] = "connecting"
  /\ Return(t)
  /\ \/ UNCHANGED wires
     \/ \E c \in Clients :
          /\ host_of[c] = None
          /\ host_of' = [host_of EXCEPT ![c] = taken[t].host]
          /\ live' = live \cup {c}
  /\ UNCHANGED <<list, backend>>

-----------------------------------------------------------------------------
(* disconnect_server *)

DisconnectStart(t) ==
  /\ Begin(t, "disconnecting", [host |-> ActiveHost, client |-> client, woc |-> woc_client])
  /\ client' = None
  /\ woc_client' = FALSE
  /\ UNCHANGED <<list, connected, active_backend, wires>>

\* Whoever connected in the meantime is marked as not connected too.
DisconnectDone(t) ==
  /\ pc[t] = "disconnecting"
  /\ live' = live \ {taken[t].client}
  /\ IF taken[t].host # None THEN SL!Disconnect(taken[t].host) ELSE UNCHANGED list
  /\ connected' = FALSE
  /\ active_backend' = None
  /\ Return(t)
  /\ UNCHANGED <<client, woc_client, host_of>>

-----------------------------------------------------------------------------
(* set_network_backend *)

ToElectrumX ==
  /\ woc_client' = FALSE
  /\ active_backend' = "ElectrumX"
  /\ UNCHANGED <<list, connected, client, wires, local>>

WocPing(t) ==
  /\ Begin(t, "pinging", Nothing)
  /\ UNCHANGED <<list, backend, wires>>

\* net.client is dropped here; disconnect() is not called on it, and the
\* server list goes on calling its server active.
WocReady(t) ==
  /\ pc[t] = "pinging"
  /\ woc_client' = TRUE
  /\ active_backend' = "WhatsOnChain"
  /\ client' = None
  /\ connected' = TRUE
  /\ Return(t)
  /\ UNCHANGED <<list, wires>>

WocFailed(t) ==
  /\ pc[t] = "pinging"
  /\ Return(t)
  /\ UNCHANGED <<list, backend, wires>>

-----------------------------------------------------------------------------
\* ban_server: net.client stays, the server loses its place in the rotation.
BanServer(h) ==
  /\ SL!Ban(h)
  /\ connected' = IF ActiveHost' = None THEN FALSE ELSE connected
  /\ UNCHANGED <<client, woc_client, active_backend, wires, local>>

\* The server closes the connection: the reader task ends, nobody else learns.
ServerCloses(c) ==
  /\ c \in live
  /\ live' = live \ {c}
  /\ UNCHANGED <<list, backend, host_of, local>>

Command(t) ==
  \/ \E h \in Hosts : ConnectTo(t, h)
  \/ ConnectBest(t) \/ ConnectDone(t) \/ ConnectFailed(t)
  \/ DisconnectStart(t) \/ DisconnectDone(t)
  \/ WocPing(t) \/ WocReady(t) \/ WocFailed(t)

Next ==
  \/ \E t \in Tasks : Command(t)
  \/ ToElectrumX
  \/ \E h \in Hosts : BanServer(h)
  \/ \E c \in Clients : ServerCloses(c)

Spec == Init /\ [][Next]_vars

-----------------------------------------------------------------------------
(* Properties *)

PCs == {"idle", "connecting", "disconnecting", "pinging"}

TypeOK ==
  /\ SL!TypeOK
  /\ connected \in BOOLEAN /\ woc_client \in BOOLEAN
  /\ client \in Clients \cup {None}
  /\ active_backend \in {None, "ElectrumX", "WhatsOnChain"}
  /\ host_of \in [Clients -> Hosts \cup {None}]
  /\ live \subseteq {c \in Clients : host_of[c] # None}
  /\ pc \in [Tasks -> PCs]
  /\ taken \in [Tasks -> [host : Hosts \cup {None}, client : Clients \cup {None}, woc : BOOLEAN]]

\* However connects, disconnects, bans and switches overlap, the server shown as
\* active is one the list calls Connected: no stale index after a ban.
ActiveIsConnected == \A h \in Hosts : SL!Active(h) => Status(h) = "Connected"

\* While the list has an active server and there is a client, requests go to
\* that server: the two halves of NetworkState never name different servers.
ClientServesActive ==
  (client # None /\ ~SL!NoActive) => host_of[client] = ActiveHost

\* One backend serves: once WhatsOnChain is selected no ElectrumX client is left
\* to be preferred by broadcast_tx, and its own client is there unless a
\* disconnect took it that is about to clear the backend as well.
OneBackendServes ==
  active_backend = "WhatsOnChain" =>
    /\ client = None
    /\ woc_client \/ \E t \in Tasks : pc[t] = "disconnecting"

-----------------------------------------------------------------------------
(* The inductive invariant behind them *)

\* The commands work on the default list, each server of which has a record.
ListKept == servers = Defaults /\ \A h \in Range(servers) : health[h] # SL!NoRecord

\* Whoever is connecting connects to a server of the list.
ConnectsToListed == \A t \in Tasks : pc[t] = "connecting" => taken[t].host \in Range(servers)

IInv == /\ TypeOK /\ ListKept /\ ConnectsToListed
        /\ ActiveIsConnected /\ ClientServesActive /\ OneBackendServes
=============================================================================
