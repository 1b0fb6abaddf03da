-------------------------- MODULE MCNetworkSession --------------------------
(***************************************************************************)
(* A small instance of NetworkSession: two servers, both in the default    *)
(* list.  No command adds or removes a server or records a failure, so the *)
(* run has a second scope, in which the list is driven through all of its  *)
(* methods with no command around it.                                      *)
(***************************************************************************)
EXTENDS NetworkSession, TLC
CONSTANTS h1, h2, t1, t2, k1, k2, k3
VARIABLE scope   \* "commands" or "list"
MCDefaults == <<h1, h2>>

MCInit == Init /\ scope \in {"commands", "list"}
\* To bound the run one server at a time climbs the ladder of backoff times.
OneClimbs == Cardinality({h \in Hosts : health[h].failures > 1}) <= 1

MCNext ==
  /\ \/ scope = "commands" /\ Next
     \/ scope = "list" /\ SL!Next /\ OneClimbs' /\ UNCHANGED <<backend, wires, local>>
  /\ UNCHANGED scope
MCSpec == MCInit /\ [][MCNext]_<<vars, scope>>

\* The rotation starves nobody, on any list the methods can make: as many
\* selections in a row as servers are eligible try each of them once.
RotationReachesAll == scope = "list" => SL!RotationReachesAll

\* However connects, disconnects, bans and switches overlap, the active server is
\* one the list calls Connected.  (ServerList::remove, which no command calls,
\* clamps the index without moving it with its server.)
ActiveStaysConnected == scope = "commands" => ActiveIsConnected

\* What is shown, stored and served names one peer, whatever overlaps: the active
\* server is connected, the client is that server's, and one backend serves.
PeersAgree == TypeOK /\ ActiveStaysConnected /\ ClientServesActive /\ OneBackendServes

\* Invocations are interchangeable, and so are client objects.
MCSymmetry == Permutations(Tasks) \cup Permutations(Clients)
=============================================================================
