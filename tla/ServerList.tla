----------------------------- MODULE ServerList -----------------------------
(***************************************************************************)
(* network/server_list.rs: the known ElectrumX servers, the health record  *)
(* of each, the active one, and the rotation that picks the next to try.   *)
(* Every method runs under the lock of NetworkState, so each is one step.  *)
(*                                                                         *)
(* An Instant is kept as the seconds left until it, and Tick lets time run *)
(* to the next instant anything waits for.  The commands measure no        *)
(* latency, they record 0 ms: a server's average is 0 or not known.        *)
(***************************************************************************)
EXTENDS Sequences, FiniteSetsExt

CONSTANTS
  Hosts,       \* host names
  Defaults,    \* default_servers(), in order of priority
  MaxServers,  \* bound on the length of the list, for TLC
  MaxSelects   \* bound on the round-robin counter, for TLC

VARIABLES
  servers,       \* ServerList.servers, the hosts in priority order
  health,        \* ServerList.health, keyed by host; NoRecord: no entry
  active_index,  \* ServerList.active_index, 0 for None
  rr_counter     \* ServerList.rr_counter

vars == <<servers, health, active_index, rr_counter>>

Statuses == {"Unknown", "Connected", "Disconnected", "Failed", "Banned"}
\* Ten failures in a row and more wait the same: the count stops there.
MaxFailures == 10
ServerHealth == [status : Statuses, failures : 0 .. MaxFailures, wait : 0 .. 300,
                 measured : BOOLEAN]
New == [status |-> "Unknown", failures |-> 0, wait |-> 0, measured |-> FALSE]
NoRecord == [status |-> "none", failures |-> 0, wait |-> 0, measured |-> FALSE]

Init ==
  /\ servers = Defaults
  /\ health = [h \in Hosts |-> IF h \in Range(Defaults) THEN New ELSE NoRecord]
  /\ active_index = 0
  /\ rr_counter = 0

\* active(): the server at the active index, if the list is that long.
Active(h) == active_index \in DOMAIN servers /\ servers[active_index] = h
NoActive == active_index \notin DOMAIN servers

\* The first entry with the host; hosts may be listed twice.
Position(h) == Min({i \in DOMAIN servers : servers[i] = h})

backoff_duration(failures) ==
  CASE failures = 0      -> 0
    [] failures = 1      -> 5
    [] failures = 2      -> 10
    [] failures = 3      -> 30
    [] failures \in 4..9 -> 60
    [] OTHER             -> 300

-----------------------------------------------------------------------------
(* The methods of ServerHealth, through a host; a host without record is skipped *)

Update(h, record) == health' = IF health[h] = NoRecord THEN health ELSE [health EXCEPT ![h] = record]

\* record_failure, ban and disconnect clear the index if it points at the host.
ClearActive(h) == active_index' = IF Active(h) THEN 0 ELSE active_index

\* Whatever the status was, a ban included, the server is Connected now.
RecordSuccess(h) ==
  /\ Update(h, [status |-> "Connected", failures |-> 0, wait |-> 0, measured |-> TRUE])
  /\ active_index' = IF h \in Range(servers) THEN Position(h) ELSE active_index
  /\ UNCHANGED <<servers, rr_counter>>

RecordFailure(h) ==
  /\ LET n == Min({health[h].failures + 1, MaxFailures}) IN
       Update(h, [health[h] EXCEPT !.status = "Failed", !.failures = n,
                                   !.wait = backoff_duration(n)])
  /\ ClearActive(h)
  /\ UNCHANGED <<servers, rr_counter>>

Ban(h) ==
  /\ Update(h, [health[h] EXCEPT !.status = "Banned", !.wait = 0])
  /\ ClearActive(h)
  /\ UNCHANGED <<servers, rr_counter>>

Disconnect_KeepsActive(h) ==
  /\ Update(h, [health[h] EXCEPT !.status = "Disconnected", !.wait = 0])
  /\ UNCHANGED <<servers, active_index, rr_counter>>
Disconnect(h) ==
  /\ Update(h, [health[h] EXCEPT !.status = "Disconnected", !.wait = 0])
  /\ ClearActive(h)
  /\ UNCHANGED <<servers, rr_counter>>

-----------------------------------------------------------------------------
(* The list *)

Add(h) ==
  /\ Len(servers) < MaxServers
  /\ servers' = Append(servers, h)
  /\ health' = [health EXCEPT ![h] = IF @ = NoRecord THEN New ELSE @]
  /\ UNCHANGED <<active_index, rr_counter>>

\* retain: the others, in their order.
Retained(h) ==
  LET kept[i \in 0 .. Len(servers)] ==
        IF i = 0 THEN <<>>
        ELSE IF servers[i] = h THEN kept[i - 1] ELSE Append(kept[i - 1], servers[i])
  IN  kept[Len(servers)]

\* The active index is clamped to the shorter list, not moved with its server.
Remove(h) ==
  /\ servers' = Retained(h)
  /\ health' = [health EXCEPT ![h] = NoRecord]
  /\ active_index' = Min({active_index, Len(servers')})
  /\ UNCHANGED rr_counter

is_eligible(h) ==
  \/ health[h].status \in {"Disconnected", "Unknown", "none"}
  \/ health[h].status = "Failed" /\ health[h].wait = 0

Eligible == {i \in DOMAIN servers : is_eligible(servers[i])}

\* sort_by_key is stable: known latencies first, then the order of the list.
Before(i, j) ==
  LET known(k) == health[servers[k]].measured
  IN  (known(i) /\ ~known(j)) \/ (known(i) = known(j) /\ i < j)

\* sorted[rr % sorted.len()]
Candidate_Clamped(rr) == CHOOSE i \in Eligible :
  Cardinality({j \in Eligible : Before(j, i)}) = Min({rr, Cardinality(Eligible) - 1})
Candidate(rr) == CHOOSE i \in Eligible :
  Cardinality({j \in Eligible : Before(j, i)}) = rr % Cardinality(Eligible)

\* select_best: the counter moves on, even under a shared reference.
SelectBest(h) ==
  /\ Eligible # {}
  /\ rr_counter < MaxSelects
  /\ h = servers[Candidate(rr_counter)]
  /\ rr_counter' = rr_counter + 1
  /\ UNCHANGED <<servers, health, active_index>>

Waiting == {h \in Hosts : health[h].wait > 0}

Tick ==
  /\ Waiting # {}
  /\ LET d == Min({health[h].wait : h \in Waiting}) IN
       health' = [h \in Hosts |-> IF h \in Waiting THEN [health[h] EXCEPT !.wait = @ - d]
                                                   ELSE health[h]]
  /\ UNCHANGED <<servers, active_index, rr_counter>>

Next ==
  \/ \E h \in Hosts :
       \/ RecordSuccess(h) \/ RecordFailure(h) \/ Ban(h) \/ Disconnect(h)
       \/ Add(h) \/ Remove(h) \/ SelectBest(h)
  \/ Tick

Spec == Init /\ [][Next]_vars

-----------------------------------------------------------------------------
(* Properties *)

\* The types; the index never points past the list, whatever is removed.
TypeOK ==
  /\ servers \in Seq(Hosts)
  /\ health \in [Hosts -> ServerHealth \cup {NoRecord}]
  /\ active_index \in 0 .. Len(servers)
  /\ rr_counter \in 0 .. MaxSelects

\* The rotation starves nobody: as many selections in a row as servers are
\* eligible try each of them once, whatever the counter and the latencies.
RotationReachesAll ==
  {Candidate(rr_counter + k) : k \in 0 .. Cardinality(Eligible) - 1} = Eligible
=============================================================================
