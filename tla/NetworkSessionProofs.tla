------------------------ MODULE NetworkSessionProofs ------------------------
(* Theorems about NetworkSession and its server list: the rotation reaches  *)
(* every eligible server, on any list, and however the commands overlap the *)
(* active server, the client and the backend agree.                         *)
EXTENDS MCNetworkSession, FiniteSetTheorems, TLAPS

USE ListAssumption, NoneAssumption

-----------------------------------------------------------------------------
(* Arithmetic of the rotation *)

LEMMA DivMod ==
  ASSUME NEW n \in Nat \ {0}, NEW a \in Nat
  PROVE  a % n \in 0 .. n - 1 /\ a \div n \in Nat /\ a = n * (a \div n) + (a % n)
  OBVIOUS

LEMMA RemainderUnique ==
  ASSUME NEW n \in Nat \ {0}, NEW q \in Nat, NEW r \in 0 .. n - 1
  PROVE  (n * q + r) % n = r
  OBVIOUS

\* n numbers in a row leave every remainder.
LEMMA AllRemainders ==
  ASSUME NEW n \in Nat \ {0}, NEW a \in Nat, NEW r \in 0 .. n - 1
  PROVE  \E k \in 0 .. n - 1 : (a + k) % n = r
<1> DEFINE q == a \div n
           s == a % n
<1>1. s \in 0 .. n - 1 /\ a = n * q + s /\ q \in Nat
  BY DivMod
<1>2. CASE s <= r
  <2>1. a + (r - s) = n * q + r /\ r - s \in 0 .. n - 1
    BY <1>1, <1>2
  <2> QED
    BY <1>1, <2>1, RemainderUnique
<1>3. CASE s > r
  <2>1. a + (n + r - s) = n * (q + 1) + r /\ n + r - s \in 0 .. n - 1 /\ q + 1 \in Nat
    BY <1>1, <1>3
  <2> QED
    BY <2>1, RemainderUnique
<1> QED
  BY <1>1, <1>2, <1>3

\* A set of numbers that is not empty has a least element.
LEMMA Least ==
  ASSUME NEW S \in SUBSET Nat, S # {}
  PROVE  SL!Min(S) \in S /\ \A k \in S : SL!Min(S) <= k
<1> DEFINE less == {p \in Nat \X Nat : p[1] < p[2]}
<1>1. IsWellFoundedOn(less, Nat)
  BY NatLessThanWellFounded DEF OpToRel
<1>2. PICK m \in S : \A k \in S : <<k, m>> \notin less
  BY <1>1, WFMin
<1>3. ASSUME NEW k \in S PROVE m <= k
  <2>1. k \in Nat /\ m \in Nat /\ ~(k < m)
    BY <1>2
  <2> QED
    BY <2>1
<1> QED
  BY <1>3 DEF SL!Min

-----------------------------------------------------------------------------
(* The rotation *)

Eligible == SL!Eligible
Ahead(i) == {j \in Eligible : SL!Before(j, i)}
Rank(i) == Cardinality(Ahead(i))

\* The operators of the list are those of the library.
LEMMA SameOperators ==
  /\ \A S : SL!Cardinality(S) = Cardinality(S)
  /\ \A f : SL!Range(f) = Range(f)
  BY DEF SL!Cardinality, Cardinality, SL!Range, Range

LEMMA EligibleFinite ==
  ASSUME SL!TypeOK
  PROVE  /\ IsFiniteSet(Eligible) /\ Cardinality(Eligible) \in Nat
         /\ Eligible \in SUBSET Nat
         /\ \A i \in Eligible : servers[i] \in Hosts /\ health[servers[i]].measured \in BOOLEAN
<1>1. /\ Eligible \subseteq 1 .. Len(servers) /\ Len(servers) \in Nat
      /\ \A i \in Eligible : servers[i] \in Hosts
  BY DEF SL!TypeOK, Eligible, SL!Eligible
<1>2. IsFiniteSet(Eligible) /\ Cardinality(Eligible) \in Nat
  <2>1. IsFiniteSet(1 .. Len(servers))
    BY <1>1, FS_Interval
  <2> QED
    BY <1>1, <2>1, FS_Subset, FS_CardinalityType
<1>3. \A h \in Hosts : health[h].measured \in BOOLEAN
  <2>1. ASSUME NEW record \in SL!ServerHealth \cup {SL!NoRecord} PROVE record.measured \in BOOLEAN
    <3>1. SL!NoRecord.measured = FALSE
      BY DEF SL!NoRecord
    <3>2. record \in SL!ServerHealth => record.measured \in BOOLEAN
      BY DEF SL!ServerHealth
    <3> QED
      BY <3>1, <3>2
  <2>2. \A h \in Hosts : health[h] \in SL!ServerHealth \cup {SL!NoRecord}
    BY DEF SL!TypeOK
  <2> QED
    BY <2>1, <2>2
<1> QED
  BY <1>1, <1>2, <1>3

\* The order of the rotation is total.
LEMMA BeforeOrder ==
  ASSUME SL!TypeOK
  PROVE  /\ \A i \in Eligible : ~SL!Before(i, i)
         /\ \A i, j \in Eligible : i # j => SL!Before(i, j) \/ SL!Before(j, i)
         /\ \A i, j, k \in Eligible : SL!Before(i, j) /\ SL!Before(j, k) => SL!Before(i, k)
  BY EligibleFinite DEF SL!Before

\* Whoever comes earlier has fewer ahead.
LEMMA RankGrows ==
  ASSUME SL!TypeOK, NEW i \in Eligible, NEW j \in Eligible, SL!Before(i, j)
  PROVE  Rank(i) \in Nat /\ Rank(j) \in Nat /\ Rank(i) < Rank(j)
<1>1. Ahead(i) \subseteq Ahead(j) /\ i \in Ahead(j) /\ i \notin Ahead(i)
  BY BeforeOrder DEF Ahead
<1>2. IsFiniteSet(Ahead(j)) /\ IsFiniteSet(Ahead(i))
  BY EligibleFinite, FS_Subset DEF Ahead
<1>3. /\ Cardinality(Ahead(i)) <= Cardinality(Ahead(j))
      /\ Cardinality(Ahead(i)) # Cardinality(Ahead(j))
  BY <1>1, <1>2, FS_Subset
<1>4. Cardinality(Ahead(i)) \in Nat /\ Cardinality(Ahead(j)) \in Nat
  BY <1>2, FS_CardinalityType
<1> QED
  BY <1>3, <1>4 DEF Rank

\* The ranks of n eligible servers are 0 .. n - 1, each once.
LEMMA RankOntoAll ==
  ASSUME SL!TypeOK
  PROVE  /\ \A i \in Eligible : Rank(i) \in 0 .. Cardinality(Eligible) - 1
         /\ \A i, j \in Eligible : Rank(i) = Rank(j) => i = j
         /\ \A r \in 0 .. Cardinality(Eligible) - 1 : \E i \in Eligible : Rank(i) = r
<1> DEFINE n == Cardinality(Eligible)
           f == [i \in Eligible |-> Rank(i)]
<1>1. ASSUME NEW i \in Eligible PROVE Rank(i) \in 0 .. n - 1
  <2>1. Ahead(i) \subseteq Eligible \ {i}
    BY BeforeOrder DEF Ahead
  <2>2. IsFiniteSet(Eligible \ {i}) /\ Cardinality(Eligible \ {i}) = n - 1
    BY EligibleFinite, FS_RemoveElement
  <2>3. /\ Cardinality(Ahead(i)) <= n - 1 /\ Cardinality(Ahead(i)) \in Nat
    BY <2>1, <2>2, FS_Subset, FS_CardinalityType
  <2> QED
    BY <2>3, EligibleFinite DEF Rank
<1>2. ASSUME NEW i \in Eligible, NEW j \in Eligible, Rank(i) = Rank(j) PROVE i = j
  BY <1>2, BeforeOrder, RankGrows
<1>3. f \in Injection(Eligible, 0 .. n - 1)
  BY <1>1, <1>2 DEF Injection, IsInjective
<1>4. n \in Nat /\ IsFiniteSet(0 .. n - 1) /\ Cardinality(0 .. n - 1) = n
  <2>1. n \in Nat /\ n - 1 \in Int /\ 0 \in Int
    BY EligibleFinite
  <2>2. /\ IsFiniteSet(0 .. n - 1)
        /\ Cardinality(0 .. n - 1) = IF 0 > n - 1 THEN 0 ELSE (n - 1) - 0 + 1
    BY <2>1, FS_Interval
  <2> QED
    BY <2>1, <2>2
<1>5. f \in Surjection(Eligible, 0 .. n - 1)
  BY <1>3, <1>4, FS_Injection
<1>6. \A r \in 0 .. n - 1 : \E i \in Eligible : f[i] = r
  BY <1>5 DEF Surjection
<1> QED
  BY <1>1, <1>2, <1>6

\* The candidate is the eligible server with the rank the counter says.
LEMMA CandidateRank ==
  ASSUME SL!TypeOK, Eligible # {}, NEW rr \in Nat
  PROVE  /\ SL!Candidate(rr) \in Eligible
         /\ Rank(SL!Candidate(rr)) = rr % Cardinality(Eligible)
<1>1. Cardinality(Eligible) \in Nat \ {0}
  BY EligibleFinite, FS_EmptySet
<1>2. PICK i \in Eligible : Rank(i) = rr % Cardinality(Eligible)
  BY <1>1, DivMod, RankOntoAll
<1>3. SL!Candidate(rr) = CHOOSE i_1 \in Eligible : Rank(i_1) = rr % Cardinality(Eligible)
  BY SameOperators DEF SL!Candidate, Rank, Ahead, Eligible
<1> QED
  BY <1>2, <1>3

\* On any list, with any health records and any counter, as many selections in a
\* row as servers are eligible try each of them once: select_best starves none.
THEOREM RotationIsFair == TypeOK => RotationReachesAll
<1> SUFFICES ASSUME TypeOK PROVE SL!RotationReachesAll
  BY DEF RotationReachesAll
<1>t. SL!TypeOK /\ rr_counter \in Nat
  BY DEF TypeOK, SL!TypeOK
<1> DEFINE n == Cardinality(Eligible)
<1>1. SUFFICES {SL!Candidate(rr_counter + k) : k \in 0 .. n - 1} = Eligible
  BY SameOperators DEF SL!RotationReachesAll, Eligible
<1>2. CASE Eligible = {}
  <2>1. n = 0
    BY <1>2, FS_EmptySet
  <2> QED
    BY <1>2, <2>1
<1>3. CASE Eligible # {}
  <2>1. n \in Nat \ {0}
    BY <1>t, <1>3, EligibleFinite, FS_EmptySet
  <2>2. ASSUME NEW i \in Eligible PROVE \E k \in 0 .. n - 1 : i = SL!Candidate(rr_counter + k)
    <3>1. Rank(i) \in 0 .. n - 1
      BY <1>t, RankOntoAll
    <3>2. PICK k \in 0 .. n - 1 : (rr_counter + k) % n = Rank(i)
      BY <1>t, <2>1, <3>1, AllRemainders
    <3>3. /\ SL!Candidate(rr_counter + k) \in Eligible
          /\ Rank(SL!Candidate(rr_counter + k)) = Rank(i)
      BY <1>t, <1>3, <3>2, CandidateRank
    <3> QED
      BY <1>t, <3>3, RankOntoAll
  <2>3. ASSUME NEW k \in 0 .. n - 1 PROVE SL!Candidate(rr_counter + k) \in Eligible
    BY <1>t, <1>3, CandidateRank
  <2> QED
    BY <2>2, <2>3
<1> QED
  BY <1>2, <1>3
-----------------------------------------------------------------------------
(* What the commands do to the list *)

\* A listed host has a first position in the list.
LEMMA PositionListed ==
  ASSUME SL!TypeOK, NEW h \in Range(servers)
  PROVE  h \in Hosts /\ SL!Position(h) \in 1 .. Len(servers) /\ servers[SL!Position(h)] = h
<1> DEFINE S == {i \in DOMAIN servers : servers[i] = h}
<1>1. servers \in Seq(Hosts) /\ DOMAIN servers = 1 .. Len(servers) /\ Len(servers) \in Nat
  BY DEF SL!TypeOK
<1>2. S \in SUBSET Nat /\ S # {}
  BY <1>1 DEF Range
<1>3. SL!Position(h) \in S
  BY <1>2, Least DEF SL!Position
<1> QED
  BY <1>1, <1>3

\* The list as the commands see it: only statuses and the active index change.
ListInv == SL!TypeOK /\ ListKept /\ ActiveIsConnected

\* A host's record stays a record when the list updates it.
LEMMA UpdateKeeps ==
  ASSUME SL!TypeOK, ListKept, NEW h \in Hosts, NEW record, SL!Update(h, record), servers' = servers,
         health[h] \in SL!ServerHealth => record \in SL!ServerHealth
  PROVE  /\ health' \in [Hosts -> SL!ServerHealth \cup {SL!NoRecord}]
         /\ ListKept'
         /\ \A g \in Hosts : g # h => Status(g)' = Status(g)
         /\ h \in Range(servers) => Status(h)' = record.status
<1>1. SL!NoRecord \notin SL!ServerHealth
  BY DEF SL!NoRecord, SL!ServerHealth, SL!Statuses
<1>2. health \in [Hosts -> SL!ServerHealth \cup {SL!NoRecord}]
  BY DEF SL!TypeOK
<1>3. \/ health[h] = SL!NoRecord /\ health' = health
      \/ health[h] \in SL!ServerHealth /\ record \in SL!ServerHealth /\ health' = [health EXCEPT ![h] = record]
  BY <1>2 DEF SL!Update
<1>4. health' \in [Hosts -> SL!ServerHealth \cup {SL!NoRecord}]
  BY <1>2, <1>3
<1>5. \A g \in Hosts : health[g] # SL!NoRecord => health'[g] # SL!NoRecord
  BY <1>1, <1>2, <1>3
<1>6. Range(servers) \subseteq Hosts
  BY PositionListed
<1>7. ListKept'
  BY <1>5, <1>6 DEF ListKept
<1>8. h \in Range(servers) => health' = [health EXCEPT ![h] = record]
  BY <1>3 DEF ListKept
<1> QED
  BY <1>2, <1>3, <1>4, <1>7, <1>8 DEF Status

\* A successful connection makes its server the active one.
LEMMA SuccessKeeps ==
  ASSUME ListInv, NEW h \in Range(servers), SL!RecordSuccess(h)
  PROVE  ListInv' /\ servers' = servers /\ ActiveHost' = h
<1> DEFINE record == [status |-> "Connected", failures |-> 0, wait |-> 0, measured |-> TRUE]
<1>1. SL!TypeOK /\ ListKept /\ h \in Hosts
  BY PositionListed DEF ListInv
<1>2. record \in SL!ServerHealth /\ record.status = "Connected"
  BY DEF SL!ServerHealth, SL!Statuses, SL!MaxFailures
<1>3. servers' = servers /\ rr_counter' = rr_counter /\ SL!Update(h, record) /\ active_index' = SL!Position(h)
  BY SameOperators DEF SL!RecordSuccess
<1>4. /\ health' \in [Hosts -> SL!ServerHealth \cup {SL!NoRecord}] /\ ListKept'
      /\ Status(h)' = "Connected"
  BY <1>1, <1>2, <1>3, UpdateKeeps
<1>5. active_index' \in 1 .. Len(servers) /\ servers[active_index'] = h
  BY <1>1, <1>3, PositionListed
<1>6. SL!TypeOK'
  BY <1>1, <1>3, <1>4, <1>5 DEF SL!TypeOK
<1>7. ActiveIsConnected' /\ ActiveHost' = h
  BY <1>1, <1>3, <1>4, <1>5 DEF ActiveIsConnected, SL!Active, ActiveHost, SL!NoActive, SL!TypeOK
<1> QED
  BY <1>3, <1>4, <1>6, <1>7 DEF ListInv

\* A server that is banned or disconnected is not the active one any more; any
\* other server that was active still is.
LEMMA LossKeeps ==
  ASSUME ListInv, NEW h \in Hosts, SL!Ban(h) \/ SL!Disconnect(h)
  PROVE  ListInv' /\ servers' = servers /\ ActiveHost' \in {None, ActiveHost}
<1>1. PICK status \in {"Banned", "Disconnected"} :
        SL!Update(h, [health[h] EXCEPT !.status = status, !.wait = 0])
  BY DEF SL!Ban, SL!Disconnect
<1> DEFINE record == [health[h] EXCEPT !.status = status, !.wait = 0]
<1>2. SL!TypeOK /\ ListKept
  BY DEF ListInv
<1>3. servers' = servers /\ rr_counter' = rr_counter /\ SL!ClearActive(h)
  BY DEF SL!Ban, SL!Disconnect
<1>4. ASSUME NEW old \in SL!ServerHealth
      PROVE  [old EXCEPT !.status = status, !.wait = 0] \in SL!ServerHealth
  <2>1. 0 \in 0 .. 300 /\ status \in SL!Statuses
    BY DEF SL!Statuses
  <2> QED
    BY <2>1 DEF SL!ServerHealth
<1>5. /\ health' \in [Hosts -> SL!ServerHealth \cup {SL!NoRecord}] /\ ListKept'
      /\ \A g \in Hosts : g # h => Status(g)' = Status(g)
  BY <1>1, <1>2, <1>3, <1>4, UpdateKeeps
<1>6. active_index' \in {0, active_index} /\ (SL!Active(h) => active_index' = 0)
  BY <1>3 DEF SL!ClearActive
<1>7. SL!TypeOK'
  BY <1>2, <1>3, <1>5, <1>6 DEF SL!TypeOK
<1>8. DOMAIN servers = 1 .. Len(servers)
  BY <1>2 DEF SL!TypeOK
<1>9. ActiveIsConnected'
  <2> SUFFICES ASSUME NEW g \in Hosts, SL!Active(g)' PROVE Status(g)' = "Connected"
    BY DEF ActiveIsConnected
  <2>1. SL!Active(g) /\ g # h
    BY <1>3, <1>6, <1>8 DEF SL!Active
  <2> QED
    BY <1>5, <2>1 DEF ListInv, ActiveIsConnected
<1>10. ActiveHost' \in {None, ActiveHost}
  BY <1>3, <1>6, <1>8 DEF ActiveHost, SL!NoActive
<1> QED
  BY <1>3, <1>5, <1>7, <1>9, <1>10 DEF ListInv

\* The server that is tried next is on the list.
LEMMA SelectionKeeps ==
  ASSUME ListInv, NEW h \in Hosts, SL!SelectBest(h)
  PROVE  ListInv' /\ servers' = servers /\ ActiveHost' = ActiveHost /\ h \in Range(servers)
<1>1. /\ SL!TypeOK /\ Eligible # {} /\ h = servers[SL!Candidate(rr_counter)]
      /\ rr_counter' \in 0 .. MaxSelects /\ rr_counter \in Nat
      /\ UNCHANGED <<servers, health, active_index>>
  BY DEF ListInv, SL!SelectBest, SL!TypeOK, Eligible
<1>2. SL!Candidate(rr_counter) \in DOMAIN servers
  BY <1>1, CandidateRank DEF Eligible, SL!Eligible
<1>3. h \in Range(servers)
  BY <1>1, <1>2 DEF Range
<1>4. ListInv'
  BY <1>1 DEF ListInv, SL!TypeOK, ListKept, ActiveIsConnected, SL!Active, Status
<1> QED
  BY <1>1, <1>3, <1>4 DEF ActiveHost, SL!NoActive
-----------------------------------------------------------------------------
(* The session *)

LEMMA InitInv == Init => IInv
<1> SUFFICES ASSUME Init PROVE IInv
  OBVIOUS
<1>1. /\ servers = Defaults /\ active_index = 0 /\ rr_counter = 0
      /\ health = [h \in Hosts |-> IF h \in Range(Defaults) THEN SL!New ELSE SL!NoRecord]
  BY SameOperators DEF Init, SL!Init
<1>2. Range(Defaults) \subseteq Hosts
  BY DEF Range
<1>3. SL!New \in SL!ServerHealth /\ SL!New # SL!NoRecord
  <2>1. 0 \in 0 .. 300 /\ 0 \in 0 .. SL!MaxFailures
    BY DEF SL!MaxFailures
  <2>2. SL!New \in SL!ServerHealth
    BY <2>1 DEF SL!New, SL!ServerHealth, SL!Statuses
  <2>3. SL!New.status # SL!NoRecord.status
    BY DEF SL!New, SL!NoRecord
  <2> QED
    BY <2>2, <2>3
<1>4. SL!TypeOK /\ ListKept
  BY <1>1, <1>2, <1>3 DEF SL!TypeOK, ListKept
<1>5. TypeOK
  BY <1>4 DEF Init, TypeOK, PCs, Nothing
<1> QED
  BY <1>1, <1>4, <1>5 DEF Init, IInv, ConnectsToListed, ActiveIsConnected, SL!Active, ClientServesActive,
     OneBackendServes

\* The parts of the session besides the list.
SessionInv == /\ TypeOK /\ ConnectsToListed
              /\ ClientServesActive /\ OneBackendServes

LEMMA InvParts == IInv <=> ListInv /\ SessionInv
  BY DEF IInv, ListInv, SessionInv, TypeOK

\* Steps that leave the list alone keep what is said of it.
LEMMA QuietList ==
  ASSUME ListInv, UNCHANGED list
  PROVE  ListInv' /\ ActiveHost' = ActiveHost /\ servers' = servers
  BY DEF list, ListInv, SL!TypeOK, ListKept, ActiveIsConnected, SL!Active, Status, ActiveHost, SL!NoActive

Shown == /\ Range(servers) \subseteq Hosts
         /\ ActiveHost \in Hosts \cup {None} /\ (SL!NoActive <=> ActiveHost = None)

\* The active server is a host, or there is none.
LEMMA ActiveHostType == ListInv => Shown
<1> SUFFICES ASSUME ListInv PROVE Shown
  OBVIOUS
<1>1. servers \in Seq(Hosts) /\ DOMAIN servers = 1 .. Len(servers)
  BY DEF ListInv, SL!TypeOK
<1>2. \A i \in DOMAIN servers : servers[i] \in Hosts
  BY <1>1
<1> QED
  BY <1>1, <1>2 DEF Shown, ActiveHost, SL!NoActive, Range

LEMMA NextInv == IInv /\ [Next]_vars => IInv'
<1> SUFFICES ASSUME ListInv, SessionInv, [Next]_vars PROVE ListInv' /\ SessionInv'
  BY InvParts, PTL
<1> DEFINE Locals == [host : Hosts \cup {None}, client : Clients \cup {None}, woc : BOOLEAN]
<1>s. Shown /\ (ListInv' => Shown')
  BY ActiveHostType, PTL
<1> USE DEF Shown, ClientServesActive, OneBackendServes, ConnectsToListed, SessionInv, PCs
<1>t. /\ SL!TypeOK /\ connected \in BOOLEAN /\ woc_client \in BOOLEAN
      /\ client \in Clients \cup {None}
      /\ active_backend \in {None, "ElectrumX", "WhatsOnChain"}
      /\ host_of \in [Clients -> Hosts \cup {None}]
      /\ live \subseteq {c \in Clients : host_of[c] # None}
      /\ pc \in [Tasks -> PCs]
      /\ taken \in [Tasks -> Locals]
  BY DEF TypeOK
<1>c. client # None /\ ActiveHost # None => host_of[client] = ActiveHost
  BY <1>s
<1>n. /\ Nothing \in Locals
      /\ \A x \in Hosts \cup {None} : [Nothing EXCEPT !.host = x] \in Locals
      /\ \A x : [Nothing EXCEPT !.host = x].host = x
      /\ \A x \in Hosts \cup {None}, c \in Clients \cup {None}, w \in BOOLEAN :
           [host |-> x, client |-> c, woc |-> w] \in Locals
  BY DEF Nothing
<1>q. UNCHANGED list => ListInv' /\ ActiveHost' = ActiveHost /\ servers' = servers /\ SL!TypeOK'
  BY QuietList DEF ListInv
<1> HIDE DEF Locals
<1>1. ASSUME NEW t \in Tasks, NEW h \in Hosts, ConnectTo(t, h) PROVE ListInv' /\ SessionInv'
  <2>1. TypeOK'
    BY <1>1, <1>s, <1>t, <1>n, <1>q DEF ConnectTo, Begin, backend, wires, TypeOK, Locals
  <2> QED
    BY <1>1, <1>s, <1>t, <1>n, <1>q, <2>1 DEF ConnectTo, Begin, backend, wires
<1>2. ASSUME NEW t \in Tasks, ConnectBest(t) PROVE ListInv' /\ SessionInv'
  <2>1. PICK h \in Hosts : SL!SelectBest(h) /\ Begin(t, "connecting", [Nothing EXCEPT !.host = h])
    BY <1>2 DEF ConnectBest
  <2>2. /\ ListInv' /\ SL!TypeOK' /\ servers' = servers /\ ActiveHost' = ActiveHost
        /\ h \in Range(servers)
    BY <2>1, SelectionKeeps DEF ListInv
  <2>3. TypeOK'
    BY <1>2, <1>s, <1>t, <1>n, <2>1, <2>2 DEF ConnectBest, Begin, backend, wires, TypeOK, Locals
  <2> QED
    BY <1>2, <1>s, <1>t, <1>n, <2>1, <2>2, <2>3 DEF ConnectBest, Begin, backend, wires
<1>3. ASSUME NEW t \in Tasks, ConnectDone(t) PROVE ListInv' /\ SessionInv'
  <2> DEFINE h == taken[t].host
  <2>1. h \in Range(servers) /\ h \in Hosts /\ h # None
    BY <1>s, <1>3 DEF ConnectDone
  <2>2. ListInv' /\ SL!TypeOK' /\ servers' = servers /\ ActiveHost' = h
    BY <1>3, <2>1, SuccessKeeps DEF ConnectDone, ListInv
  <2>3. PICK c \in Clients : /\ host_of' = [host_of EXCEPT ![c] = h]
                             /\ live' = live \cup {c} /\ client' = c
    BY <1>3 DEF ConnectDone
  <2>4. TypeOK'
    BY <1>3, <1>s, <1>t, <1>n, <2>1, <2>2, <2>3 DEF ConnectDone, Return, TypeOK, Locals
  <2> QED
    BY <1>3, <1>s, <1>t, <1>n, <2>2, <2>3, <2>4 DEF ConnectDone, Return
<1>4. ASSUME NEW t \in Tasks, ConnectFailed(t) PROVE ListInv' /\ SessionInv'
  <2> DEFINE h == taken[t].host
  <2>1. h \in Hosts /\ h # None
    BY <1>s, <1>4 DEF ConnectFailed
  <2>2. \/ host_of' = host_of /\ live' = live
        \/ \E c \in Clients : /\ host_of[c] = None /\ host_of' = [host_of EXCEPT ![c] = h]
                               /\ live' = live \cup {c}
    BY <1>4 DEF ConnectFailed, wires
  <2>3. /\ host_of' \in [Clients -> Hosts \cup {None}]
        /\ live' \subseteq {c \in Clients : host_of'[c] # None}
        /\ \A c \in Clients : host_of[c] # None => host_of'[c] = host_of[c]
    BY <1>s, <1>t, <2>1, <2>2
  <2>4. TypeOK'
    BY <1>4, <1>s, <1>t, <1>n, <1>q, <2>3 DEF ConnectFailed, Return, backend, TypeOK, Locals
  <2> QED
    BY <1>4, <1>s, <1>t, <1>n, <1>q, <2>3, <2>4 DEF ConnectFailed, Return, backend
<1>5. ASSUME NEW t \in Tasks, DisconnectStart(t) PROVE ListInv' /\ SessionInv'
  <2>1. TypeOK'
    BY <1>5, <1>s, <1>t, <1>n, <1>q DEF DisconnectStart, Begin, wires, TypeOK, Locals
  <2> QED
    BY <1>5, <1>s, <1>t, <1>n, <1>q, <2>1 DEF DisconnectStart, Begin, wires
<1>6. ASSUME NEW t \in Tasks, DisconnectDone(t) PROVE ListInv' /\ SessionInv'
  <2>1. taken[t].host \in Hosts \cup {None}
    BY <1>t DEF Locals
  <2>2. ListInv' /\ SL!TypeOK' /\ servers' = servers /\ ActiveHost' \in {None, ActiveHost}
    BY <1>6, <1>q, <2>1, LossKeeps DEF DisconnectDone, ListInv
  <2>3. TypeOK'
    BY <1>6, <1>s, <1>t, <1>n, <2>2 DEF DisconnectDone, Return, TypeOK, Locals
  <2> QED
    BY <1>6, <1>s, <1>t, <1>n, <2>2, <2>3 DEF DisconnectDone, Return
<1>7. CASE ToElectrumX
  <2>1. TypeOK'
    BY <1>7, <1>s, <1>t, <1>q DEF ToElectrumX, wires, local, TypeOK, Locals
  <2> QED
    BY <1>7, <1>s, <1>t, <1>q, <2>1 DEF ToElectrumX, wires, local
<1>8. ASSUME NEW t \in Tasks, WocPing(t) PROVE ListInv' /\ SessionInv'
  <2>1. TypeOK'
    BY <1>8, <1>s, <1>t, <1>n, <1>q DEF WocPing, Begin, backend, wires, TypeOK, Locals
  <2> QED
    BY <1>8, <1>s, <1>t, <1>n, <1>q, <2>1 DEF WocPing, Begin, backend, wires
<1>9. ASSUME NEW t \in Tasks, WocReady(t) PROVE ListInv' /\ SessionInv'
  <2>1. TypeOK'
    BY <1>9, <1>s, <1>t, <1>n, <1>q DEF WocReady, Return, wires, TypeOK, Locals
  <2> QED
    BY <1>9, <1>s, <1>t, <1>n, <1>q, <2>1 DEF WocReady, Return, wires
<1>10. ASSUME NEW t \in Tasks, WocFailed(t) PROVE ListInv' /\ SessionInv'
  <2>1. TypeOK'
    BY <1>10, <1>s, <1>t, <1>n, <1>q DEF WocFailed, Return, backend, wires, TypeOK, Locals
  <2> QED
    BY <1>10, <1>s, <1>t, <1>n, <1>q, <2>1 DEF WocFailed, Return, backend, wires
<1>11. ASSUME NEW h \in Hosts, BanServer(h) PROVE ListInv' /\ SessionInv'
  <2>1. ListInv' /\ SL!TypeOK' /\ servers' = servers /\ ActiveHost' \in {None, ActiveHost}
    BY <1>11, LossKeeps DEF BanServer, ListInv
  <2>2. TypeOK'
    BY <1>11, <1>s, <1>t, <2>1 DEF BanServer, wires, local, TypeOK, Locals
  <2> QED
    BY <1>11, <1>s, <1>t, <2>1, <2>2 DEF BanServer, wires, local
<1>12. ASSUME NEW c \in Clients, ServerCloses(c) PROVE ListInv' /\ SessionInv'
  <2>1. TypeOK'
    BY <1>12, <1>s, <1>t, <1>q DEF ServerCloses, backend, local, TypeOK, Locals
  <2> QED
    BY <1>12, <1>s, <1>t, <1>q, <2>1 DEF ServerCloses, backend, local
<1>13. CASE UNCHANGED vars
  <2>1. TypeOK'
    BY <1>13, <1>s, <1>t, <1>q DEF vars, backend, wires, local, TypeOK, Locals
  <2> QED
    BY <1>13, <1>s, <1>t, <1>q, <2>1 DEF vars, backend, wires, local
<1> QED
  BY <1>1, <1>2, <1>3, <1>4, <1>5, <1>6, <1>7, <1>8, <1>9, <1>10, <1>11, <1>12, <1>13 DEF Next, Command

-----------------------------------------------------------------------------
(* The commands over it *)

\* Whatever connects, disconnects, bans and switches overlap, the list keeps its
\* records, whoever connects connects to a listed server, and the session agrees.
THEOREM Invariant == Spec => []IInv
<1> QED
  BY InitInv, NextInv, PTL DEF Spec

-----------------------------------------------------------------------------
(* What the other methods do to the list *)

\* Removing a server leaves a list of hosts: the recursion of retain has a value
\* at each place, or there would be a first at which it has none.
LEMMA RetainedList ==
  ASSUME SL!TypeOK, NEW h
  PROVE  SL!Retained(h) \in Seq(Hosts)
<1> DEFINE D == 0 .. Len(servers)
           Next1(f, i) == IF i = 0 THEN <<>>
                          ELSE IF servers[i] = h THEN f[i - 1] ELSE Append(f[i - 1], servers[i])
           Until(n) == \E f \in [0 .. n -> Seq(Hosts)] : \A i \in 0 .. n : f[i] = Next1(f, i)
           Bad == {n \in D : ~Until(n)}
<1>1. servers \in Seq(Hosts) /\ Len(servers) \in Nat
  BY DEF SL!TypeOK
<1>2. Until(0)
  <2> DEFINE g == [i \in 0 .. 0 |-> <<>>]
  <2>1. g \in [0 .. 0 -> Seq(Hosts)] /\ \A i \in 0 .. 0 : i = 0 /\ g[i] = <<>>
    OBVIOUS
  <2> HIDE DEF g
  <2>2. \A i \in 0 .. 0 : g[i] = Next1(g, i)
    BY <2>1
  <2> QED
    BY <2>1, <2>2
<1>3. ASSUME NEW n \in D, n # 0, Until(n - 1) PROVE Until(n)
  <2>1. PICK g \in [0 .. n - 1 -> Seq(Hosts)] : \A i \in 0 .. n - 1 : g[i] = Next1(g, i)
    BY <1>3
  <2> DEFINE f == [i \in 0 .. n |-> IF i = n THEN Next1(g, n) ELSE g[i]]
  <2>2. Next1(g, n) \in Seq(Hosts)
    BY <1>1, <1>3, <2>1
  <2> HIDE DEF Next1
  <2>3. f \in [0 .. n -> Seq(Hosts)] /\ f[n] = Next1(g, n) /\ \A i \in 0 .. n - 1 : f[i] = g[i]
    BY <1>1, <2>1, <2>2
  <2> HIDE DEF f
  <2>4. \A i \in 0 .. n : f[i] = Next1(f, i)
    <3> SUFFICES ASSUME NEW i \in 0 .. n PROVE f[i] = Next1(f, i)
      OBVIOUS
    <3>1. i # 0 => f[i - 1] = g[i - 1]
      BY <1>1, <2>3
    <3>2. Next1(f, i) = Next1(g, i)
      BY <3>1 DEF Next1
    <3>3. i # n => i \in 0 .. n - 1
      BY <1>1
    <3> QED
      BY <2>1, <2>3, <3>2, <3>3
  <2> QED
    BY <2>3, <2>4
<1> HIDE DEF Until
<1>4. Bad = {}
  <2> SUFFICES ASSUME Bad # {} PROVE FALSE
    OBVIOUS
  <2>1. Bad \in SUBSET Nat
    BY <1>1
  <2>2. PICK n \in Bad : \A k \in Bad : n <= k
    BY <2>1, Least
  <2>3. n # 0 /\ n \in D /\ n - 1 \in D /\ n - 1 \notin Bad
    BY <1>1, <1>2, <2>2
  <2> QED
    BY <1>3, <2>2, <2>3
<1>5. Until(Len(servers))
  BY <1>1, <1>4
<1>6. PICK f \in [D -> Seq(Hosts)] : \A i \in D : f[i] = Next1(f, i)
  BY <1>5, Zenon DEF Until
<1> DEFINE kept == CHOOSE g : g = [i \in D |-> Next1(g, i)]
<1>7. f = [i \in D |-> Next1(f, i)]
  <2> HIDE DEF Next1
  <2> QED
    BY <1>6
<1>8. kept = [i \in D |-> Next1(kept, i)]
  BY <1>7, Zenon
<1>9. SL!Retained(h) = kept[Len(servers)]
  BY DEF SL!Retained
<1> HIDE DEF kept
<1>10. DOMAIN kept = D /\ \A i \in D : kept[i] = Next1(kept, i)
  BY <1>8
<1> DEFINE Wrong == {n \in D : kept[n] \notin Seq(Hosts)}
<1>11. Wrong = {}
  <2> SUFFICES ASSUME Wrong # {} PROVE FALSE
    OBVIOUS
  <2>1. Wrong \in SUBSET Nat
    BY <1>1
  <2>2. PICK n \in Wrong : \A k \in Wrong : n <= k
    BY <2>1, Least
  <2>3. n # 0 => n - 1 \in D /\ kept[n - 1] \in Seq(Hosts)
    BY <1>1, <2>2
  <2>4. n # 0 => servers[n] \in Hosts
    BY <1>1, <2>2
  <2>5. kept[n] = Next1(kept, n) /\ kept[n] \notin Seq(Hosts)
    BY <1>10, <2>2
  <2>6. n # 0 => Append(kept[n - 1], servers[n]) \in Seq(Hosts)
    BY <2>3, <2>4
  <2>7. <<>> \in Seq(Hosts)
    OBVIOUS
  <2> QED
    BY <2>3, <2>5, <2>6, <2>7
<1> QED
  BY <1>1, <1>9, <1>11

\* The seconds of a backoff; the least of two numbers.
LEMMA BackoffSeconds ==
  ASSUME NEW n \in 0 .. SL!MaxFailures
  PROVE  SL!backoff_duration(n) \in 0 .. 300
  BY DEF SL!backoff_duration, SL!MaxFailures

LEMMA LesserOf ==
  ASSUME NEW a \in Nat, NEW b \in Nat
  PROVE  SL!Min({a, b}) \in Nat /\ SL!Min({a, b}) <= a /\ SL!Min({a, b}) <= b
<1>1. {a, b} \in SUBSET Nat /\ {a, b} # {}
  OBVIOUS
<1> QED
  BY <1>1, Least

\* An update replaces the record of a server that has one.
LEMMA UpdateTypes ==
  ASSUME SL!TypeOK, NEW h \in Hosts, NEW record, SL!Update(h, record),
         health[h] \in SL!ServerHealth => record \in SL!ServerHealth
  PROVE  health' \in [Hosts -> SL!ServerHealth \cup {SL!NoRecord}]
<1>1. health \in [Hosts -> SL!ServerHealth \cup {SL!NoRecord}]
  BY DEF SL!TypeOK
<1> QED
  BY <1>1 DEF SL!Update

\* A failure counts up to MaxFailures and sets the time to wait.
LEMMA FailureTypes ==
  ASSUME SL!TypeOK, NEW h \in Hosts, SL!RecordFailure(h)
  PROVE  health' \in [Hosts -> SL!ServerHealth \cup {SL!NoRecord}]
<1> DEFINE n == SL!Min({health[h].failures + 1, SL!MaxFailures})
           record == [health[h] EXCEPT !.status = "Failed", !.failures = n,
                                       !.wait = SL!backoff_duration(n)]
<1>1. SL!Update(h, record)
  BY SameOperators DEF SL!RecordFailure
<1>2. ASSUME health[h] \in SL!ServerHealth PROVE record \in SL!ServerHealth
  <2>1. health[h].failures + 1 \in Nat /\ SL!MaxFailures \in Nat
    BY <1>2 DEF SL!ServerHealth, SL!MaxFailures
  <2>2. n \in 0 .. SL!MaxFailures
    BY <2>1, LesserOf
  <2>3. SL!backoff_duration(n) \in 0 .. 300
    BY <2>2, BackoffSeconds
  <2> HIDE DEF n
  <2>4. \A wait \in 0 .. 300 :
          [health[h] EXCEPT !.status = "Failed", !.failures = n, !.wait = wait] \in SL!ServerHealth
    BY <1>2, <2>2 DEF SL!ServerHealth, SL!Statuses
  <2> QED
    BY <2>3, <2>4
<1> QED
  BY <1>1, <1>2, UpdateTypes

\* Time runs to the end of the shortest wait.
LEMMA TickTypes ==
  ASSUME SL!TypeOK, SL!Tick
  PROVE  health' \in [Hosts -> SL!ServerHealth \cup {SL!NoRecord}]
<1>1. health \in [Hosts -> SL!ServerHealth \cup {SL!NoRecord}]
  BY DEF SL!TypeOK
<1>2. \A h \in SL!Waiting : h \in Hosts /\ health[h] \in SL!ServerHealth /\ health[h].wait \in 0 .. 300
  <2>1. ~(SL!NoRecord.wait > 0)
    BY DEF SL!NoRecord
  <2>2. \A h \in SL!Waiting : h \in Hosts /\ health[h].wait > 0
    BY DEF SL!Waiting
  <2>3. \A h \in SL!Waiting : health[h] \in SL!ServerHealth
    BY <1>1, <2>1, <2>2
  <2> SUFFICES ASSUME NEW h \in SL!Waiting
               PROVE  h \in Hosts /\ health[h] \in SL!ServerHealth /\ health[h].wait \in 0 .. 300
    OBVIOUS
  <2>4. health[h].wait \in 0 .. 300
    BY <2>3 DEF SL!ServerHealth
  <2> QED
    BY <2>2, <2>3, <2>4
<1> DEFINE waits == {health[h].wait : h \in SL!Waiting}
           d == SL!Min(waits)
<1>3. waits \in SUBSET Nat /\ waits # {}
  <2>1. \A n \in 0 .. 300 : n \in Nat
    OBVIOUS
  <2>2. SL!Waiting # {}
    BY DEF SL!Tick
  <2>3. \A h \in SL!Waiting : health[h].wait \in Nat
    BY <1>2, <2>1
  <2> QED
    BY <2>2, <2>3
<1>4. d \in waits /\ \A k \in waits : d <= k
  BY <1>3, Least, Zenon
<1> HIDE DEF d
<1>5. d \in Nat /\ \A h \in SL!Waiting : d <= health[h].wait
  BY <1>3, <1>4
<1>6. \A h \in SL!Waiting : [health[h] EXCEPT !.wait = @ - d] \in SL!ServerHealth
  <2> SUFFICES ASSUME NEW h \in SL!Waiting
               PROVE  [health[h] EXCEPT !.wait = @ - d] \in SL!ServerHealth
    OBVIOUS
  <2>1. health[h] \in SL!ServerHealth /\ d <= health[h].wait /\ health[h].wait \in 0 .. 300
    BY <1>2, <1>5, ZenonT(30)
  <2>2. health[h].wait - d \in 0 .. 300
    <3>1. \A n \in 0 .. 300 : d <= n => n - d \in 0 .. 300
      BY <1>5
    <3> QED
      BY <2>1, <3>1, Zenon
  <2>3. \A wait \in 0 .. 300 : [health[h] EXCEPT !.wait = wait] \in SL!ServerHealth
    BY <2>1 DEF SL!ServerHealth
  <2> QED
    BY <2>2, <2>3, Zenon
<1>7. health' = [h \in Hosts |-> IF h \in SL!Waiting THEN [health[h] EXCEPT !.wait = @ - d] ELSE health[h]]
  BY SameOperators DEF SL!Tick, d
<1> QED
  BY <1>1, <1>6, <1>7

\* Every method leaves a list whose index does not point past its end.
LEMMA ListTypes ==
  ASSUME SL!TypeOK, SL!Next
  PROVE  SL!TypeOK'
<1>t. /\ servers \in Seq(Hosts) /\ Len(servers) \in Nat
      /\ health \in [Hosts -> SL!ServerHealth \cup {SL!NoRecord}]
      /\ active_index \in 0 .. Len(servers) /\ rr_counter \in 0 .. MaxSelects
  BY DEF SL!TypeOK
<1>p. \A h \in Hosts : h \in Range(servers) => SL!Position(h) \in 1 .. Len(servers)
  BY PositionListed
<1>1. ASSUME NEW h \in Hosts, SL!RecordSuccess(h) PROVE SL!TypeOK'
  <2> DEFINE record == [status |-> "Connected", failures |-> 0, wait |-> 0, measured |-> TRUE]
  <2>1. record \in SL!ServerHealth
    BY DEF SL!ServerHealth, SL!Statuses, SL!MaxFailures
  <2>2. SL!Update(h, record)
    BY <1>1 DEF SL!RecordSuccess
  <2>3. health' \in [Hosts -> SL!ServerHealth \cup {SL!NoRecord}]
    BY <2>1, <2>2, UpdateTypes
  <2>4. servers' = servers /\ rr_counter' = rr_counter
        /\ active_index' = IF h \in Range(servers) THEN SL!Position(h) ELSE active_index
    BY <1>1, SameOperators DEF SL!RecordSuccess
  <2> QED
    BY <1>t, <1>p, <2>3, <2>4 DEF SL!TypeOK
<1>2. ASSUME NEW h \in Hosts, SL!RecordFailure(h) PROVE SL!TypeOK'
  <2>1. servers' = servers /\ rr_counter' = rr_counter /\ active_index' \in {0, active_index}
    BY <1>2 DEF SL!RecordFailure, SL!ClearActive
  <2> QED
    BY <1>t, <1>2, <2>1, FailureTypes DEF SL!TypeOK
<1>3. ASSUME NEW h \in Hosts, SL!Ban(h) \/ SL!Disconnect(h) PROVE SL!TypeOK'
  <2>1. PICK status \in {"Banned", "Disconnected"} :
          SL!Update(h, [health[h] EXCEPT !.status = status, !.wait = 0])
    BY <1>3 DEF SL!Ban, SL!Disconnect
  <2>2. ASSUME NEW old \in SL!ServerHealth
        PROVE  [old EXCEPT !.status = status, !.wait = 0] \in SL!ServerHealth
    <3>1. 0 \in 0 .. 300 /\ status \in SL!Statuses
      BY DEF SL!Statuses
    <3> QED
      BY <3>1 DEF SL!ServerHealth
  <2>3. health' \in [Hosts -> SL!ServerHealth \cup {SL!NoRecord}]
    BY <2>1, <2>2, UpdateTypes
  <2>4. servers' = servers /\ rr_counter' = rr_counter /\ active_index' \in {0, active_index}
    BY <1>3 DEF SL!Ban, SL!Disconnect, SL!ClearActive
  <2> QED
    BY <1>t, <2>3, <2>4 DEF SL!TypeOK
<1>4. ASSUME NEW h \in Hosts, SL!Add(h) PROVE SL!TypeOK'
  <2>1. SL!New \in SL!ServerHealth
    BY DEF SL!New, SL!ServerHealth, SL!Statuses, SL!MaxFailures
  <2>2. health' \in [Hosts -> SL!ServerHealth \cup {SL!NoRecord}]
    BY <1>t, <1>4, <2>1 DEF SL!Add
  <2>3. servers' \in Seq(Hosts) /\ Len(servers') = Len(servers) + 1
    BY <1>t, <1>4 DEF SL!Add
  <2>4. active_index' = active_index /\ rr_counter' = rr_counter
    BY <1>4 DEF SL!Add
  <2> QED
    BY <1>t, <2>2, <2>3, <2>4 DEF SL!TypeOK
<1>5. ASSUME NEW h \in Hosts, SL!Remove(h) PROVE SL!TypeOK'
  <2>1. health' \in [Hosts -> SL!ServerHealth \cup {SL!NoRecord}]
    BY <1>t, <1>5 DEF SL!Remove
  <2>2. servers' \in Seq(Hosts) /\ Len(servers') \in Nat
    BY <1>5, RetainedList DEF SL!Remove
  <2>3. active_index' = SL!Min({active_index, Len(servers')}) /\ rr_counter' = rr_counter
    BY <1>5, SameOperators DEF SL!Remove
  <2>4. active_index' \in 0 .. Len(servers')
    BY <1>t, <2>2, <2>3, LesserOf
  <2> QED
    BY <1>t, <2>1, <2>2, <2>3, <2>4 DEF SL!TypeOK
<1>6. ASSUME NEW h \in Hosts, SL!SelectBest(h) PROVE SL!TypeOK'
  <2>1. rr_counter' \in 0 .. MaxSelects
    BY <1>t, <1>6, ListAssumption DEF SL!SelectBest
  <2> QED
    BY <1>t, <1>6, <2>1 DEF SL!SelectBest, SL!TypeOK
<1>7. ASSUME SL!Tick PROVE SL!TypeOK'
  <2>1. UNCHANGED <<servers, active_index, rr_counter>>
    BY <1>7 DEF SL!Tick
  <2> QED
    BY <1>t, <1>7, <2>1, TickTypes DEF SL!TypeOK
<1> QED
  BY <1>1, <1>2, <1>3, <1>4, <1>5, <1>6, <1>7 DEF SL!Next

-----------------------------------------------------------------------------
(* Both scopes *)

\* What holds of the list alone, and of the session over it.
ScopesInv == /\ scope = "commands" => IInv
             /\ scope = "list" => TypeOK /\ client = None /\ active_backend = None
             /\ scope \in {"commands", "list"}

\* The commands and the methods of the list keep their invariants apart.
THEOREM InvariantOfBoth == MCSpec => []ScopesInv
<1>1. MCInit => ScopesInv
  BY InitInv DEF MCInit, ScopesInv, Init, IInv
<1>2. ScopesInv /\ [MCNext]_<<vars, scope>> => ScopesInv'
  <2> SUFFICES ASSUME ScopesInv, [MCNext]_<<vars, scope>> PROVE ScopesInv'
    OBVIOUS
  <2>1. CASE scope = "commands" /\ [Next]_vars /\ scope' = scope
    BY <2>1, NextInv DEF ScopesInv
  <2>2. CASE scope = "list" /\ SL!Next /\ UNCHANGED <<backend, wires, local>> /\ scope' = scope
    <3>1. SL!TypeOK'
      BY <2>2, ListTypes DEF ScopesInv, TypeOK
    <3> QED
      BY <2>2, <3>1 DEF ScopesInv, TypeOK, backend, wires, local
  <2>3. CASE scope = "list" /\ UNCHANGED <<vars, scope>>
    BY <2>3 DEF ScopesInv, TypeOK, SL!TypeOK, vars, list, backend, wires, local
  <2> QED
    BY <2>1, <2>2, <2>3 DEF MCNext, ScopesInv
<1> QED
  BY <1>1, <1>2, PTL DEF MCSpec

\* For any servers and list, however its methods are called: as many selections
\* in a row as servers are eligible try each of them once.
THEOREM RotationStarvesNobody == MCSpec => []RotationReachesAll
<1>1. ScopesInv => RotationReachesAll
  BY RotationIsFair DEF ScopesInv, IInv
<1> QED
  BY <1>1, InvariantOfBoth, PTL

\* For any servers, clients and number of overlapping commands: the server shown
\* as active is Connected, the client is that server's, and one backend serves.
THEOREM SessionAgrees == MCSpec => []PeersAgree
<1>1. ScopesInv => PeersAgree
  BY DEF ScopesInv, IInv, PeersAgree, ActiveStaysConnected, ClientServesActive, OneBackendServes
<1> QED
  BY <1>1, InvariantOfBoth, PTL
=============================================================================
