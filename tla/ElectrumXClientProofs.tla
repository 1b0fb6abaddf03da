----------------------- MODULE ElectrumXClientProofs -----------------------
(* Theorems about ElectrumXClient: the table of pending requests and the    *)
(* callers fit together, for any number of commands and requests.           *)
EXTENDS ElectrumXClient, FiniteSetTheorems, TLAPS

USE ConnectorAssumption, AnswersAssumption, BoundAssumption

-----------------------------------------------------------------------------
(* The callers about to take an id *)

\* They are finitely many, as the tasks are: their number is a natural number.
LEMMA ReadyFinite == IsFiniteSet(Ready) /\ Cardinality(Ready) \in Nat
<1>1. Ready \subseteq Tasks
  BY DEF Ready
<1> QED
  BY <1>1, FS_Subset, FS_CardinalityType

\* A caller that becomes ready is one more.
LEMMA ReadyEnters ==
  ASSUME pc \in [Tasks -> PCs], NEW t \in Tasks, pc[t] # "ready", Goto(t, "ready")
  PROVE  Cardinality(Ready') = Cardinality(Ready) + 1
<1>1. Ready' = Ready \cup {t} /\ t \notin Ready
  BY DEF Ready, Goto
<1> QED
  BY <1>1, ReadyFinite, FS_AddElement

\* A ready caller that goes on is one less.
LEMMA ReadyLeaves ==
  ASSUME pc \in [Tasks -> PCs], NEW t \in Tasks, NEW l \in PCs, pc[t] = "ready", l # "ready",
         Goto(t, l)
  PROVE  /\ Cardinality(Ready') = Cardinality(Ready) - 1
         /\ Cardinality(Ready) >= 1
<1>1. Ready' = Ready \ {t} /\ t \in Ready
  BY DEF Ready, Goto
<1>2. Cardinality(Ready') = Cardinality(Ready) - 1
  BY <1>1, ReadyFinite, FS_RemoveElement
<1>3. Ready # {}
  BY <1>1
<1> QED
  BY <1>2, <1>3, ReadyFinite, FS_EmptySet

\* Steps between other points leave their number alone.
LEMMA ReadySame ==
  ASSUME pc \in [Tasks -> PCs], NEW t \in Tasks, NEW l \in PCs, pc[t] # "ready", l # "ready",
         Goto(t, l)
  PROVE  Ready' = Ready
  BY DEF Ready, Goto

-----------------------------------------------------------------------------
(* Initially *)

LEMMA InitInv == Init => TypeOK /\ IInv
<1> SUFFICES ASSUME Init PROVE TypeOK /\ IInv
  OBVIOUS
<1>1. TypeOK
  <2>1. MaxId \in Nat /\ MaxId >= 1
    OBVIOUS
  <2>2. next_id \in 1 .. MaxId + 1 /\ id \in [Tasks -> 0 .. next_id - 1]
    BY <2>1 DEF Init
  <2>3. sent \in 0 .. MaxNotes /\ seen \in 0 .. sent
    BY DEF Init
  <2> QED
    BY <2>2, <2>3 DEF Init, TypeOK, PCs, Ids, Answers
<1>2. Ready = {}
  BY DEF Init, Ready
<1>3. Cardinality(Ready) = 0
  BY <1>2, FS_EmptySet
<1> QED
  BY <1>1, <1>3 DEF Init, IInv, DialInv, IdInv, Numbered, AskedInv, SlotInv, OwnAnswer, NoOrphans, Ids

-----------------------------------------------------------------------------
(* Types *)

\* The senders resolved leave an answer, or nothing, in the channels.
LEMMA ResolvedType ==
  ASSUME TypeOK, NEW S, NEW a \in Answers \cup {"closed"}
  PROVE  Resolved(S, a) \in [Tasks -> Answers \cup {None, "closed"}]
  BY DEF TypeOK, Resolved

\* Whoever waits has one of the ids the table has room for.
LEMMA NumberedId ==
  ASSUME TypeOK, IdInv, NEW t \in Numbered
  PROVE  id[t] \in Ids /\ id[t] < next_id
<1>1. t \in Tasks /\ id[t] \in 0 .. next_id - 1 /\ id[t] # 0
  BY DEF TypeOK, IdInv, Numbered
<1> QED
  BY <1>1 DEF TypeOK, Ids

\* There is an id for a caller that is ready to take one.
LEMMA RoomForReady ==
  ASSUME TypeOK, IdInv, NEW t \in Tasks, pc[t] = "ready"
  PROVE  next_id \in Ids
<1>1. Ready # {}
  BY DEF Ready
<1>2. Cardinality(Ready) >= 1
  BY <1>1, ReadyFinite, FS_EmptySet
<1> QED
  BY <1>2, ReadyFinite DEF TypeOK, IdInv, Ids

LEMMA TypeNext == TypeOK /\ IdInv /\ [Next]_vars => TypeOK'
<1> SUFFICES ASSUME TypeOK, IdInv, [Next]_vars PROVE TypeOK'
  OBVIOUS
<1> USE DEF TypeOK, inner, notes, local, PCs
<1>1. ASSUME NEW t \in Tasks, Dial(t) PROVE TypeOK'
  BY <1>1 DEF Dial, Goto
<1>2. ASSUME NEW t \in Tasks, Clone(t) PROVE TypeOK'
  BY <1>2 DEF Clone, Goto
<1>3. ASSUME NEW t \in Tasks, Handshaken(t) PROVE TypeOK'
  <2>1. seen' \in 0 .. sent' /\ sent' = sent
    BY <1>3 DEF Handshaken
  <2> QED
    BY <1>3, <2>1 DEF Handshaken, Goto
<1>4. ASSUME NEW t \in Tasks, Begin(t) PROVE TypeOK'
  <2>1. next_id \in Ids
    BY <1>4, RoomForReady DEF Begin
  <2>2. CASE ~connected
    BY <1>4, <2>2 DEF Begin, Goto, Answers
  <2>3. CASE connected
    <3>1. next_id' = next_id + 1 /\ next_id' \in 1 .. MaxId + 1
      BY <1>4, <2>1, <2>3 DEF Begin, NextId, Ids
    <3>2. id' \in [Tasks -> 0 .. next_id' - 1]
      BY <1>4, <2>3, <3>1 DEF Begin
    <3> QED
      BY <1>4, <2>3, <3>1, <3>2 DEF Begin, Goto
  <2> QED
    BY <2>2, <2>3
<1>5. ASSUME NEW t \in Tasks, Register(t) PROVE TypeOK'
  <2>1. id[t] \in Ids
    BY <1>5, NumberedId DEF Register, Numbered
  <2> QED
    BY <1>5, <2>1 DEF Register, Goto
<1>6. ASSUME NEW t \in Tasks, Write(t) PROVE TypeOK'
  <2>1. id[t] \in Ids
    BY <1>6, NumberedId DEF Write, Numbered
  <2>2. asked' \subseteq [id : Ids, by : Tasks]
    BY <1>6, <2>1 DEF Write
  <2> QED
    BY <1>6, <2>1, <2>2 DEF Write, Goto, Answers
<1>7. ASSUME NEW t \in Tasks, Receive(t) PROVE TypeOK'
  BY <1>7 DEF Receive, Goto
<1>8. ASSUME NEW t \in Tasks, TimeOut(t) PROVE TypeOK'
  BY <1>8 DEF TimeOut, Goto
<1>9. ASSUME NEW t \in Tasks, Forget(t) PROVE TypeOK'
  BY <1>9, ZenonT(60) DEF Forget, Goto, Answers
<1>10. ASSUME NEW t \in Tasks, Return(t) PROVE TypeOK'
  BY <1>10 DEF Return, Goto
<1>11. ASSUME NEW r \in asked, NEW a \in Answers, Dispatch(r, a) PROVE TypeOK'
  BY <1>11, ResolvedType DEF Dispatch
<1>12. CASE Notify
  BY <1>12 DEF Notify
<1>13. CASE Eof
  BY <1>13 DEF Eof
<1>14. CASE Drain
  <2>1. slot' \in [Tasks -> Answers \cup {None, "closed"}]
    BY <1>14, ResolvedType DEF Drain, Answers
  <2> QED
    BY <1>14, <2>1 DEF Drain
<1>15. CASE Stop
  BY <1>15 DEF Stop
<1>16. CASE Take
  BY <1>16 DEF Take
<1>17. CASE CloseWriter
  BY <1>17 DEF CloseWriter
<1>18. CASE Abort
  BY <1>18 DEF Abort
<1>19. CASE Clear
  BY <1>19, ResolvedType DEF Clear
<1>20. CASE Drop
  BY <1>20 DEF Drop
<1>21. CASE Forward
  BY <1>21 DEF Forward
<1>22. CASE Lag
  BY <1>22 DEF Lag
<1>23. CASE Closed
  BY <1>23 DEF Closed
<1>24. CASE UNCHANGED vars
  BY <1>24 DEF vars
<1> QED
  BY <1>1, <1>2, <1>3, <1>4, <1>5, <1>6, <1>7, <1>8, <1>9, <1>10, <1>11, <1>12, <1>13, <1>14,
     <1>15, <1>16, <1>17, <1>18, <1>19, <1>20, <1>21, <1>22, <1>23, <1>24
     DEF Next, Command, Cleanup, Forwarding

-----------------------------------------------------------------------------
(* The inductive invariant *)

\* Before connect() has dialled there is nothing to do but to dial.
LEMMA DialNext == TypeOK /\ IInv /\ [Next]_vars => DialInv'
<1> SUFFICES ASSUME TypeOK, DialInv, [Next]_vars, reader' = "none"
             PROVE  ~shared' /\ next_id' = 1 /\ \A t \in Tasks : pc'[t] = "idle" /\ slot'[t] = None
  BY DEF IInv, DialInv
<1>1. UNCHANGED <<pc, shared, next_id, slot>> /\ reader = "none" =>
        ~shared' /\ next_id' = 1 /\ \A t \in Tasks : pc'[t] = "idle" /\ slot'[t] = None
  BY DEF DialInv
<1>2. ASSUME NEW t \in Tasks, Dial(t) \/ Clone(t) \/ Command(t) PROVE FALSE
  BY <1>2 DEF Dial, Clone, Command, Handshaken, Begin, Register, Write, Receive, TimeOut, Forget,
     Return, DialInv, inner, notes, local
<1>3. reader = "none"
  BY <1>2 DEF Next, Cleanup, Forwarding, Dispatch, Notify, Eof, Take, Drop, Drain, Stop, CloseWriter,
     Abort, Clear, Forward, Lag, Closed, vars, inner, notes, local
<1>4. CASE Clear
  <2>1. slot' = slot
    BY <1>3, <1>4 DEF Clear, Resolved, DialInv, TypeOK
  <2> QED
    BY <1>1, <1>3, <1>4, <2>1 DEF Clear
<1>5. CASE Take
  BY <1>3, <1>5 DEF Take, DialInv
<1>6. CASE Drop
  BY <1>3, <1>6 DEF Drop, DialInv
<1>7. CASE Notify \/ Eof \/ Stop \/ Drain \/ CloseWriter \/ Abort \/ Forwarding \/ UNCHANGED vars
           \/ \E r \in asked : \E a \in Answers : Dispatch(r, a)
  BY <1>1, <1>3, <1>7 DEF Dispatch, Notify, Eof, Stop, Drain, CloseWriter, Abort, Forwarding,
     Forward, Lag, Closed, vars, inner, notes, local
<1> QED
  BY <1>2, <1>4, <1>5, <1>6, <1>7 DEF Next, Cleanup

\* Ids are handed out one at a time.
LEMMA IdNext == TypeOK /\ IInv /\ [Next]_vars => IdInv'
<1> SUFFICES ASSUME TypeOK, IdInv, DialInv, [Next]_vars PROVE IdInv'
  BY DEF IInv
<1>t. pc \in [Tasks -> PCs] /\ id \in [Tasks -> 0 .. next_id - 1] /\ next_id \in Nat
  BY DEF TypeOK
<1>1. ASSUME UNCHANGED <<id, next_id>>, Ready' = Ready, Numbered' \subseteq Numbered PROVE IdInv'
  BY <1>1 DEF IdInv
<1>2. ASSUME NEW t \in Tasks, NEW l \in PCs, Goto(t, l), UNCHANGED <<id, next_id>>,
             l # "ready", pc[t] # "ready", t \in Numbered \/ l \in {"idle", "done"}
      PROVE  IdInv'
  <2>1. Ready' = Ready
    BY <1>2, <1>t, ReadySame
  <2>2. Numbered' \subseteq Numbered
    BY <1>2, <1>t DEF Numbered, Goto
  <2> QED
    BY <1>1, <1>2, <2>1, <2>2
<1>3. ASSUME NEW t \in Tasks, Goto(t, "ready"), pc[t] # "ready", UNCHANGED <<id, next_id>>,
             next_id + Cardinality(Ready) <= MaxId
      PROVE  IdInv'
  <2>1. Cardinality(Ready') = Cardinality(Ready) + 1 /\ Cardinality(Ready) \in Nat
    BY <1>3, <1>t, ReadyEnters, ReadyFinite
  <2>2. Numbered' \subseteq Numbered
    BY <1>3, <1>t DEF Numbered, Goto
  <2>3. next_id' + Cardinality(Ready') <= MaxId + 1
    BY <1>3, <1>t, <2>1
  <2> QED
    BY <1>3, <2>2, <2>3 DEF IdInv
<1>4. ASSUME NEW t \in Tasks, Dial(t) PROVE IdInv'
  <2>1. next_id = 1 /\ \A u \in Tasks : pc[u] = "idle"
    BY <1>4 DEF Dial, DialInv
  <2>2. Ready = {}
    BY <2>1 DEF Ready
  <2>3. Cardinality(Ready) = 0
    BY <2>2, FS_EmptySet
  <2> QED
    BY <1>3, <1>4, <2>1, <2>3 DEF Dial
<1>5. ASSUME NEW t \in Tasks, Clone(t) PROVE IdInv'
  BY <1>3, <1>5 DEF Clone, Ready, inner
<1>6. ASSUME NEW t \in Tasks, Begin(t) PROVE IdInv'
  <2>1. pc[t] = "ready" /\ \E l \in {"done", "named"} : Goto(t, l)
    BY <1>6 DEF Begin
  <2>2. Cardinality(Ready') = Cardinality(Ready) - 1 /\ Cardinality(Ready) \in Nat
    BY <1>t, <2>1, ReadyLeaves, ReadyFinite DEF PCs
  <2>3. CASE ~connected
    <3>1. UNCHANGED <<id, next_id>> /\ Numbered' \subseteq Numbered
      BY <1>6, <1>t, <2>3 DEF Begin, Numbered, Goto
    <3>2. next_id' + Cardinality(Ready') <= MaxId + 1
      BY <1>t, <2>2, <3>1 DEF IdInv
    <3> QED
      BY <3>1, <3>2 DEF IdInv
  <2>4. CASE connected
    <3>1. id' = [id EXCEPT ![t] = next_id] /\ next_id' = next_id + 1
      BY <1>6, <2>4 DEF Begin, NextId
    <3>2. next_id' + Cardinality(Ready') <= MaxId + 1
      BY <1>t, <2>2, <3>1 DEF IdInv
    <3>3. next_id # 0 /\ \A u \in Tasks : id[u] # next_id
      BY <1>t DEF TypeOK
    <3>4. \A u \in Numbered' : u # t => u \in Numbered
      BY <1>t, <2>1 DEF Numbered, Goto
    <3>5. \A u \in Numbered' : u \in Tasks
      BY DEF Numbered
    <3>6. \A u \in Numbered' : id'[u] # 0
      BY <1>t, <3>1, <3>3, <3>4, <3>5 DEF IdInv
    <3>7. \A u, v \in Tasks : id'[u] = id'[v] /\ id'[u] # 0 => u = v
      BY <1>t, <3>1, <3>3 DEF IdInv
    <3> QED
      BY <3>2, <3>6, <3>7 DEF IdInv
  <2> QED
    BY <2>3, <2>4
<1>7. ASSUME NEW t \in Tasks, Command(t) PROVE IdInv'
  <2>1. CASE Handshaken(t)
    BY <1>2, <2>1 DEF Handshaken, inner, PCs
  <2>2. CASE Register(t)
    BY <1>2, <2>2 DEF Register, PCs, Numbered
  <2>3. CASE Write(t)
    BY <1>2, <2>3 DEF Write, PCs, Numbered
  <2>4. CASE Receive(t)
    BY <1>2, <2>4 DEF Receive, inner, PCs, Numbered
  <2>5. CASE TimeOut(t)
    BY <1>2, <2>5 DEF TimeOut, inner, PCs, Numbered
  <2>6. CASE Forget(t)
    BY <1>2, <2>6 DEF Forget, PCs, Numbered
  <2>7. CASE Return(t)
    BY <1>2, <2>7 DEF Return, inner, PCs
  <2> QED
    BY <1>6, <1>7, <2>1, <2>2, <2>3, <2>4, <2>5, <2>6, <2>7 DEF Command
<1>8. CASE UNCHANGED <<id, next_id, pc>>
  BY <1>1, <1>8 DEF Ready, Numbered
<1> QED
  BY <1>4, <1>5, <1>7, <1>8 DEF Next, Cleanup, Forwarding, Dispatch, Notify, Eof, Take, Drop, Drain,
     Stop, CloseWriter, Abort, Clear, Forward, Lag, Closed, vars, inner, notes, local

\* A request reaches the server under the id of the caller that made it.
LEMMA AskedNext == TypeOK /\ IInv /\ [Next]_vars => AskedInv'
<1> SUFFICES ASSUME TypeOK, IdInv, AskedInv, [Next]_vars PROVE AskedInv'
  BY DEF IInv
<1>t. /\ id \in [Tasks -> 0 .. next_id - 1] /\ next_id \in Nat
      /\ \A r \in asked : r.id \in Nat /\ r.by \in Tasks
  BY DEF TypeOK, Ids
<1>1. ASSUME NEW t \in Tasks, Begin(t) PROVE AskedInv'
  <2>1. asked' = asked
    BY <1>1 DEF Begin
  <2>2. \/ UNCHANGED <<id, next_id>>
        \/ id' = [id EXCEPT ![t] = next_id] /\ next_id' = next_id + 1
    BY <1>1 DEF Begin, NextId
  <2> QED
    BY <1>t, <2>1, <2>2 DEF AskedInv
<1>2. ASSUME NEW t \in Tasks, Write(t) PROVE AskedInv'
  <2>1. id[t] \in Nat /\ id[t] < next_id /\ id[t] # 0
    BY <1>2, <1>t, NumberedId DEF Write, Numbered, IdInv
  <2>2. \A r \in asked' : r \in asked \/ r = [id |-> id[t], by |-> t]
    BY <1>2 DEF Write
  <2>3. UNCHANGED <<id, next_id>>
    BY <1>2 DEF Write
  <2> QED
    BY <1>t, <2>1, <2>2, <2>3 DEF AskedInv, IdInv
<1>3. CASE UNCHANGED <<id, next_id, asked>>
  BY <1>3 DEF AskedInv
<1> QED
  BY <1>1, <1>2, <1>3 DEF Next, Command, Dial, Clone, Handshaken, Register, Receive, TimeOut, Forget,
     Return, Cleanup, Forwarding, Dispatch, Notify, Eof, Take, Drop, Drain, Stop, CloseWriter, Abort,
     Clear, Forward, Lag, Closed, vars, inner, notes, local

\* A call's channel and its entry.
Answered == SlotInv /\ OwnAnswer /\ NoOrphans

\* What is sent into the channels, and the entries it is taken from.
LEMMA ResolvedAnswered ==
  ASSUME TypeOK, IdInv, Answered, NEW S \in SUBSET Ids, NEW a \in Answers \cup {"closed"},
         a \in Tasks => \A t \in Tasks : id[t] \in S => a = t,
         UNCHANGED <<pc, id, left>>,
         slot' = Resolved(S, a),
         pending' = [i \in Ids |-> IF i \in S THEN None ELSE pending[i]]
  PROVE  Answered'
<1>1. ASSUME NEW t \in Tasks, slot'[t] # slot[t]
      PROVE  pc[t] \in {"registered", "waiting"} /\ id[t] \in S /\ slot'[t] = a
  BY <1>1 DEF TypeOK, Resolved
<1>2. SlotInv'
  <2> SUFFICES ASSUME NEW t \in Tasks
               PROVE  /\ pc[t] \in {"ready", "named"} => slot'[t] \in {None, "closed"}
                      /\ pc[t] \in {"registered", "waiting"} /\ slot'[t] \notin {None, "closed"} =>
                           pending'[id[t]] # t
    BY DEF SlotInv
  <2>1. pc[t] \in {"ready", "named"} => slot'[t] \in {None, "closed"}
    BY <1>1 DEF Answered, SlotInv
  <2>2. ASSUME pc[t] \in {"registered", "waiting"}, slot'[t] \notin {None, "closed"}, pending'[id[t]] = t
        PROVE  FALSE
    <3>1. id[t] \in Ids
      BY <2>2, NumberedId DEF Numbered
    <3>2. id[t] \notin S /\ pending[id[t]] = t
      BY <2>2, <3>1
    <3> QED
      BY <1>1, <2>2, <3>2 DEF Answered, SlotInv
  <2> QED
    BY <2>1, <2>2
<1>3. OwnAnswer'
  BY <1>1 DEF Answered, OwnAnswer
<1>4. NoOrphans'
  BY DEF Answered, NoOrphans
<1> QED
  BY <1>2, <1>3, <1>4 DEF Answered
\* The calls and the table they share, step by step.
LEMMA AnsweredNext == TypeOK /\ IInv /\ [Next]_vars => Answered'
<1> SUFFICES ASSUME TypeOK, DialInv, IdInv, AskedInv, Answered, [Next]_vars PROVE Answered'
  BY DEF IInv, Answered
<1>t. /\ pc \in [Tasks -> PCs] /\ slot \in [Tasks -> Answers \cup {None, "closed"}]
      /\ pending \in [Ids -> Tasks \cup {None}]
      /\ id \in [Tasks -> 0 .. next_id - 1]
      /\ \A t \in Numbered : id[t] \in Ids
  BY NumberedId DEF TypeOK
<1>1. ASSUME UNCHANGED <<pc, id, slot, pending, left>> PROVE Answered'
  BY <1>1 DEF Answered, SlotInv, OwnAnswer, NoOrphans
<1>2. ASSUME NEW t \in Tasks, Dial(t) PROVE Answered'
  <2>1. pc[t] = "idle" /\ slot[t] = None
    BY <1>2 DEF Dial, DialInv
  <2> QED
    BY <1>2, <1>t, <2>1 DEF Dial, Goto, Answered, SlotInv, OwnAnswer, NoOrphans
<1>3. ASSUME NEW t \in Tasks, Clone(t) PROVE Answered'
  BY <1>3, <1>t DEF Clone, Goto, inner, Answered, SlotInv, OwnAnswer, NoOrphans
<1>4. ASSUME NEW t \in Tasks, Begin(t) PROVE Answered'
  <2>1. CASE ~connected
    BY <1>4, <1>t, <2>1 DEF Begin, Goto, Answered, SlotInv, OwnAnswer, NoOrphans
  <2>2. CASE connected
    <3>1. /\ pc' = [pc EXCEPT ![t] = "named"] /\ id' = [id EXCEPT ![t] = next_id]
          /\ pc[t] = "ready" /\ UNCHANGED <<slot, pending, left>>
      BY <1>4, <2>2 DEF Begin, Goto
    <3>2. SlotInv'
      BY <1>t, <3>1 DEF Answered, SlotInv
    <3>3. NoOrphans'
      BY <1>t, <3>1 DEF Answered, NoOrphans
    <3> QED
      BY <3>1, <3>2, <3>3 DEF Answered, OwnAnswer
  <2> QED
    BY <2>1, <2>2
<1>5. ASSUME NEW t \in Tasks, Register(t) PROVE Answered'
  <2>1. t \in Numbered /\ id[t] \in Ids /\ pc[t] = "named"
    BY <1>5, <1>t DEF Register, Numbered
  <2>2. \A u \in Tasks : slot'[u] = slot[u] \/ slot'[u] = "closed"
    BY <1>5, <1>t DEF Register
  <2>3. /\ pending' = [pending EXCEPT ![id[t]] = t] /\ pc' = [pc EXCEPT ![t] = "registered"]
        /\ UNCHANGED <<id, left>>
    BY <1>5 DEF Register, Goto
  <2>4. SlotInv'
    BY <1>t, <2>1, <2>2, <2>3 DEF Answered, SlotInv, IdInv
  <2>5. NoOrphans'
    BY <1>t, <2>1, <2>3 DEF Answered, NoOrphans
  <2>6. OwnAnswer'
    BY <2>2 DEF Answered, OwnAnswer
  <2> QED
    BY <2>4, <2>5, <2>6 DEF Answered
<1>6. ASSUME NEW t \in Tasks, Write(t) PROVE Answered'
  <2>1. \A i \in Ids : pending[i] = t => i = id[t] \/ i \in left
    BY <1>6, <1>t DEF Answered, NoOrphans
  <2>2. /\ pc[t] = "registered" /\ UNCHANGED <<id, pending>>
        /\ \/ slot' = slot /\ left' = left /\ pc' = [pc EXCEPT ![t] = "waiting"]
           \/ /\ slot' = [slot EXCEPT ![t] = "error"] /\ left' = left \cup {id[t]}
              /\ pc' = [pc EXCEPT ![t] = "done"]
    BY <1>6 DEF Write, Goto
  <2>3. SlotInv'
    BY <1>t, <2>2 DEF Answered, SlotInv
  <2>4. NoOrphans'
    BY <1>t, <2>1, <2>2 DEF Answered, NoOrphans
  <2> QED
    BY <1>t, <2>2, <2>3, <2>4 DEF Answered, OwnAnswer
<1>7. ASSUME NEW t \in Tasks, Receive(t) PROVE Answered'
  <2>1. /\ pc[t] = "waiting" /\ slot[t] # None /\ UNCHANGED <<id, pending, slot, left>>
        /\ pc' = [pc EXCEPT ![t] = IF slot[t] = "closed" THEN "expired" ELSE "done"]
    BY <1>7 DEF Receive, Goto, inner
  <2>2. slot[t] = "closed" \/ \A i \in Ids : pending[i] = t => i \in left
    BY <2>1 DEF Answered, NoOrphans, SlotInv
  <2>3. NoOrphans'
    BY <1>t, <2>1, <2>2 DEF Answered, NoOrphans
  <2>4. SlotInv'
    BY <1>t, <2>1 DEF Answered, SlotInv
  <2> QED
    BY <2>1, <2>3, <2>4 DEF Answered, OwnAnswer
<1>8. ASSUME NEW t \in Tasks, TimeOut(t) PROVE Answered'
  BY <1>8, <1>t DEF TimeOut, Goto, inner, Answered, SlotInv, OwnAnswer, NoOrphans
<1>9. ASSUME NEW t \in Tasks, Forget(t) PROVE Answered'
  <2>1. id[t] \in Ids
    BY <1>9, <1>t DEF Forget, Numbered
  <2>2. /\ pc[t] = "expired" /\ pending' = [pending EXCEPT ![id[t]] = None]
        /\ slot' = [slot EXCEPT ![t] = "error"] /\ pc' = [pc EXCEPT ![t] = "done"]
        /\ UNCHANGED <<id, left>>
    BY <1>9 DEF Forget, Goto
  <2>3. \A u \in Tasks : pending'[id[u]] = u => pending[id[u]] = u \/ id[u] \notin Ids
    BY <1>t, <2>1, <2>2
  <2>4. SlotInv'
    <3>1. \A u \in Numbered : id[u] \in Ids
      BY <1>t
    <3> QED
      BY <1>t, <2>2, <2>3, <3>1 DEF Answered, SlotInv, Numbered
  <2>5. NoOrphans'
    BY <1>t, <2>1, <2>2 DEF Answered, NoOrphans
  <2> QED
    BY <1>t, <2>2, <2>4, <2>5 DEF Answered, OwnAnswer
<1>10. ASSUME NEW t \in Tasks, Handshaken(t) \/ Return(t) PROVE Answered'
  BY <1>10, <1>t DEF Handshaken, Return, Goto, inner, Answered, SlotInv, OwnAnswer, NoOrphans
<1>11. ASSUME NEW r \in asked, NEW a \in Answers, Dispatch(r, a) PROVE Answered'
  <2>1. r.id \in Ids
    BY DEF TypeOK
  <2>2. \A t \in Tasks : id[t] \in {r.id} /\ a \in Tasks => a = t
    BY <1>11 DEF Dispatch, AskedInv
  <2>3. pending' = [i \in Ids |-> IF i \in {r.id} THEN None ELSE pending[i]]
    BY <1>11, <1>t DEF Dispatch
  <2> QED
    <3>1. a \in Answers \cup {"closed"} /\ {r.id} \in SUBSET Ids
      BY <2>1
    <3>2. a \in Tasks => \A t \in Tasks : id[t] \in {r.id} => a = t
      BY <2>2
    <3>3. UNCHANGED <<pc, id, left>> /\ slot' = Resolved({r.id}, a)
      BY <1>11 DEF Dispatch
    <3> QED
      BY <2>3, <3>1, <3>2, <3>3, ResolvedAnswered
<1>12. CASE Drain \/ Clear
  <2>1. \E a \in {"error", "closed"} : slot' = Resolved(Ids, a)
    BY <1>12 DEF Drain, Clear
  <2>2. pending' = [i \in Ids |-> IF i \in Ids THEN None ELSE pending[i]]
    BY <1>12 DEF Drain, Clear
  <2>3. UNCHANGED <<pc, id, left>>
    BY <1>12 DEF Drain, Clear
  <2> QED
    BY <2>1, <2>2, <2>3, ResolvedAnswered DEF Answers
<1> QED
  BY <1>1, <1>2, <1>3, <1>4, <1>5, <1>6, <1>7, <1>8, <1>9, <1>10, <1>11, <1>12 DEF Next, Command,
     Cleanup, Forwarding, Notify, Eof, Take, Drop, Stop, CloseWriter, Abort, Forward, Lag, Closed,
     vars, inner, notes, local

-----------------------------------------------------------------------------
(* The theorems *)

\* However calls, responses, timeouts, failed writes and disconnects interleave,
\* the table of pending requests, the ids and the channels keep together.
THEOREM Invariant == Spec => [](TypeOK /\ IInv)
<1>1. Init => TypeOK /\ IInv
  BY InitInv
<1>2. TypeOK /\ IInv /\ [Next]_vars => (TypeOK /\ IInv)'
  BY TypeNext, DialNext, IdNext, AskedNext, AnsweredNext DEF IInv, Answered
<1> QED
  BY <1>1, <1>2, PTL DEF Spec

\* A caller gets the response to its own request or an error, and no entry
\* outlives its call, but for those of failed writes.
THEOREM CallsAreSound == Spec => []CallsSound
<1>1. TypeOK /\ IInv => CallsSound
  BY DEF IInv, CallsSound
<1> QED
  BY <1>1, Invariant, PTL
=============================================================================
