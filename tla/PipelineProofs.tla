--------------------------- MODULE PipelineProofs ---------------------------
(***************************************************************************)
(* Proofs about Pipeline for any workers, producers, loggers, sinks and    *)
(* messages, whatever the filters and modules do.  PInv is inductive: the  *)
(* types, who operates which station, how the parts of a dispatch in       *)
(* progress belong together, and that no message is stranded.              *)
(***************************************************************************)
EXTENDS Pipeline, SequenceLemmas, FiniteSetTheorems

\* What log() is about to enqueue is a message.
MsgInv == \A p \in Producers : ppc[p] = "checked" => msg[p] \in Messages

\* A worker has a token unless it is idle, and it owns the station's mutex
\* exactly while it operates the station.
OwnerInv ==
    /\ \A w \in Workers : pc[w] = "idle" <=> token[w] = Nobody
    /\ \A w \in Workers, x \in Stations : owner[x] = w <=> Operating(w, x)

\* A dispatch in progress belongs to the worker that owns the dispatcher; the
\* group is not erased from the tray before it ends.
RouteInv ==
    /\ group # <<>> => tray[Dispatcher] # <<>> /\ owner[Dispatcher] # Nobody
    /\ rest # <<>> => group # <<>> /\ dests # <<>>
    /\ alert => group # <<>> /\ dests # <<>>

\* The sinks still to be served are connected to the logger of the group, and
\* the whole group is of that logger.
LinkInv ==
    group # <<>> =>
        /\ ToSet(dests) \subseteq ToSet(links[Via[Head(group)]])
        /\ \A i \in 1 .. Len(group) : Via[group[i]] = Via[Head(group)]
        /\ \A i \in 1 .. Len(rest) : Via[rest[i]] = Via[Head(group)]

PInv ==
    /\ TypeOK
    /\ MsgInv
    /\ OwnerInv
    /\ RouteInv
    /\ LinkInv
    /\ NoStranded

USE DEF Stations

-----------------------------------------------------------------------------
(* Sequences.                                                              *)

\* What Until() returns when it stops at the elements in the positions I.
Before(q, I) == IF I = {} THEN q ELSE SubSeq(q, 1, Min(I) - 1)

\* What precedes the positions I of a sequence is a prefix that avoids them.
LEMMA BeforeType ==
    ASSUME NEW S, NEW q \in Seq(S), NEW I \in SUBSET (1 .. Len(q))
    PROVE  /\ Before(q, I) \in Seq(S)
           /\ Len(Before(q, I)) <= Len(q)
           /\ \A j \in 1 .. Len(Before(q, I)) : Before(q, I)[j] = q[j] /\ j \notin I
           /\ Len(Before(q, I)) < Len(q) => Len(Before(q, I)) + 1 \in I
           /\ q # <<>> /\ 1 \notin I => Before(q, I) # <<>>
<1> DEFINE r == Before(q, I)
           i == Min(I)
<1>0. Len(q) \in Nat /\ I \subseteq Nat
  BY LenProperties
<1>1. CASE I = {}
  BY <1>0, <1>1 DEF Before
<1>2. CASE I # {}
  <2>1. i \in I /\ (\A j \in I : i <= j) /\ i \in 1 .. Len(q)
    BY <1>0, <1>2, MinOfNats
  <2>2. \A j \in 1 .. i - 1 : q[j] \in S
    BY <1>0, <2>1, ElementOfSeq
  <2>3. r = SubSeq(q, 1, i - 1)
    BY <1>2 DEF Before
  <2> HIDE DEF i, r
  <2>4. /\ r \in Seq(S)
        /\ Len(r) = i - 1
        /\ \A j \in 1 .. i - 1 : r[j] = q[j]
    BY <1>0, <2>1, <2>2, <2>3, SubSeqProperties
  <2>5. 1 \notin I => r # <<>>
    <3>1. SUFFICES ASSUME 1 \notin I PROVE Len(r) # 0
      BY EmptySeq
    <3>2. QED
      BY <2>1, <2>4, <3>1
  <2>6. /\ r \in Seq(S)
        /\ Len(r) <= Len(q)
        /\ \A j \in 1 .. Len(r) : r[j] = q[j] /\ j \notin I
        /\ Len(r) + 1 \in I
        /\ 1 \notin I => r # <<>>
    BY <1>0, <2>1, <2>4, <2>5
  <2>7. QED
    BY <2>6 DEF r
<1>3. QED
  BY <1>1, <1>2

\* A leading group is made of messages of one logger, its first among them.
LEMMA LeadingGroupType ==
    ASSUME NEW q \in Seq(Messages), q # <<>>
    PROVE  /\ LeadingGroup(q) \in Seq(Messages)
           /\ LeadingGroup(q) # <<>>
           /\ Len(LeadingGroup(q)) <= Len(q)
           /\ \A i \in 1 .. Len(LeadingGroup(q)) : LeadingGroup(q)[i] = q[i]
           /\ Head(LeadingGroup(q)) = Head(q)
           /\ \A i \in 1 .. Len(LeadingGroup(q)) :
                 Via[LeadingGroup(q)[i]] = Via[Head(q)]
<1> DEFINE I == {i \in 1 .. Len(q) : Via[q[i]] # Via[Head(q)]}
           g == LeadingGroup(q)
<1>1. g = Before(q, I)
  <2> DEFINE i == IF I # {} THEN Min(I) ELSE 0
  <2>1. g = IF i = 0 THEN q ELSE SubSeq(q, 1, i - 1)
    BY DEF LeadingGroup, Until, SelectInSeq
  <2>2. I # {} => Min(I) # 0
    <3>1. I \subseteq Nat /\ 0 \notin I
      OBVIOUS
    <3> HIDE DEF I
    <3>2. QED
      BY <3>1, MinOfNats
  <2>3. QED
    BY <2>1, <2>2 DEF Before
<1>2. Len(q) \in Nat \ {0} /\ Head(q) = q[1]
  BY EmptySeq
<1>3. I \in SUBSET (1 .. Len(q)) /\ 1 \notin I
  BY <1>2
<1>4. \A j \in 1 .. Len(q) : j \notin I => Via[q[j]] = Via[Head(q)]
  OBVIOUS
<1> HIDE DEF I, g
<1>5. /\ g \in Seq(Messages)
      /\ g # <<>>
      /\ \A j \in 1 .. Len(g) : g[j] = q[j] /\ j \notin I
      /\ Len(g) <= Len(q)
  BY <1>1, <1>3, BeforeType
<1>6. Len(g) \in Nat \ {0} /\ Head(g) = g[1]
  BY <1>5, EmptySeq
<1>7. Head(g) = Head(q) /\ \A i \in 1 .. Len(g) : Via[g[i]] = Via[Head(q)]
  BY <1>2, <1>4, <1>5, <1>6
<1>8. QED
  BY <1>5, <1>7 DEF g

\* An accepted run is a prefix of the rest of the group.
LEMMA AcceptedRunType ==
    ASSUME NEW s, rest \in Seq(Messages)
    PROVE  /\ AcceptedRun(s) \in Seq(Messages)
           /\ Len(AcceptedRun(s)) <= Len(rest)
           /\ \A j \in 1 .. Len(AcceptedRun(s)) : AcceptedRun(s)[j] = rest[j]
           /\ Len(AcceptedRun(s)) < Len(rest) =>
                 <<s, rest[Len(AcceptedRun(s)) + 1]>> \in SinkRejects \cup FilterThrows
<1> DEFINE I == {i \in 1 .. Len(rest) : <<s, rest[i]>> \in SinkRejects \cup FilterThrows}
<1>1. AcceptedRun(s) = Before(rest, I)
  <2> DEFINE i == IF I # {} THEN Min(I) ELSE 0
  <2>1. AcceptedRun(s) = IF i = 0 THEN rest ELSE SubSeq(rest, 1, i - 1)
    BY DEF AcceptedRun, Until, SelectInSeq
  <2>2. I # {} => Min(I) # 0
    <3>1. I \subseteq Nat /\ 0 \notin I
      OBVIOUS
    <3> HIDE DEF I
    <3>2. QED
      BY <3>1, MinOfNats
  <2>3. QED
    BY <2>1, <2>2 DEF Before
<1>2. I \in SUBSET (1 .. Len(rest))
  OBVIOUS
<1>3. \A i \in I : <<s, rest[i]>> \in SinkRejects \cup FilterThrows
  OBVIOUS
<1> HIDE DEF I
<1>4. QED
  BY <1>1, <1>2, <1>3, BeforeType

\* Dropping the first messages leaves a sequence of messages.
LEMMA DropType ==
    ASSUME NEW S, NEW q \in Seq(S), NEW n \in Nat
    PROVE  /\ Drop(q, n) \in Seq(S)
           /\ \A j \in 1 .. Len(Drop(q, n)) : Drop(q, n)[j] = q[n + j] /\ n + j \in 1 .. Len(q)
<1>1. Len(q) \in Nat
  BY LenProperties
<1>2. \A j \in n + 1 .. Len(q) : q[j] \in S
  BY <1>1, ElementOfSeq
<1>3. /\ Drop(q, n) \in Seq(S)
      /\ Len(Drop(q, n)) = IF n + 1 <= Len(q) THEN Len(q) - (n + 1) + 1 ELSE 0
      /\ \A j \in 1 .. Len(q) - (n + 1) + 1 : Drop(q, n)[j] = q[n + 1 + j - 1]
  BY <1>1, <1>2, SubSeqProperties DEF Drop
<1>4. QED
  BY <1>1, <1>3

\* Removing an element leaves a sequence.
LEMMA RemoveFirstType ==
    ASSUME NEW S, NEW q \in Seq(S), NEW e
    PROVE  RemoveFirst(q, e) \in Seq(S)
<1> DEFINE I == {i \in 1 .. Len(q) : q[i] = e}
<1>0. Len(q) \in Nat /\ \A i \in 1 .. Len(q) : q[i] \in S
  BY LenProperties, ElementOfSeq
<1>1. CASE I = {}
  BY <1>1 DEF RemoveFirst
<1>2. CASE I # {}
  <2> DEFINE k == Min(I)
  <2>1. RemoveFirst(q, e) = SubSeq(q, 1, k - 1) \o SubSeq(q, k + 1, Len(q))
    BY <1>2 DEF RemoveFirst, RemoveAt, SelectInSeq
  <2>2. k \in 1 .. Len(q)
    <3>1. I \subseteq Nat /\ I \subseteq 1 .. Len(q)
      OBVIOUS
    <3> HIDE DEF I
    <3>2. QED
      BY <1>2, <3>1, MinOfNats
  <2> HIDE DEF k
  <2>3. /\ k - 1 \in Int /\ \A i \in 1 .. k - 1 : q[i] \in S
        /\ k + 1 \in Int /\ \A i \in k + 1 .. Len(q) : q[i] \in S
    BY <1>0, <2>2
  <2>4. SubSeq(q, 1, k - 1) \in Seq(S) /\ SubSeq(q, k + 1, Len(q)) \in Seq(S)
    BY <1>0, <2>3, SubSeqProperties
  <2>5. QED
    BY <2>1, <2>4, ConcatProperties
<1>3. QED
  BY <1>1, <1>2

-----------------------------------------------------------------------------
(* Types.                                                                  *)

USE DEF producerVars, loggerVars, stationVars, poolVars, routeVars

\* A worker at work has a token.
LEMMA HasStation ==
    ASSUME TypeOK, OwnerInv, NEW w \in Workers, pc[w] # "idle"
    PROVE  token[w] \in Stations
BY DEF TypeOK, OwnerInv

\* What a worker that operates station x knows.
LEMMA OperatingFacts ==
    ASSUME TypeOK, OwnerInv, NEW w \in Workers, NEW x \in Stations, Operating(w, x)
    PROVE  /\ token[w] = x /\ owner[x] = w
           /\ queue[x] \in Seq(Messages) /\ tray[x] \in Seq(Messages)
           /\ \A v \in Workers : Operating(v, x) => v = w
BY DEF TypeOK, OwnerInv, Operating

\* The first state is well typed.
LEMMA TypeInit == Init => TypeOK
<1>1. <<>> \in Seq(Messages) /\ <<>> \in Seq(Sinks) /\ <<>> \in Seq(Stations)
  BY EmptySeq
<1>2. ASSUME Init
      PROVE  /\ queue \in [Stations -> Seq(Messages)]
             /\ tray \in [Stations -> Seq(Messages)]
             /\ received \in [Sinks -> Seq(Messages)]
             /\ written \in [Sinks -> Seq(Messages)]
             /\ links \in [Loggers -> Seq(Sinks)]
  BY <1>1, <1>2, LinksAssumption DEF Init
<1>3. ASSUME Init
      PROVE  /\ ppc \in [Producers -> {"user", "checked", "notify", "wait"}]
             /\ msg \in [Producers -> Messages \cup {Nobody}]
             /\ owner \in [Stations -> Workers \cup {Nobody}]
             /\ token \in [Workers -> Stations \cup {Nobody}]
             /\ pc \in [Workers -> {"idle", "lock", "leftover", "batch"}]
  BY <1>3 DEF Init
<1>4. ASSUME Init
      PROVE  TypeOK
  BY <1>1, <1>2, <1>3, <1>4 DEF Init, TypeOK
<1>5. QED
  BY <1>4

\* Every step keeps the types.
LEMMA TypeNext ==
    ASSUME TypeOK, MsgInv, OwnerInv, RouteInv, [Next]_vars
    PROVE  TypeOK'
<1>1. ASSUME NEW p \in Producers, NEW m \in Messages, CallLog(p, m)
      PROVE  TypeOK'
  BY <1>1 DEF CallLog, TypeOK
<1>2. ASSUME NEW p \in Producers, Enqueue(p)
      PROVE  TypeOK'
  <2>1. msg[p] \in Messages
    BY <1>2 DEF Enqueue, MsgInv
  <2>2. Append(queue[Dispatcher], msg[p]) \in Seq(Messages) /\ Append(accepted, msg[p]) \in Seq(Messages)
    BY <2>1, AppendProperties DEF TypeOK
  <2>3. QED
    BY <1>2, <2>2 DEF Enqueue, TypeOK
<1>3. ASSUME NEW p \in Producers, NotifyPool(p)
      PROVE  TypeOK'
  <2>1. Append(tokens, Dispatcher) \in Seq(Stations)
    BY AppendProperties DEF TypeOK
  <2>2. QED
    BY <1>3, <2>1 DEF NotifyPool, PostToken, TypeOK
<1>4. ASSUME NEW p \in Producers, CallWait(p)
      PROVE  TypeOK'
  BY <1>4 DEF CallWait, TypeOK
<1>5. ASSUME NEW p \in Producers, WaitReturns(p)
      PROVE  TypeOK'
  BY <1>5 DEF WaitReturns, TypeOK
<1>6. ASSUME NEW l \in Loggers, NEW s \in Sinks, AddSink(l, s)
      PROVE  TypeOK'
  <2>1. Append(links[l], s) \in Seq(Sinks)
    BY AppendProperties DEF TypeOK
  <2>2. QED
    BY <1>6, <2>1 DEF AddSink, TypeOK
<1>7. ASSUME NEW l \in Loggers, NEW s \in Sinks, DeleteSink(l, s)
      PROVE  TypeOK'
  <2>1. RemoveFirst(links[l], s) \in Seq(Sinks)
    BY RemoveFirstType DEF TypeOK
  <2>2. QED
    BY <1>7, <2>1 DEF DeleteSink, TypeOK
<1>8. ASSUME NEW l \in Loggers, DeleteLogger(l)
      PROVE  TypeOK'
  BY <1>8, LinksAssumption DEF DeleteLogger, TypeOK
<1>9. ASSUME NEW w \in Workers, TakeToken(w)
      PROVE  TypeOK'
  <2>1. Head(tokens) \in Stations /\ Tail(tokens) \in Seq(Stations)
    BY <1>9, HeadTailProperties DEF TakeToken, TypeOK
  <2>2. QED
    BY <1>9, <2>1 DEF TakeToken, TypeOK
<1>10. ASSUME NEW w \in Workers, Lock(w)
       PROVE  TypeOK'
  BY <1>10 DEF Lock, TypeOK
<1>11. ASSUME NEW w \in Workers, Swap(w)
       PROVE  TypeOK'
  <2>1. token[w] \in Stations
    BY <1>11, HasStation DEF Swap
  <2>2. QED
    BY <1>11, <2>1 DEF Swap, TypeOK
<1>12. ASSUME NEW w \in Workers, Finish(w)
       PROVE  TypeOK'
  BY <1>12 DEF Finish, Release, TypeOK
<1>13. ASSUME NEW w \in Workers, StartGroup(w)
       PROVE  TypeOK'
  <2>1. tray[Dispatcher] \in Seq(Messages) /\ tray[Dispatcher] # <<>>
    BY <1>13 DEF StartGroup, TypeOK
  <2>2. Head(tray[Dispatcher]) \in Messages /\ group' \in Seq(Messages)
    BY <1>13, <2>1, LeadingGroupType, HeadTailProperties DEF StartGroup
  <2>3. dests' \in Seq(Sinks)
    BY <1>13, <2>2, MessagesAssumption DEF StartGroup, TypeOK
  <2>4. rest' \in Seq(Messages)
    BY <1>13, <2>2, EmptySeq DEF StartGroup
  <2>5. QED
    BY <1>13, <2>2, <2>3, <2>4 DEF StartGroup, TypeOK
<1>14. ASSUME NEW w \in Workers, LogRun(w)
       PROVE  TypeOK'
  <2> DEFINE s == Head(dests)
             run == AcceptedRun(s)
  <2>1. s \in Sinks
    BY <1>14, HeadTailProperties DEF LogRun, RouteInv, TypeOK
  <2>2. rest \in Seq(Messages) /\ run \in Seq(Messages)
    BY AcceptedRunType DEF TypeOK
  <2>3. Len(run) + 1 \in Nat
    BY <2>2, LenProperties
  <2>4. Drop(rest, Len(run) + 1) \in Seq(Messages)
    BY <2>2, <2>3, DropType
  <2>5. queue[s] \o run \in Seq(Messages) /\ received[s] \o run \in Seq(Messages)
    BY <2>1, <2>2, ConcatProperties DEF TypeOK
  <2> HIDE DEF s, run
  <2>6. /\ queue' = [queue EXCEPT ![s] = queue[s] \o run]
        /\ received' = [received EXCEPT ![s] = received[s] \o run]
        /\ alert' = (run # <<>> /\ queue[s] = <<>>)
        /\ rest' = Drop(rest, Len(run) + 1)
        /\ UNCHANGED <<group, dests, tray, owner, written, producerVars,
                       loggerVars, poolVars>>
    BY <1>14 DEF LogRun, s, run
  <2>7. QED
    BY <2>1, <2>4, <2>5, <2>6 DEF TypeOK
<1>15. ASSUME NEW w \in Workers, NotifySink(w)
       PROVE  TypeOK'
  <2>1. Head(dests) \in Sinks
    BY <1>15, HeadTailProperties DEF NotifySink, RouteInv, TypeOK
  <2>2. Append(tokens, Head(dests)) \in Seq(Stations)
    BY <2>1, AppendProperties DEF TypeOK
  <2>3. QED
    BY <1>15, <2>2 DEF NotifySink, PostToken, TypeOK
<1>16. ASSUME NEW w \in Workers, NextSink(w)
       PROVE  TypeOK'
  <2>1. Tail(dests) \in Seq(Sinks)
    BY <1>16, HeadTailProperties DEF NextSink, TypeOK
  <2>2. <<>> \in Seq(Messages)
    BY EmptySeq
  <2>3. QED
    BY <1>16, <2>1, <2>2 DEF NextSink, TypeOK
<1>17. ASSUME NEW w \in Workers, EndGroup(w)
       PROVE  TypeOK'
  <2>1. Len(group) \in Nat /\ tray[Dispatcher] \in Seq(Messages)
    BY LenProperties DEF TypeOK
  <2>2. Drop(tray[Dispatcher], Len(group)) \in Seq(Messages) /\ <<>> \in Seq(Messages)
    BY <2>1, DropType, EmptySeq
  <2>3. QED
    BY <1>17, <2>2 DEF EndGroup, TypeOK
<1>18. ASSUME NEW w \in Workers, DispatchThrows(w)
       PROVE  TypeOK'
  <2>1. Len(group) \in Nat /\ tray[Dispatcher] \in Seq(Messages)
    BY LenProperties DEF TypeOK
  <2>2. Drop(tray[Dispatcher], Len(group)) \in Seq(Messages)
    BY <2>1, DropType
  <2>3. <<>> \in Seq(Messages) /\ <<>> \in Seq(Sinks) /\ Append(tokens, Dispatcher) \in Seq(Stations)
    BY EmptySeq, AppendProperties DEF TypeOK
  <2>4. QED
    BY <1>18, <2>2, <2>3 DEF DispatchThrows, PostToken, Release, TypeOK
<1>19. ASSUME NEW w \in Workers, NEW s \in Sinks, WriteMessage(w, s)
       PROVE  TypeOK'
  <2>1. Head(tray[s]) \in Messages /\ Tail(tray[s]) \in Seq(Messages)
    BY <1>19, HeadTailProperties DEF WriteMessage, TypeOK
  <2>2. Append(written[s], Head(tray[s])) \in Seq(Messages)
    BY <2>1, AppendProperties DEF TypeOK
  <2>3. QED
    BY <1>19, <2>1, <2>2 DEF WriteMessage, TypeOK
<1>20. ASSUME NEW w \in Workers, NEW s \in Sinks, WriteThrows(w, s)
       PROVE  TypeOK'
  <2>1. Tail(tray[s]) \in Seq(Messages)
    BY <1>20, HeadTailProperties DEF WriteThrows, TypeOK
  <2>2. Append(tokens, s) \in Seq(Stations)
    BY AppendProperties DEF TypeOK
  <2>3. QED
    BY <1>20, <2>1, <2>2 DEF WriteThrows, PostToken, Release, TypeOK
<1>21. CASE UNCHANGED vars
  BY <1>21 DEF vars, TypeOK
<1>22. QED
  BY <1>1, <1>2, <1>3, <1>4, <1>5, <1>6, <1>7, <1>8, <1>9, <1>10, <1>11,
     <1>12, <1>13, <1>14, <1>15, <1>16, <1>17, <1>18, <1>19, <1>20, <1>21
     DEF Next, ProducerStep, ConfigStep, WorkerStep

-----------------------------------------------------------------------------
(* Who operates what.                                                      *)

\* Every step keeps a checked producer's message.
LEMMA MsgNext ==
    ASSUME TypeOK, MsgInv, [Next]_vars
    PROVE  MsgInv'
<1>1. CASE UNCHANGED <<ppc, msg>>
  BY <1>1 DEF MsgInv
<1>2. ASSUME NEW p \in Producers, NEW m \in Messages, CallLog(p, m)
      PROVE  MsgInv'
  BY <1>2 DEF CallLog, TypeOK, MsgInv
<1>3. ASSUME NEW p \in Producers, Enqueue(p)
      PROVE  MsgInv'
  BY <1>3 DEF Enqueue, TypeOK, MsgInv
<1>4. ASSUME NEW p \in Producers, NotifyPool(p) \/ CallWait(p) \/ WaitReturns(p)
      PROVE  MsgInv'
  BY <1>4 DEF NotifyPool, CallWait, WaitReturns, TypeOK, MsgInv
<1>5. QED
  BY <1>1, <1>2, <1>3, <1>4
     DEF Next, ProducerStep, ConfigStep, WorkerStep, vars, AddSink, DeleteSink,
         DeleteLogger, TakeToken, Lock, Swap, Finish, StartGroup, LogRun,
         NotifySink, NextSink, EndGroup, DispatchThrows, WriteMessage,
         WriteThrows

\* The worker that gives its station up leaves the others' as they are.
LEMMA OwnerRelease ==
    ASSUME TypeOK, OwnerInv, NEW w \in Workers, pc[w] \in {"leftover", "batch"},
           Release(w)
    PROVE  OwnerInv'
<1>1. token[w] \in Stations /\ owner[token[w]] = w
  BY HasStation DEF OwnerInv, Operating
<1>2. /\ pc' = [pc EXCEPT ![w] = "idle"]
      /\ token' = [token EXCEPT ![w] = Nobody]
      /\ owner' = [owner EXCEPT ![token[w]] = Nobody]
  BY DEF Release
<1>3. ASSUME NEW v \in Workers
      PROVE  pc'[v] = "idle" <=> token'[v] = Nobody
  BY <1>2 DEF OwnerInv, TypeOK
<1>4. ASSUME NEW v \in Workers, NEW x \in Stations
      PROVE  owner'[x] = v <=> Operating(v, x)'
  BY <1>1, <1>2, WorkersAssumption, StationsAssumption DEF OwnerInv, TypeOK, Operating
<1>5. QED
  BY <1>3, <1>4 DEF OwnerInv

\* Every step keeps tokens, workers and mutexes in agreement.
LEMMA OwnerNext ==
    ASSUME TypeOK, OwnerInv, [Next]_vars
    PROVE  OwnerInv'
<1>1. CASE UNCHANGED <<pc, token, owner>>
  BY <1>1 DEF OwnerInv, Operating
<1>2. ASSUME NEW w \in Workers, TakeToken(w)
      PROVE  OwnerInv'
  <2>1. Head(tokens) \in Stations
    BY <1>2, HeadTailProperties DEF TakeToken, TypeOK
  <2>2. QED
    BY <1>2, <2>1, StationsAssumption DEF TakeToken, OwnerInv, TypeOK, Operating
<1>3. ASSUME NEW w \in Workers, Lock(w)
      PROVE  OwnerInv'
  <2>1. token[w] \in Stations
    BY <1>3, HasStation DEF Lock
  <2>2. QED
    BY <1>3, <2>1, WorkersAssumption DEF Lock, OwnerInv, TypeOK, Operating
<1>4. ASSUME NEW w \in Workers, Swap(w)
      PROVE  OwnerInv'
  BY <1>4 DEF Swap, OwnerInv, TypeOK, Operating
<1>5. ASSUME NEW w \in Workers, Finish(w)
      PROVE  OwnerInv'
  BY <1>5, OwnerRelease DEF Finish
<1>6. ASSUME NEW w \in Workers, DispatchThrows(w)
      PROVE  OwnerInv'
  BY <1>6, OwnerRelease DEF DispatchThrows, Operating
<1>7. ASSUME NEW w \in Workers, NEW s \in Sinks, WriteThrows(w, s)
      PROVE  OwnerInv'
  BY <1>7, OwnerRelease DEF WriteThrows, Operating
<1>8. QED
  BY <1>1, <1>2, <1>3, <1>4, <1>5, <1>6, <1>7
     DEF Next, ProducerStep, ConfigStep, WorkerStep, vars, CallLog,
         Enqueue, NotifyPool, CallWait, WaitReturns, AddSink, DeleteSink,
         DeleteLogger, StartGroup, LogRun, NotifySink, NextSink, EndGroup,
         WriteMessage

\* Every step keeps the dispatch in progress with the dispatcher's owner.
LEMMA RouteNext ==
    ASSUME TypeOK, OwnerInv, RouteInv, [Next]_vars
    PROVE  RouteInv'
<1>1. CASE UNCHANGED <<group, dests, rest, alert, tray, owner>>
  BY <1>1 DEF RouteInv
<1>2. ASSUME NEW w \in Workers, Lock(w)
      PROVE  RouteInv'
  <2>1. owner[Dispatcher] # Nobody => owner'[Dispatcher] # Nobody
    BY <1>2, WorkersAssumption DEF Lock, TypeOK
  <2>2. QED
    BY <1>2, <2>1 DEF Lock, RouteInv
<1>3. ASSUME NEW w \in Workers, Swap(w)
      PROVE  RouteInv'
  <2>1. token[w] \in Stations
    BY <1>3, HasStation DEF Swap
  <2>2. tray[Dispatcher] # <<>> => tray'[Dispatcher] = tray[Dispatcher]
    BY <1>3, <2>1 DEF Swap, TypeOK
  <2>3. QED
    BY <1>3, <2>2 DEF Swap, RouteInv
<1>4. ASSUME NEW w \in Workers, Finish(w)
      PROVE  RouteInv'
  <2>1. token[w] \in Stations
    BY <1>4, HasStation DEF Finish
  <2>2. tray[Dispatcher] # <<>> => owner'[Dispatcher] = owner[Dispatcher]
    BY <1>4, <2>1 DEF Finish, Release, TypeOK
  <2>3. QED
    BY <1>4, <2>2 DEF Finish, RouteInv
<1>5. ASSUME NEW w \in Workers, StartGroup(w)
      PROVE  RouteInv'
  <2>1. owner[Dispatcher] = w
    BY <1>5, OperatingFacts DEF StartGroup
  <2>2. owner'[Dispatcher] # Nobody /\ tray'[Dispatcher] # <<>> /\ ~alert'
    BY <1>5, <2>1, WorkersAssumption DEF StartGroup, RouteInv
  <2>3. rest' # <<>> => group' # <<>> /\ dests' # <<>>
    BY <1>5 DEF StartGroup
  <2>4. QED
    BY <2>2, <2>3 DEF RouteInv
<1>6. ASSUME NEW w \in Workers, LogRun(w)
      PROVE  RouteInv'
  BY <1>6 DEF LogRun, RouteInv
<1>7. ASSUME NEW w \in Workers, NotifySink(w)
      PROVE  RouteInv'
  BY <1>7 DEF NotifySink, RouteInv
<1>8. ASSUME NEW w \in Workers, NextSink(w)
      PROVE  RouteInv'
  BY <1>8 DEF NextSink, RouteInv
<1>9. ASSUME NEW w \in Workers, EndGroup(w)
      PROVE  RouteInv'
  BY <1>9 DEF EndGroup, RouteInv
<1>10. ASSUME NEW w \in Workers, DispatchThrows(w)
       PROVE  RouteInv'
  BY <1>10 DEF DispatchThrows, RouteInv
<1>11. ASSUME NEW w \in Workers, NEW s \in Sinks, WriteMessage(w, s)
       PROVE  RouteInv'
  BY <1>11, StationsAssumption DEF WriteMessage, RouteInv, TypeOK
<1>12. ASSUME NEW w \in Workers, NEW s \in Sinks, WriteThrows(w, s)
       PROVE  RouteInv'
  <2>1. token[w] = s /\ s # Dispatcher
    BY <1>12, StationsAssumption DEF WriteThrows, Operating
  <2>2. tray'[Dispatcher] = tray[Dispatcher] /\ owner'[Dispatcher] = owner[Dispatcher]
    BY <1>12, <2>1 DEF WriteThrows, Release, TypeOK
  <2>3. QED
    BY <1>12, <2>2 DEF WriteThrows, RouteInv
<1>13. QED
  BY <1>1, <1>2, <1>3, <1>4, <1>5, <1>6, <1>7, <1>8, <1>9, <1>10, <1>11, <1>12
     DEF Next, ProducerStep, ConfigStep, WorkerStep, vars, CallLog, Enqueue,
         NotifyPool, CallWait, WaitReturns, AddSink, DeleteSink,
         DeleteLogger, TakeToken

-----------------------------------------------------------------------------
(* No message is stranded.                                                 *)

\* A posted token is coming; those under way stay under way.
LEMMA PostedIsComing ==
    ASSUME TypeOK, NEW x \in Stations, PostToken(x)
    PROVE  x \in ToSet(tokens') /\ ToSet(tokens) \subseteq ToSet(tokens')
<1>1. tokens \in Seq(Stations) /\ tokens' = Append(tokens, x)
  BY DEF PostToken, TypeOK
<1>2. ToSet(Append(tokens, x)) = ToSet(tokens) \cup {x}
  BY <1>1, ToSetAppend
<1>3. QED
  BY <1>1, <1>2

\* A worker that fails posts a token for the station it gives up, and the
\* other stations keep the workers they had.
LEMMA FailureKeeps ==
    ASSUME TypeOK, OwnerInv, NoStranded, NEW w \in Workers, NEW y \in Stations,
           Operating(w, y), PostToken(y), Release(w),
           UNCHANGED <<queue, ppc>>,
           \A x \in Stations \ {y} : tray'[x] = tray[x],
           \A x \in Sinks \ {y} : Announced(x) => Announced(x)'
    PROVE  NoStranded'
<1>1. y \in ToSet(tokens') /\ ToSet(tokens) \subseteq ToSet(tokens')
  BY PostedIsComing
<1>2. Coming(y)'
  BY <1>1 DEF Coming
<1>3. ASSUME NEW v \in Workers, v # w
      PROVE  token'[v] = token[v] /\ pc'[v] = pc[v]
  BY <1>3 DEF Release, TypeOK
<1>4. token[w] = y
  BY DEF Operating
<1>5. ASSUME NEW x \in Stations, x # y
      PROVE  /\ Coming(x) => Coming(x)'
             /\ (\E v \in Workers : Operating(v, x)) => (\E v \in Workers : Operating(v, x)')
             /\ Announced(x) => Announced(x)'
  <2>1. Coming(x) => Coming(x)'
    BY <1>1, <1>3, <1>4, <1>5 DEF Coming
  <2>2. (\E v \in Workers : Operating(v, x)) => (\E v \in Workers : Operating(v, x)')
    BY <1>3, <1>4, <1>5 DEF Operating
  <2>3. Announced(x) => Announced(x)'
    <3>1. CASE x = Dispatcher
      BY <3>1 DEF Announced
    <3>2. CASE x # Dispatcher
      BY <1>5, <3>2
    <3>3. QED
      BY <3>1, <3>2
  <2>4. QED
    BY <2>1, <2>2, <2>3
<1>6. QED
  BY <1>2, <1>5 DEF NoStranded

\* Every step leaves each waiting message somebody who will handle it.
LEMMA StrandedNext ==
    ASSUME TypeOK, OwnerInv, RouteInv, NoStranded, [Next]_vars
    PROVE  NoStranded'
<1>1. CASE UNCHANGED <<ppc, queue, tray, tokens, token, pc, dests, alert>>
  BY <1>1 DEF NoStranded, Coming, Announced, Operating
<1>2. ASSUME NEW p \in Producers, NEW m \in Messages, CallLog(p, m)
      PROVE  NoStranded'
  <2>1. \A q \in Producers : ppc[q] = "notify" => ppc'[q] = "notify"
    BY <1>2 DEF CallLog, TypeOK
  <2>2. UNCHANGED <<queue, tray, tokens, token, pc, dests, alert>>
    BY <1>2 DEF CallLog
  <2>3. QED
    BY <2>1, <2>2 DEF NoStranded, Coming, Announced, Operating
<1>3. ASSUME NEW p \in Producers, Enqueue(p)
      PROVE  NoStranded'
  <2>1. UNCHANGED <<tray, tokens, token, pc, dests, alert>>
    BY <1>3 DEF Enqueue
  <2>2. \A q \in Producers : ppc[q] = "notify" => ppc'[q] = "notify"
    BY <1>3 DEF Enqueue, TypeOK
  <2>3. queue[Dispatcher] = <<>> => ppc'[p] = "notify"
    BY <1>3 DEF Enqueue, TypeOK
  <2>4. \A s \in Sinks : queue'[s] = queue[s]
    BY <1>3, StationsAssumption DEF Enqueue, TypeOK
  <2>5. QED
    BY <2>1, <2>2, <2>3, <2>4 DEF NoStranded, Coming, Announced, Operating
<1>4. ASSUME NEW p \in Producers, NotifyPool(p)
      PROVE  NoStranded'
  <2>1. UNCHANGED <<queue, tray, token, pc, dests, alert>>
    BY <1>4 DEF NotifyPool
  <2>2. Dispatcher \in ToSet(tokens') /\ ToSet(tokens) \subseteq ToSet(tokens')
    BY <1>4, PostedIsComing DEF NotifyPool
  <2>3. QED
    BY <2>1, <2>2 DEF NoStranded, Coming, Announced, Operating
<1>5. ASSUME NEW p \in Producers, CallWait(p) \/ WaitReturns(p)
      PROVE  NoStranded'
  <2>1. \A q \in Producers : ppc[q] = "notify" => ppc'[q] = "notify"
    BY <1>5 DEF CallWait, WaitReturns, TypeOK
  <2>2. UNCHANGED <<queue, tray, tokens, token, pc, dests, alert>>
    BY <1>5 DEF CallWait, WaitReturns
  <2>3. QED
    BY <2>1, <2>2 DEF NoStranded, Coming, Announced, Operating
<1>6. ASSUME NEW w \in Workers, TakeToken(w)
      PROVE  NoStranded'
  <2>1. UNCHANGED <<ppc, queue, tray, dests, alert>>
    BY <1>6 DEF TakeToken
  <2>2. \A v \in Workers : v # w => token'[v] = token[v] /\ pc'[v] = pc[v]
    BY <1>6 DEF TakeToken, TypeOK
  <2>3. pc[w] = "idle" /\ token'[w] = Head(tokens) /\ pc'[w] = "lock"
    BY <1>6 DEF TakeToken, TypeOK
  <2>4. ToSet(tokens) = {Head(tokens)} \cup ToSet(tokens')
    BY <1>6, ToSetTail DEF TakeToken, TypeOK
  <2>5. QED
    BY <2>1, <2>2, <2>3, <2>4 DEF NoStranded, Coming, Announced, Operating
<1>7. ASSUME NEW w \in Workers, Lock(w)
      PROVE  NoStranded'
  <2>1. UNCHANGED <<ppc, queue, tray, tokens, token, dests, alert>>
    BY <1>7 DEF Lock
  <2>2. pc[w] = "lock" /\ pc'[w] = "leftover"
    BY <1>7 DEF Lock, TypeOK
  <2>3. \A v \in Workers : v # w => pc'[v] = pc[v]
    BY <1>7 DEF Lock, TypeOK
  <2>4. QED
    BY <2>1, <2>2, <2>3 DEF NoStranded, Coming, Announced, Operating
<1>8. ASSUME NEW w \in Workers, Swap(w)
      PROVE  NoStranded'
  <2>1. token[w] \in Stations
    BY <1>8, HasStation DEF Swap
  <2>2. /\ queue'[token[w]] = <<>> /\ token'[w] = token[w] /\ pc'[w] = "batch"
        /\ UNCHANGED <<ppc, tokens, token, dests, alert>>
    BY <1>8, <2>1 DEF Swap, TypeOK
  <2>3. \A v \in Workers : v # w => pc'[v] = pc[v]
    BY <1>8 DEF Swap, TypeOK
  <2>4. \A x \in Stations : x # token[w] => queue'[x] = queue[x] /\ tray'[x] = tray[x]
    BY <1>8 DEF Swap, TypeOK
  <2>5. QED
    BY <2>1, <2>2, <2>3, <2>4 DEF NoStranded, Coming, Announced, Operating
<1>9. ASSUME NEW w \in Workers, Finish(w)
      PROVE  NoStranded'
  <2>1. token[w] \in Stations /\ tray[token[w]] = <<>>
    BY <1>9, HasStation DEF Finish
  <2>2. UNCHANGED <<ppc, queue, tray, tokens, dests, alert>>
    BY <1>9 DEF Finish
  <2>3. \A v \in Workers : v # w => token'[v] = token[v] /\ pc'[v] = pc[v]
    BY <1>9 DEF Finish, Release, TypeOK
  <2>4. pc[w] = "batch" \/ queue[token[w]] = <<>>
    BY <1>9 DEF Finish
  <2>5. QED
    BY <2>1, <2>2, <2>3, <2>4 DEF NoStranded, Coming, Announced, Operating
<1>10. ASSUME NEW w \in Workers, StartGroup(w)
       PROVE  NoStranded'
  <2>1. ~alert
    BY <1>10 DEF StartGroup, RouteInv
  <2>2. UNCHANGED <<ppc, queue, tray, tokens, token, pc, alert>>
    BY <1>10 DEF StartGroup
  <2>3. QED
    BY <2>1, <2>2 DEF NoStranded, Coming, Announced, Operating
<1>11. ASSUME NEW w \in Workers, LogRun(w)
       PROVE  NoStranded'
  <2> DEFINE s == Head(dests)
             run == AcceptedRun(s)
  <2>1. s \in Sinks /\ s # Dispatcher
    BY <1>11, HeadTailProperties, StationsAssumption DEF LogRun, RouteInv, TypeOK
  <2>2. /\ queue' = [queue EXCEPT ![s] = queue[s] \o run]
        /\ alert' = (run # <<>> /\ queue[s] = <<>>)
        /\ UNCHANGED <<ppc, dests, tray, tokens, token, pc>>
        /\ ~alert
    BY <1>11 DEF LogRun
  <2>3. queue[s] = <<>> /\ run = <<>> => queue[s] \o run = <<>>
    BY EmptySeq, ConcatEmptySeq
  <2>4. \A x \in Stations : x # s => queue'[x] = queue[x]
    BY <2>2 DEF TypeOK
  <2>5. queue'[s] = queue[s] \o run
    BY <2>1, <2>2 DEF TypeOK
  <2>6. queue'[s] # <<>> => Coming(s) \/ (alert' /\ Head(dests') = s)
    BY <2>1, <2>2, <2>3, <2>5 DEF NoStranded, Announced
  <2> HIDE DEF s, run
  <2>7. QED
    BY <2>1, <2>2, <2>4, <2>6 DEF NoStranded, Coming, Announced, Operating
<1>12. ASSUME NEW w \in Workers, NotifySink(w)
       PROVE  NoStranded'
  <2>1. Head(dests) \in Stations
    BY <1>12, HeadTailProperties DEF NotifySink, RouteInv, TypeOK
  <2>2. Head(dests) \in ToSet(tokens') /\ ToSet(tokens) \subseteq ToSet(tokens')
    BY <1>12, <2>1, PostedIsComing DEF NotifySink
  <2>3. UNCHANGED <<ppc, queue, tray, token, pc>>
    BY <1>12 DEF NotifySink
  <2>4. QED
    BY <2>2, <2>3 DEF NoStranded, Coming, Announced, Operating
<1>13. ASSUME NEW w \in Workers, NextSink(w)
       PROVE  NoStranded'
  BY <1>13 DEF NextSink, NoStranded, Coming, Announced, Operating
<1>14. ASSUME NEW w \in Workers, EndGroup(w)
       PROVE  NoStranded'
  <2>1. \A s \in Sinks : tray'[s] = tray[s]
    BY <1>14, StationsAssumption DEF EndGroup, TypeOK
  <2>2. Operating(w, Dispatcher)'
    BY <1>14 DEF EndGroup, Operating
  <2>3. UNCHANGED <<ppc, queue, tokens, token, pc, dests, alert>>
    BY <1>14 DEF EndGroup
  <2>4. QED
    BY <2>1, <2>2, <2>3 DEF NoStranded, Coming, Announced, Operating
<1>15. ASSUME NEW w \in Workers, DispatchThrows(w)
       PROVE  NoStranded'
  <2>1. \A x \in Stations \ {Dispatcher} : tray'[x] = tray[x]
    BY <1>15 DEF DispatchThrows, TypeOK
  <2>2. \A x \in Sinks \ {Dispatcher} : ~Announced(x)
    BY <1>15 DEF DispatchThrows, Announced
  <2>3. QED
    BY <1>15, <2>1, <2>2, FailureKeeps DEF DispatchThrows
<1>16. ASSUME NEW w \in Workers, NEW s \in Sinks, WriteMessage(w, s)
       PROVE  NoStranded'
  <2>1. \A x \in Stations : x # s => tray'[x] = tray[x]
    BY <1>16 DEF WriteMessage, TypeOK
  <2>2. Operating(w, s)'
    BY <1>16 DEF WriteMessage, Operating
  <2>3. UNCHANGED <<ppc, queue, tokens, token, pc, dests, alert>>
    BY <1>16 DEF WriteMessage
  <2>4. QED
    BY <2>1, <2>2, <2>3 DEF NoStranded, Coming, Announced, Operating
<1>17. ASSUME NEW w \in Workers, NEW s \in Sinks, WriteThrows(w, s)
       PROVE  NoStranded'
  <2>1. \A x \in Stations \ {s} : tray'[x] = tray[x]
    BY <1>17 DEF WriteThrows, TypeOK
  <2>2. \A x \in Sinks \ {s} : Announced(x) => Announced(x)'
    BY <1>17 DEF WriteThrows, Announced
  <2>3. QED
    BY <1>17, <2>1, <2>2, FailureKeeps DEF WriteThrows
<1>18. QED
  BY <1>1, <1>2, <1>3, <1>4, <1>5, <1>6, <1>7, <1>8, <1>9, <1>10, <1>11,
     <1>12, <1>13, <1>14, <1>15, <1>16, <1>17
     DEF Next, ProducerStep, ConfigStep, WorkerStep, vars, AddSink, DeleteSink,
         DeleteLogger

-----------------------------------------------------------------------------
(* The dispatch in progress.                                               *)

\* Every step keeps the pending sinks connected to the group's logger.
LEMMA LinkNext ==
    ASSUME TypeOK, OwnerInv, RouteInv, LinkInv, [Next]_vars
    PROVE  LinkInv'
<1>1. CASE UNCHANGED <<links, group, dests, rest>>
  BY <1>1 DEF LinkInv
<1>2. ASSUME group # <<>>
      PROVE  Head(group) \in Messages /\ Via[Head(group)] \in Loggers
  BY <1>2, HeadTailProperties, MessagesAssumption DEF TypeOK
<1>3. ASSUME NEW l \in Loggers, NEW s \in Sinks, AddSink(l, s) \/ DeleteSink(l, s)
      PROVE  LinkInv'
  <2>1. group # <<>> => links'[Via[Head(group)]] = links[Via[Head(group)]]
    BY <1>2, <1>3 DEF AddSink, DeleteSink, SinksLocked, TypeOK
  <2>2. UNCHANGED <<group, dests, rest>>
    BY <1>3 DEF AddSink, DeleteSink
  <2>3. QED
    BY <2>1, <2>2 DEF LinkInv
<1>4. ASSUME NEW w \in Workers, StartGroup(w)
      PROVE  LinkInv'
  <2>1. /\ group' = LeadingGroup(tray[Dispatcher])
        /\ dests' = links[Via[Head(tray[Dispatcher])]]
        /\ rest' = group' \/ rest' = <<>>
        /\ links' = links
        /\ tray[Dispatcher] \in Seq(Messages) /\ tray[Dispatcher] # <<>>
    BY <1>4 DEF StartGroup, TypeOK
  <2>2. /\ Head(group') = Head(tray[Dispatcher])
        /\ \A i \in 1 .. Len(group') : Via[group'[i]] = Via[Head(tray[Dispatcher])]
    BY <2>1, LeadingGroupType
  <2>3. 1 .. Len(<<>>) = {}
    BY EmptySeq
  <2>4. QED
    BY <2>1, <2>2, <2>3 DEF LinkInv
<1>5. ASSUME NEW w \in Workers, LogRun(w)
      PROVE  LinkInv'
  <2> DEFINE n == Len(AcceptedRun(Head(dests))) + 1
  <2>1. /\ rest' = Drop(rest, n) /\ UNCHANGED <<links, group, dests>>
        /\ rest \in Seq(Messages)
    BY <1>5 DEF LogRun, TypeOK
  <2>2. n \in Nat
    BY <2>1, AcceptedRunType, LenProperties
  <2> HIDE DEF n
  <2>3. \A i \in 1 .. Len(rest') : rest'[i] = rest[n + i] /\ n + i \in 1 .. Len(rest)
    BY <2>1, <2>2, DropType
  <2>4. QED
    BY <2>1, <2>3 DEF LinkInv
<1>6. ASSUME NEW w \in Workers, NextSink(w)
      PROVE  LinkInv'
  <2>1. /\ dests \in Seq(Sinks) /\ dests # <<>> /\ dests' = Tail(dests)
        /\ rest' = group \/ rest' = <<>>
        /\ UNCHANGED <<links, group>>
    BY <1>6 DEF NextSink, TypeOK
  <2>2. ToSet(dests') \subseteq ToSet(dests)
    BY <2>1, ToSetTail
  <2>3. 1 .. Len(<<>>) = {}
    BY EmptySeq
  <2>4. QED
    BY <2>1, <2>2, <2>3 DEF LinkInv
<1>7. ASSUME NEW w \in Workers, EndGroup(w) \/ DispatchThrows(w)
      PROVE  LinkInv'
  BY <1>7 DEF EndGroup, DispatchThrows, LinkInv
<1>8. QED
  BY <1>1, <1>3, <1>4, <1>5, <1>6, <1>7
     DEF Next, ProducerStep, ConfigStep, WorkerStep, vars, CallLog, Enqueue,
         NotifyPool, CallWait, WaitReturns, DeleteLogger, TakeToken, Lock, Swap,
         Finish, NotifySink, WriteMessage, WriteThrows

-----------------------------------------------------------------------------
(* The theorems.                                                           *)

\* The invariant holds at first.
LEMMA PInvInit == Init => PInv
<1>1. SUFFICES ASSUME Init PROVE PInv
  OBVIOUS
<1>2. TypeOK
  BY <1>1, TypeInit
<1>3. MsgInv /\ OwnerInv
  BY <1>1, WorkersAssumption, StationsAssumption DEF Init, MsgInv, OwnerInv, Operating
<1>4. RouteInv /\ LinkInv
  BY <1>1 DEF Init, RouteInv, LinkInv
<1>5. NoStranded
  BY <1>1 DEF Init, NoStranded
<1>6. QED
  BY <1>2, <1>3, <1>4, <1>5 DEF PInv

\* Every step keeps the invariant.
LEMMA PInvNext == PInv /\ [Next]_vars => PInv'
BY TypeNext, MsgNext, OwnerNext, RouteNext, LinkNext, StrandedNext DEF PInv

\* PInv holds in every state of every behaviour.
THEOREM PipelineInvariance == Spec => []PInv
<1>1. QED
  BY PInvInit, PInvNext, PTL DEF Spec

\* Every variable of the pipeline keeps its type: queues and trays hold
\* messages, tokens are of stations, each mutex is owned by a worker.
THEOREM PipelineTypes == Spec => []TypeOK
<1>1. PInv => TypeOK
  BY DEF PInv
<1>2. QED
  BY <1>1, PipelineInvariance, PTL

\* A queued message always has a token posted, taken or announced for it, and
\* a message in a tray a worker or a token, whatever filters and modules throw.
THEOREM NothingStranded == Spec => []NoStranded
<1>1. PInv => NoStranded
  BY DEF PInv
<1>2. QED
  BY <1>1, PipelineInvariance, PTL

\* An idle pool is a drained one.
LEMMA IdleIsDrained == PInv => IdleMeansDrained
<1>1. SUFFICES ASSUME PInv, PoolIdle
               PROVE  /\ \A x \in Stations : tray[x] = <<>>
                      /\ \A s \in Sinks : queue[s] = <<>>
                      /\ queue[Dispatcher] # <<>> =>
                            \E p \in Producers : ppc[p] = "notify"
  BY DEF IdleMeansDrained
<1>2. \A x \in Stations, w \in Workers : ~Operating(w, x)
  BY <1>1 DEF PoolIdle, Operating
<1>3. ToSet(tokens) = {}
  <2>1. tokens \in Seq(Stations)
    BY <1>1 DEF PInv, TypeOK
  <2>2. ToSet(tokens) = {tokens[i] : i \in 1 .. Len(tokens)}
    BY <2>1, ToSetOf
  <2>3. 1 .. Len(tokens) = {}
    BY <1>1, EmptySeq DEF PoolIdle
  <2>4. QED
    BY <2>2, <2>3
<1>4. \A x \in Stations : ~Coming(x)
  BY <1>1, <1>3 DEF PoolIdle, Coming
<1>5. owner[Dispatcher] = Nobody
  BY <1>1, <1>2 DEF PInv, TypeOK, OwnerInv
<1>6. ~alert
  BY <1>1, <1>5 DEF PInv, RouteInv
<1>7. QED
  BY <1>1, <1>2, <1>4, <1>6, StationsAssumption DEF PInv, NoStranded, Announced

\* wait_until_idle() finds an idle pool only when nothing is left but what a
\* log() has queued whose notification of the pool is still due.
THEOREM IdleDrained == Spec => []IdleMeansDrained
BY IdleIsDrained, PipelineInvariance, PTL

\* With a single logging thread there is no such log(): its wait_until_idle()
\* returns when all it has logged before has left the queues and the trays.
THEOREM WaitCoversSoleLogger ==
    ASSUME \A p, q \in Producers : p = q
    PROVE  Spec => WaitCoversOwnMessages
<1> DEFINE A == \A p \in Producers :
                   ppc[p] = "wait" /\ ppc'[p] = "user" =>
                       \A m \in ToSet(accepted) : Author[m] = p => Settled(m)
<1>1. ASSUME PInv, [Next]_vars, NEW p \in Producers, ppc[p] = "wait", ppc'[p] = "user"
      PROVE  \A m : Settled(m)
  <2>1. PoolIdle
    <3>1. ASSUME NEW q \in Producers, ProducerStep(q)
          PROVE  PoolIdle
      <4>1. q = p
        OBVIOUS
      <4>2. WaitReturns(p)
        BY <1>1, <3>1, <4>1
           DEF ProducerStep, CallLog, Enqueue, NotifyPool, CallWait
      <4>3. QED
        BY <4>2 DEF WaitReturns
    <3>2. CASE UNCHANGED ppc
      BY <1>1, <3>2
    <3>3. QED
      BY <1>1, <3>1, <3>2
         DEF Next, ConfigStep, AddSink, DeleteSink, DeleteLogger, WorkerStep,
             TakeToken, Lock, Swap, Finish, StartGroup, LogRun, NotifySink,
             NextSink, EndGroup, DispatchThrows, WriteMessage, WriteThrows,
             producerVars, vars
  <2>2. ~ \E q \in Producers : ppc[q] = "notify"
    BY <1>1
  <2>3. \A x \in Stations : tray[x] = <<>> /\ queue[x] = <<>>
    BY <1>1, <2>1, <2>2, IdleIsDrained DEF IdleMeansDrained, Stations
  <2>4. ToSet(<<>>) = {}
    BY DEF ToSet
  <2>5. QED
    BY <2>3, <2>4 DEF Settled
<1>2. PInv /\ [Next]_vars => [A]_vars
  BY <1>1
<1>3. QED
  BY <1>2, PipelineInvariance, PTL DEF Spec, WaitCoversOwnMessages

\* delete_sink() and add_sink() wait for the dispatch in progress: what a sink
\* receives comes over a logger it is connected to at that moment.
THEOREM ReceivedConnected == Spec => ReceivedOnlyWhileConnected
<1> DEFINE Connected ==
      \A s \in Sinks :
          received'[s] # received[s] =>
              \A i \in Len(received[s]) + 1 .. Len(received'[s]) :
                  s \in ToSet(links[Via[received'[s][i]]])
<1>1. ASSUME PInv, [Next]_vars
      PROVE  Connected
  <2>1. CASE UNCHANGED received
    BY <2>1
  <2>2. ASSUME NEW w \in Workers, LogRun(w)
        PROVE  Connected
    <3> DEFINE d == Head(dests)
               run == AcceptedRun(d)
    <3>1. /\ received' = [received EXCEPT ![d] = received[d] \o run]
          /\ rest # <<>> /\ group # <<>> /\ dests # <<>>
          /\ rest \in Seq(Messages) /\ dests \in Seq(Sinks)
          /\ received \in [Sinks -> Seq(Messages)]
      BY <1>1, <2>2 DEF LogRun, PInv, RouteInv, TypeOK
    <3>2. d \in Sinks /\ d \in ToSet(dests)
      BY <3>1, ToSetTail
    <3>3. /\ run \in Seq(Messages) /\ Len(run) <= Len(rest)
          /\ \A j \in 1 .. Len(run) : run[j] = rest[j]
      BY <3>1, AcceptedRunType
    <3>4. /\ d \in ToSet(links[Via[Head(group)]])
          /\ \A i \in 1 .. Len(rest) : Via[rest[i]] = Via[Head(group)]
      BY <1>1, <3>1, <3>2 DEF PInv, LinkInv
    <3> HIDE DEF d, run
    <3>5. \A s \in Sinks : s # d => received'[s] = received[s]
      BY <3>1
    <3>6. received'[d] = received[d] \o run
      BY <3>1, <3>2
    <3>7. Len(received[d]) \in Nat /\ Len(run) \in Nat /\ Len(rest) \in Nat
      BY <3>1, <3>2, <3>3, LenProperties
    <3>8. /\ Len(received'[d]) = Len(received[d]) + Len(run)
          /\ \A i \in 1 .. Len(received[d]) + Len(run) :
                (received[d] \o run)[i] = IF i <= Len(received[d]) THEN received[d][i]
                                          ELSE run[i - Len(received[d])]
      BY <3>1, <3>2, <3>3, <3>6, ConcatProperties
    <3>9. ASSUME NEW i \in Len(received[d]) + 1 .. Len(received'[d])
          PROVE  d \in ToSet(links[Via[received'[d][i]]])
      <4>1. i - Len(received[d]) \in 1 .. Len(run)
        BY <3>7, <3>8
      <4>2. received'[d][i] = run[i - Len(received[d])]
        BY <3>6, <3>7, <3>8
      <4>3. Via[received'[d][i]] = Via[Head(group)]
        <5> DEFINE k == i - Len(received[d])
        <5>1. k \in 1 .. Len(run) /\ received'[d][i] = run[k]
          BY <4>1, <4>2
        <5> HIDE DEF k
        <5>2. run[k] = rest[k] /\ k \in 1 .. Len(rest)
          BY <3>3, <3>7, <5>1
        <5>3. QED
          BY <3>4, <5>1, <5>2
      <4>4. QED
        BY <3>4, <4>3
    <3>10. QED
      BY <3>5, <3>9
  <2>3. QED
    BY <1>1, <2>1, <2>2
       DEF Next, ProducerStep, ConfigStep, WorkerStep, vars, CallLog, Enqueue,
           NotifyPool, CallWait, WaitReturns, AddSink, DeleteSink, DeleteLogger,
           TakeToken, Lock, Swap, Finish, StartGroup, NotifySink, NextSink,
           EndGroup, DispatchThrows, WriteMessage, WriteThrows
<1>2. PInv /\ [Next]_vars => [Connected]_vars
  BY <1>1
<1>3. QED
  BY <1>2, PipelineInvariance, PTL DEF Spec, ReceivedOnlyWhileConnected

=============================================================================
