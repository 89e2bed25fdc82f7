------------------------ MODULE PipelineOrderProofs ------------------------
(***************************************************************************)
(* Proofs about what becomes of each message, for any workers, producers,  *)
(* loggers, sinks and messages, whatever the filters and modules do: no    *)
(* sink loses or repeats a message it received, all sinks write along the  *)
(* order of acceptance, and a filter that throws costs only its group.     *)
(***************************************************************************)
EXTENDS PipelineProofs

\* A message accepted has been logged; one that log() is about to enqueue has
\* not been accepted, and is its producer's own.
AcceptedInv ==
    /\ ToSet(accepted) \subseteq logged
    /\ \A p \in Producers :
          ppc[p] = "checked" => msg[p] \in logged \ ToSet(accepted) /\ Author[msg[p]] = p

\* The messages of sink s still to be written, of the dispatcher still to be
\* erased from the tray, and the number of those erased.
Inbox(s) == tray[s] \o queue[s]
Backlog == tray[Dispatcher] \o queue[Dispatcher]
Processed == Len(accepted) - Len(Backlog)

\* The backlog is what was accepted last; an inbox is what was received last,
\* and what is written was received before that.
QueueInv ==
    /\ EndsWith(accepted, Backlog)
    /\ \A s \in Sinks :
          /\ EndsWith(received[s], Inbox(s))
          /\ \A i \in 1 .. Len(written[s]) :
                \E j \in 1 .. Len(received[s]) - Len(Inbox(s)) : written[s][i] = received[s][j]

\* The group of a dispatch in progress is at the front of the tray, what a sink
\* has not seen of it at its end.
GroupInv ==
    /\ Len(group) <= Len(tray[Dispatcher])
    /\ \A i \in 1 .. Len(group) : group[i] = tray[Dispatcher][i]
    /\ EndsWith(group, rest)
    /\ group = <<>> => dests = <<>>

\* No logger has a sink twice, and one it had at first is gone only if it was
\* disconnected.
LinksInv ==
    /\ Distinct(dests)
    /\ \A l \in Loggers : Distinct(links[l])
    /\ \A l \in Loggers : \A s \in ToSet(Links[l]) :
          s \in ToSet(links[l]) \/ <<l, s>> \in Reconfigured

\* How many of the accepted messages sink s has been offered.
Reached(s) ==
    IF s \notin ToSet(dests) THEN Processed + Len(group)
    ELSE IF s = Head(dests) THEN Processed + Len(group) - Len(rest)
    ELSE Processed

\* The messages of q are some of the first n of a, in their order.
Along(q, a, n) ==
    \E pos \in [1 .. Len(q) -> 1 .. n] :
        /\ \A i \in 1 .. Len(q) : q[i] = a[pos[i]]
        /\ \A i, j \in 1 .. Len(q) : i < j => pos[i] < pos[j]

\* Each sink has received some of the messages offered to it, in their order.
OrderInv == \A s \in Sinks : Along(received[s], accepted, Reached(s))

\* Sink s received m or had a reason not to.
Handled(s, m) ==
    \/ m \in ToSet(received[s])
    \/ <<s, m>> \in SinkRejects
    \/ <<Via[m], s>> \in Reconfigured
    \/ \E f \in FilterThrows : SameRun(m, f[2])

\* A sink has handled every message offered to it that is meant for it.
LossInv ==
    \A s \in Sinks : \A i \in 1 .. Reached(s) :
        s \in ToSet(Links[Via[accepted[i]]]) => Handled(s, accepted[i])

USE DEF Stations, producerVars, loggerVars, stationVars, poolVars, routeVars

-----------------------------------------------------------------------------
(* The messages a sink's module does not fail on.                          *)

\* What Survivors() computes for the first n messages of q.
KeptAt(f, s, q, n) ==
    IF n = 0 THEN <<>>
    ELSE IF <<s, q[n]>> \in ModuleThrows THEN f[n - 1]
    ELSE Append(f[n - 1], q[n])

Keeps(f, s, q, N) == f = [n \in 0 .. N |-> KeptAt(f, s, q, n)]

\* The recursion of Survivors() defines a function.
LEMMA KeepsExists ==
    ASSUME NEW s, NEW q, NEW N \in Nat
    PROVE  \E f : Keeps(f, s, q, N)
<1> DEFINE I == {n \in Nat : \E f : Keeps(f, s, q, n)}
<1>1. 0 \in I
  <2> DEFINE f == [n \in 0 .. 0 |-> <<>>]
  <2>1. \A n \in 0 .. 0 : KeptAt(f, s, q, n) = <<>>
    BY DEF KeptAt
  <2>2. Keeps(f, s, q, 0)
    BY <2>1 DEF Keeps
  <2>3. QED
    BY <2>2
<1>2. ASSUME NEW n \in Nat, n \in I
      PROVE  n + 1 \in I
  <2>1. PICK f : Keeps(f, s, q, n)
    BY <1>2
  <2> DEFINE last == KeptAt(f, s, q, n + 1)
             g == [k \in 0 .. n + 1 |-> IF k = n + 1 THEN last ELSE f[k]]
  <2>2. \A k \in 0 .. n : f[k] = KeptAt(f, s, q, k)
    BY <2>1 DEF Keeps
  <2>3. /\ \A k \in 0 .. n : k \in 0 .. n + 1 /\ k # n + 1
        /\ n + 1 \in 0 .. n + 1
        /\ \A k \in 0 .. n + 1 : k \in 0 .. n \/ k = n + 1
        /\ \A k \in 0 .. n + 1 : k # 0 => k - 1 \in 0 .. n
    OBVIOUS
  <2>4. (\A k \in 0 .. n : g[k] = f[k]) /\ g[n + 1] = last
    BY <2>3
  <2>5. \A k \in 0 .. n + 1 : KeptAt(g, s, q, k) = KeptAt(f, s, q, k)
    <3> HIDE DEF g
    <3>1. QED
      BY <2>3, <2>4 DEF KeptAt
  <2>6. \A k \in 0 .. n + 1 : g[k] = KeptAt(g, s, q, k)
    <3> HIDE DEF g
    <3>1. QED
      BY <2>2, <2>3, <2>4, <2>5
  <2>7. g = [k \in 0 .. n + 1 |-> g[k]]
    OBVIOUS
  <2> HIDE DEF g
  <2>8. Keeps(g, s, q, n + 1)
    BY <2>6, <2>7 DEF Keeps
  <2>9. QED
    BY <2>8
<1> HIDE DEF I
<1>3. Nat \subseteq I
  BY <1>1, <1>2, NatInduct
<1>4. QED
  BY <1>3 DEF I

\* From the first n messages to the first n + 1.
KeptNext(f, s, q, n) ==
    f[n + 1] = IF <<s, q[n + 1]>> \in ModuleThrows THEN f[n] ELSE Append(f[n], q[n + 1])

\* The recursion, step by step.
LEMMA KeepsStep ==
    ASSUME NEW s, NEW q, NEW N \in Nat, NEW f, Keeps(f, s, q, N)
    PROVE  /\ f[0] = <<>>
           /\ \A n \in 0 .. N - 1 : KeptNext(f, s, q, n)
<1>1. \A n \in 0 .. N : f[n] = KeptAt(f, s, q, n)
  BY DEF Keeps
<1>2. f[0] = <<>>
  <2>1. 0 \in 0 .. N
    OBVIOUS
  <2>2. KeptAt(f, s, q, 0) = <<>>
    BY DEF KeptAt
  <2>3. QED
    BY <1>1, <2>1, <2>2
<1>3. ASSUME NEW n \in 0 .. N - 1
      PROVE  KeptNext(f, s, q, n)
  <2>1. n + 1 \in 0 .. N /\ n + 1 # 0 /\ (n + 1) - 1 = n
    OBVIOUS
  <2>2. f[n + 1] = KeptAt(f, s, q, n + 1)
    BY <1>1, <2>1
  <2>3. QED
    BY <2>1, <2>2 DEF KeptAt, KeptNext
<1>4. QED
  BY <1>2, <1>3

\* Survivors() by its recursion.
LEMMA SurvivorsKeeps ==
    ASSUME NEW s, NEW q \in Seq(Messages)
    PROVE  \E f : Keeps(f, s, q, Len(q)) /\ Survivors(s, q) = f[Len(q)]
<1> DEFINE K == CHOOSE f : Keeps(f, s, q, Len(q))
<1>1. Len(q) \in Nat
  BY LenProperties
<1>2. Keeps(K, s, q, Len(q))
  BY <1>1, KeepsExists
<1>3. Survivors(s, q) = K[Len(q)]
  BY DEF Survivors, Keeps, KeptAt
<1>4. QED
  BY <1>2, <1>3

\* The survivors are messages.
LEMMA KeepsType ==
    ASSUME NEW s, NEW q \in Seq(Messages), NEW f, Keeps(f, s, q, Len(q))
    PROVE  \A n \in 0 .. Len(q) : f[n] \in Seq(Messages)
<1> DEFINE P(n) == n <= Len(q) => f[n] \in Seq(Messages)
           I == {n \in Nat : P(n)}
<1>0. Len(q) \in Nat
  BY LenProperties
<1>1. /\ f[0] = <<>>
      /\ \A n \in 0 .. Len(q) - 1 : KeptNext(f, s, q, n)
  BY <1>0, KeepsStep
<1>2. P(0)
  BY <1>1, EmptySeq
<1>3. ASSUME NEW n \in Nat, P(n)
      PROVE  P(n + 1)
  <2>1. SUFFICES ASSUME n + 1 <= Len(q)
                 PROVE  f[n + 1] \in Seq(Messages)
    OBVIOUS
  <2>2. n \in 0 .. Len(q) - 1 /\ n + 1 \in 1 .. Len(q) /\ n <= Len(q)
    BY <1>0, <2>1
  <2>3. q[n + 1] \in Messages /\ f[n] \in Seq(Messages)
    BY <1>3, <2>2, ElementOfSeq
  <2>4. Append(f[n], q[n + 1]) \in Seq(Messages)
    BY <2>3, AppendProperties
  <2>5. QED
    BY <1>1, <2>2, <2>3, <2>4 DEF KeptNext
<1> HIDE DEF P
<1>4. 0 \in I /\ \A n \in Nat : n \in I => n + 1 \in I
  BY <1>2, <1>3
<1> HIDE DEF I
<1>5. Nat \subseteq I
  BY <1>4, NatInduct
<1>6. QED
  BY <1>0, <1>5 DEF I, P

\* The survivors among the first messages of a sequence do not depend on what
\* follows them.
LEMMA KeepsPrefix ==
    ASSUME NEW s, NEW p \in Seq(Messages), NEW q \in Seq(Messages),
           Len(p) <= Len(q), \A i \in 1 .. Len(p) : q[i] = p[i],
           NEW f, Keeps(f, s, p, Len(p)), NEW h, Keeps(h, s, q, Len(q))
    PROVE  h[Len(p)] = f[Len(p)]
<1> DEFINE P(n) == n <= Len(p) => h[n] = f[n]
           I == {n \in Nat : P(n)}
<1>0. Len(p) \in Nat /\ Len(q) \in Nat
  BY LenProperties
<1>1. /\ f[0] = <<>>
      /\ \A n \in 0 .. Len(p) - 1 : KeptNext(f, s, p, n)
  BY <1>0, KeepsStep
<1>2. /\ h[0] = <<>>
      /\ \A n \in 0 .. Len(q) - 1 : KeptNext(h, s, q, n)
  BY <1>0, KeepsStep
<1>3. P(0)
  BY <1>1, <1>2
<1>4. ASSUME NEW n \in Nat, P(n)
      PROVE  P(n + 1)
  <2>1. SUFFICES ASSUME n + 1 <= Len(p)
                 PROVE  h[n + 1] = f[n + 1]
    OBVIOUS
  <2>2. /\ n \in 0 .. Len(p) - 1 /\ n \in 0 .. Len(q) - 1
        /\ n + 1 \in 1 .. Len(p) /\ n <= Len(p)
    BY <1>0, <2>1
  <2>3. q[n + 1] = p[n + 1] /\ h[n] = f[n]
    BY <1>4, <2>2
  <2>4. QED
    BY <1>1, <1>2, <2>2, <2>3 DEF KeptNext
<1> HIDE DEF P
<1>5. 0 \in I /\ \A n \in Nat : n \in I => n + 1 \in I
  BY <1>3, <1>4
<1> HIDE DEF I
<1>6. Nat \subseteq I
  BY <1>5, NatInduct
<1>7. QED
  BY <1>0, <1>6 DEF I, P

\* The survivors of two sequences follow each other.
LEMMA SurvivorsConcat ==
    ASSUME NEW s, NEW p \in Seq(Messages), NEW q \in Seq(Messages)
    PROVE  /\ Survivors(s, p) \in Seq(Messages)
           /\ Survivors(s, p \o q) = Survivors(s, p) \o Survivors(s, q)
<1>1. /\ Len(p) \in Nat /\ Len(q) \in Nat
      /\ p \o q \in Seq(Messages) /\ Len(p \o q) = Len(p) + Len(q)
  BY LenProperties, ConcatProperties
<1>2. /\ \A i \in 1 .. Len(p) : (p \o q)[i] = p[i]
      /\ \A i \in 1 .. Len(q) : (p \o q)[Len(p) + i] = q[i]
  <2>1. \A i \in 1 .. Len(p) + Len(q) :
           (p \o q)[i] = IF i <= Len(p) THEN p[i] ELSE q[i - Len(p)]
    BY ConcatProperties
  <2>2. ASSUME NEW i \in 1 .. Len(q)
        PROVE  (p \o q)[Len(p) + i] = q[i]
    <3>1. Len(p) + i \in 1 .. Len(p) + Len(q) /\ ~ (Len(p) + i <= Len(p)) /\ (Len(p) + i) - Len(p) = i
      BY <1>1
    <3>2. QED
      BY <2>1, <3>1
  <2>3. QED
    BY <1>1, <2>1, <2>2
<1>3. PICK f : Keeps(f, s, p, Len(p)) /\ Survivors(s, p) = f[Len(p)]
  BY SurvivorsKeeps
<1>4. PICK g : Keeps(g, s, q, Len(q)) /\ Survivors(s, q) = g[Len(q)]
  BY SurvivorsKeeps
<1>5. PICK h : Keeps(h, s, p \o q, Len(p \o q)) /\ Survivors(s, p \o q) = h[Len(p \o q)]
  BY <1>1, SurvivorsKeeps
<1>6. PICK a \in Seq(Messages) : f[Len(p)] = a /\ h[Len(p)] = a
  <2>1. Len(p) <= Len(p \o q) /\ Len(p) \in 0 .. Len(p)
    BY <1>1
  <2>2. f[Len(p)] \in Seq(Messages)
    BY <1>3, <2>1, KeepsType
  <2>3. PICK r \in Seq(Messages) : r = p \o q
    BY <1>1
  <2>4. /\ Len(p) <= Len(r) /\ \A i \in 1 .. Len(p) : r[i] = p[i]
        /\ Keeps(h, s, r, Len(r)) /\ Keeps(f, s, p, Len(p))
    BY <1>2, <1>3, <1>5, <2>1, <2>3
  <2>5. h[Len(p)] = f[Len(p)]
    BY <2>4, KeepsPrefix
  <2>6. QED
    BY <2>2, <2>5
<1> DEFINE P(n) == n <= Len(q) => h[Len(p) + n] = a \o g[n]
           I == {n \in Nat : P(n)}
<1>7. P(0)
  <2>1. g[0] = <<>>
    BY <1>1, <1>4, KeepsStep
  <2>2. a \o <<>> = a /\ Len(p) + 0 = Len(p)
    BY <1>1, <1>6, ConcatEmptySeq
  <2>3. QED
    BY <1>6, <2>1, <2>2
<1>8. ASSUME NEW n \in Nat, P(n)
      PROVE  P(n + 1)
  <2>1. SUFFICES ASSUME n + 1 <= Len(q)
                 PROVE  h[Len(p) + (n + 1)] = a \o g[n + 1]
    OBVIOUS
  <2>2. PICK k \in Nat : k = Len(p) + n
    BY <1>1
  <2>3. /\ n \in 0 .. Len(q) - 1 /\ k \in 0 .. Len(p \o q) - 1
        /\ n + 1 \in 1 .. Len(q) /\ n \in 0 .. Len(q) /\ n <= Len(q)
        /\ Len(p) + (n + 1) = k + 1
    BY <1>1, <2>1, <2>2
  <2>4. h[k] = a \o g[n] /\ g[n] \in Seq(Messages)
    BY <1>4, <1>8, <2>2, <2>3, KeepsType
  <2>5. (p \o q)[k + 1] = q[n + 1] /\ q[n + 1] \in Messages
    BY <1>2, <2>3, ElementOfSeq
  <2>6. KeptNext(g, s, q, n)
    BY <1>1, <1>4, <2>3, KeepsStep
  <2>7. KeptNext(h, s, p \o q, k)
    BY <1>1, <1>5, <2>3, KeepsStep
  <2>8. Append(a \o g[n], q[n + 1]) = a \o Append(g[n], q[n + 1])
    <3>1. PICK c \in Seq(Messages), e \in Messages : c = g[n] /\ e = q[n + 1]
      BY <2>4, <2>5
    <3>2. a \o Append(c, e) = Append(a \o c, e)
      BY AppendConcat
    <3>3. QED
      BY <3>1, <3>2
  <2>9. QED
    BY <2>3, <2>4, <2>5, <2>6, <2>7, <2>8 DEF KeptNext
<1>9. h[Len(p) + Len(q)] = a \o g[Len(q)]
  <2> HIDE DEF P
  <2>1. 0 \in I /\ \A n \in Nat : n \in I => n + 1 \in I
    BY <1>7, <1>8
  <2> HIDE DEF I
  <2>2. Nat \subseteq I
    BY <2>1, NatInduct
  <2>3. P(Len(q))
    BY <1>1, <2>2 DEF I
  <2>4. QED
    BY <1>1, <2>3 DEF P
<1>10. QED
  BY <1>1, <1>3, <1>4, <1>5, <1>6, <1>9

\* No message, no survivor.
LEMMA SurvivorsEmpty ==
    ASSUME NEW s
    PROVE  Survivors(s, <<>>) = <<>>
<1>1. <<>> \in Seq(Messages) /\ Len(<<>>) = 0
  BY EmptySeq
<1>2. PICK f : Keeps(f, s, <<>>, 0) /\ Survivors(s, <<>>) = f[0]
  BY <1>1, SurvivorsKeeps
<1>3. f[0] = <<>>
  BY <1>2, KeepsStep
<1>4. QED
  BY <1>2, <1>3

\* The head survives unless the module throws on it.
LEMMA SurvivorsHead ==
    ASSUME NEW s, NEW q \in Seq(Messages), q # <<>>
    PROVE  /\ <<s, Head(q)>> \in ModuleThrows => Survivors(s, q) = Survivors(s, Tail(q))
           /\ <<s, Head(q)>> \notin ModuleThrows =>
                 Survivors(s, q) = <<Head(q)>> \o Survivors(s, Tail(q))
<1>1. PICK e \in Messages : e = Head(q)
  BY HeadTailProperties
<1>2. PICK one \in Seq(Messages) : one = <<e>> /\ Len(one) = 1 /\ one[1] = e
  <2>1. <<e>> \in Seq(Messages) /\ Len(<<e>>) = 1 /\ <<e>>[1] = e
    OBVIOUS
  <2>2. QED
    BY <2>1
<1>3. PICK tail \in Seq(Messages) : tail = Tail(q)
  BY HeadTailProperties
<1>4. q = one \o tail
  <2>1. Append(<<>>, Head(q)) \o Tail(q) = <<>> \o q
    BY EmptySeq, MoveHead
  <2>2. Append(<<>>, e) = one /\ <<>> \o q = q
    BY <1>2, ConcatEmptySeq
  <2>3. QED
    BY <1>1, <1>3, <2>1, <2>2
<1>5. PICK f : Keeps(f, s, one, 1) /\ Survivors(s, one) = f[1]
  BY <1>2, SurvivorsKeeps
<1>6. f[0] = <<>> /\ KeptNext(f, s, one, 0)
  BY <1>5, KeepsStep
<1>7. f[1] = IF <<s, e>> \in ModuleThrows THEN <<>> ELSE one
  BY <1>2, <1>6 DEF KeptNext
<1>8. /\ Survivors(s, one \o tail) = Survivors(s, one) \o Survivors(s, tail)
      /\ Survivors(s, tail) \in Seq(Messages)
  BY SurvivorsConcat
<1>9. <<>> \o Survivors(s, tail) = Survivors(s, tail)
  BY <1>8, ConcatEmptySeq
<1>10. QED
  BY <1>1, <1>2, <1>3, <1>4, <1>5, <1>7, <1>8, <1>9

-----------------------------------------------------------------------------
(* What the steps do to the messages on their way.                         *)

\* Nothing happens at sink s; messages arrive at the end of its inbox; one
\* leaves it at the head, written unless the module throws.
Stays(s) == Inbox(s)' = Inbox(s) /\ received'[s] = received[s] /\ written'[s] = written[s]

Arrives(s, run) ==
    /\ Inbox(s)' = Inbox(s) \o run
    /\ received'[s] = received[s] \o run
    /\ written'[s] = written[s]

Departs(s) ==
    /\ Inbox(s) # <<>>
    /\ Inbox(s)' = Tail(Inbox(s))
    /\ received'[s] = received[s]
    /\ \/ <<s, Head(Inbox(s))>> \in ModuleThrows /\ written'[s] = written[s]
       \/ /\ <<s, Head(Inbox(s))>> \notin ModuleThrows
          /\ written'[s] = Append(written[s], Head(Inbox(s)))

\* Every step does one of these.
LEMMA InboxStep ==
    ASSUME TypeOK, RouteInv, [Next]_vars, NEW s \in Sinks
    PROVE  /\ Inbox(s) \in Seq(Messages)
           /\ Stays(s) \/ (\E run \in Seq(Messages) : Arrives(s, run)) \/ Departs(s)
<1>1. /\ s \in Stations /\ s # Dispatcher
      /\ tray[s] \in Seq(Messages) /\ queue[s] \in Seq(Messages)
  BY StationsAssumption DEF TypeOK
<1>2. PICK t, q : t = tray[s] /\ q = queue[s]
  OBVIOUS
<1>3. t \in Seq(Messages) /\ q \in Seq(Messages)
  BY <1>1, <1>2
<1>4. Inbox(s) = t \o q /\ t \o q \in Seq(Messages)
  BY <1>2, <1>3, ConcatProperties DEF Inbox
<1> DEFINE Goal == Stays(s) \/ (\E run \in Seq(Messages) : Arrives(s, run)) \/ Departs(s)
<1>5. ASSUME received'[s] = received[s], written'[s] = written[s],
             tray'[s] = tray[s], queue'[s] = queue[s]
      PROVE  Stays(s)
  BY <1>5 DEF Inbox, Stays
<1>6. ASSUME NEW p \in Producers, Enqueue(p)
      PROVE  Goal
  BY <1>1, <1>5, <1>6 DEF Enqueue, TypeOK
<1>7. ASSUME NEW w \in Workers, EndGroup(w) \/ DispatchThrows(w)
      PROVE  Goal
  BY <1>1, <1>5, <1>7 DEF EndGroup, DispatchThrows, TypeOK
<1>8. ASSUME NEW w \in Workers, Swap(w)
      PROVE  Goal
  <2>1. CASE token[w] = s
    <3>1. /\ t = <<>> /\ tray'[s] = q /\ queue'[s] = <<>>
          /\ received'[s] = received[s] /\ written'[s] = written[s]
      BY <1>1, <1>2, <1>8, <2>1 DEF Swap, TypeOK
    <3>2. q \o <<>> = <<>> \o q
      BY <1>3, ConcatEmptySeq
    <3>3. QED
      BY <1>4, <3>1, <3>2 DEF Inbox, Stays
  <2>2. CASE token[w] # s
    BY <1>1, <1>5, <1>8, <2>2 DEF Swap, TypeOK
  <2>3. QED
    BY <2>1, <2>2
<1>9. ASSUME NEW w \in Workers, LogRun(w)
      PROVE  Goal
  <2>1. CASE s # Head(dests)
    BY <1>1, <1>5, <1>9, <2>1 DEF LogRun, TypeOK
  <2>2. CASE s = Head(dests)
    <3>1. PICK run : run = AcceptedRun(s)
      OBVIOUS
    <3>2. run \in Seq(Messages)
      BY <3>1, AcceptedRunType DEF TypeOK
    <3>3. /\ queue'[s] = q \o run /\ received'[s] = received[s] \o run
          /\ tray'[s] = t /\ written'[s] = written[s]
      BY <1>1, <1>2, <1>9, <2>2, <3>1 DEF LogRun, TypeOK
    <3>4. (t \o q) \o run = t \o (q \o run)
      BY <1>3, <3>2, ConcatAssociative
    <3>5. Inbox(s)' = Inbox(s) \o run
      BY <1>4, <3>3, <3>4 DEF Inbox
    <3>6. QED
      BY <3>2, <3>3, <3>5 DEF Arrives
  <2>3. QED
    BY <2>1, <2>2
<1>10. ASSUME t # <<>>
       PROVE  /\ Inbox(s) # <<>> /\ Head(Inbox(s)) = Head(t)
              /\ Tail(Inbox(s)) = Tail(t) \o q
  BY <1>3, <1>4, <1>10, ConcatHeadTail
<1>11. ASSUME NEW w \in Workers, NEW x \in Sinks, WriteMessage(w, x) \/ WriteThrows(w, x)
       PROVE  Goal
  <2>1. CASE x = s
    <3>1. /\ t # <<>> /\ tray'[s] = Tail(t) /\ queue'[s] = q /\ received'[s] = received[s]
          /\ \/ <<s, Head(t)>> \in ModuleThrows /\ written'[s] = written[s]
             \/ <<s, Head(t)>> \notin ModuleThrows /\ written'[s] = Append(written[s], Head(t))
      BY <1>1, <1>2, <1>11, <2>1 DEF WriteMessage, WriteThrows, TypeOK
    <3>2. Inbox(s)' = Tail(t) \o q
      BY <3>1 DEF Inbox
    <3>3. QED
      BY <1>10, <3>1, <3>2 DEF Departs
  <2>2. CASE x # s
    BY <1>1, <1>5, <1>11, <2>2 DEF WriteMessage, WriteThrows, TypeOK
  <2>3. QED
    BY <2>1, <2>2
<1>12. ASSUME received' = received, written' = written, tray' = tray, queue' = queue
       PROVE  Goal
  BY <1>5, <1>12
<1>13. Goal
  BY <1>6, <1>7, <1>8, <1>9, <1>11, <1>12
     DEF Next, ProducerStep, ConfigStep, WorkerStep, vars, CallLog, NotifyPool,
         CallWait, WaitReturns, AddSink, DeleteSink, DeleteLogger, TakeToken,
         Lock, Finish, StartGroup, NotifySink, NextSink
<1>14. QED
  BY <1>4, <1>13

\* A step leaves accepted messages and backlog alone, accepts one message, or
\* erases the group from the tray.
Idles == accepted' = accepted /\ Backlog' = Backlog

Accepts(p) ==
    /\ Enqueue(p) /\ msg[p] \in Messages
    /\ accepted' = Append(accepted, msg[p])
    /\ Backlog' = Append(Backlog, msg[p])

Erases(w) ==
    /\ EndGroup(w) \/ DispatchThrows(w)
    /\ accepted' = accepted
    /\ Backlog' = Drop(Backlog, Len(group))

\* Every step does one of these.
LEMMA BacklogStep ==
    ASSUME TypeOK, MsgInv, RouteInv, GroupInv, [Next]_vars
    PROVE  /\ Backlog \in Seq(Messages) /\ Len(group) <= Len(Backlog)
           /\ Idles \/ (\E p \in Producers : Accepts(p)) \/ (\E w \in Workers : Erases(w))
           /\ \A w \in Workers : EndGroup(w) \/ DispatchThrows(w) => Erases(w)
<1>1. /\ Dispatcher \in Stations /\ Dispatcher \notin Sinks
      /\ tray[Dispatcher] \in Seq(Messages) /\ queue[Dispatcher] \in Seq(Messages)
      /\ group \in Seq(Messages)
  BY StationsAssumption DEF TypeOK
<1>2. PICK t, q : t = tray[Dispatcher] /\ q = queue[Dispatcher]
  OBVIOUS
<1>3. t \in Seq(Messages) /\ q \in Seq(Messages)
  BY <1>1, <1>2
<1>4. Backlog = t \o q /\ t \o q \in Seq(Messages) /\ Len(t \o q) = Len(t) + Len(q)
  BY <1>2, <1>3, ConcatProperties DEF Backlog
<1>5. Len(group) \in 0 .. Len(t) /\ Len(group) <= Len(Backlog)
  <2>1. Len(group) \in Nat /\ Len(t) \in Nat /\ Len(q) \in Nat
    BY <1>1, <1>3, LenProperties
  <2>2. Len(group) <= Len(t)
    BY <1>2 DEF GroupInv
  <2>3. QED
    BY <1>4, <2>1, <2>2
<1> DEFINE Goal == Idles \/ (\E p \in Producers : Accepts(p)) \/ (\E w \in Workers : Erases(w))
<1>6. ASSUME accepted' = accepted, tray'[Dispatcher] = tray[Dispatcher],
             queue'[Dispatcher] = queue[Dispatcher]
      PROVE  Goal
  BY <1>6 DEF Idles, Backlog
<1>7. ASSUME NEW p \in Producers, Enqueue(p)
      PROVE  Accepts(p)
  <2>1. msg[p] \in Messages
    BY <1>7 DEF Enqueue, MsgInv
  <2>2. PICK e : e \in Messages /\ e = msg[p]
    BY <2>1
  <2>3. /\ queue'[Dispatcher] = Append(q, e) /\ tray'[Dispatcher] = t
        /\ accepted' = Append(accepted, e)
    BY <1>1, <1>2, <1>7, <2>2 DEF Enqueue, TypeOK
  <2>4. t \o Append(q, e) = Append(t \o q, e)
    BY <1>3, <2>2, AppendConcat
  <2>5. Backlog' = Append(Backlog, e)
    BY <1>4, <2>3, <2>4 DEF Backlog
  <2>6. QED
    BY <1>7, <2>2, <2>3, <2>5 DEF Accepts
<1>8. ASSUME NEW w \in Workers, EndGroup(w) \/ DispatchThrows(w)
      PROVE  Erases(w)
  <2>1. PICK n : n = Len(group) /\ n \in 0 .. Len(t)
    BY <1>5
  <2>2. /\ tray'[Dispatcher] = SubSeq(t, n + 1, Len(t)) /\ queue'[Dispatcher] = q
        /\ accepted' = accepted
    BY <1>1, <1>2, <1>8, <2>1 DEF EndGroup, DispatchThrows, Drop, TypeOK
  <2>3. SubSeq(t, n + 1, Len(t)) \o q = SubSeq(t \o q, n + 1, Len(t \o q))
    BY <1>3, <2>1, DropConcat
  <2>4. Backlog' = SubSeq(Backlog, n + 1, Len(Backlog))
    BY <1>4, <2>2, <2>3 DEF Backlog
  <2>5. QED
    BY <1>8, <2>1, <2>2, <2>4 DEF Erases, Drop
<1>9. ASSUME NEW w \in Workers, Swap(w)
      PROVE  Goal
  <2>1. CASE token[w] = Dispatcher
    <3>1. t = <<>> /\ tray'[Dispatcher] = q /\ queue'[Dispatcher] = <<>> /\ accepted' = accepted
      BY <1>1, <1>2, <1>9, <2>1 DEF Swap, TypeOK
    <3>2. q \o <<>> = <<>> \o q
      BY <1>3, ConcatEmptySeq
    <3>3. QED
      BY <1>4, <3>1, <3>2 DEF Backlog, Idles
  <2>2. CASE token[w] # Dispatcher
    BY <1>1, <1>6, <1>9, <2>2 DEF Swap, TypeOK
  <2>3. QED
    BY <2>1, <2>2
<1>10. ASSUME NEW w \in Workers, NEW s \in Sinks, WriteMessage(w, s) \/ WriteThrows(w, s)
       PROVE  Goal
  BY <1>1, <1>6, <1>10 DEF WriteMessage, WriteThrows, TypeOK
<1>11. ASSUME NEW w \in Workers, LogRun(w)
       PROVE  Goal
  <2>1. Head(dests) # Dispatcher
    <3>1. dests \in Seq(Sinks) /\ dests # <<>>
      BY <1>11 DEF LogRun, RouteInv, TypeOK
    <3>2. QED
      BY <1>1, <3>1, HeadTailProperties
  <2>2. QED
    BY <1>1, <1>6, <1>11, <2>1 DEF LogRun, TypeOK
<1>12. ASSUME accepted' = accepted, tray' = tray, queue' = queue
       PROVE  Goal
  BY <1>6, <1>12
<1>13. Goal
  <2> HIDE DEF Goal
  <2>1. QED
    BY <1>7, <1>8, <1>9, <1>10, <1>11, <1>12
       DEF Goal, Next, ProducerStep, ConfigStep, WorkerStep, vars, CallLog, NotifyPool,
           CallWait, WaitReturns, AddSink, DeleteSink, DeleteLogger, TakeToken,
           Lock, Finish, StartGroup, NotifySink, NextSink
<1>14. QED
  BY <1>4, <1>5, <1>8, <1>13

-----------------------------------------------------------------------------
(* A sink keeps what it received.                                          *)

\* Every step keeps what each sink received written, lost to its module, or
\* on its way.
LEMMA RemainingNext ==
    ASSUME TypeOK, RouteInv, SinkKeepsRemaining, [Next]_vars
    PROVE  SinkKeepsRemaining'
<1>1. SUFFICES ASSUME NEW s \in Sinks
               PROVE  Survivors(s, received'[s]) = written'[s] \o Survivors(s, Inbox(s)')
  BY DEF SinkKeepsRemaining, Inbox
<1> DEFINE K(x, y, z) == Survivors(s, x) = y \o Survivors(s, z)
           Goal == K(received'[s], written'[s], Inbox(s)')
<1>2. PICK r, v, i : r = received[s] /\ v = written[s] /\ i = Inbox(s)
  OBVIOUS
<1>3. r \in Seq(Messages)
  BY <1>2 DEF TypeOK
<1>4. v \in Seq(Messages)
  BY <1>2 DEF TypeOK
<1>5. i \in Seq(Messages)
  BY <1>2, InboxStep
<1>6. Survivors(s, r) = v \o Survivors(s, i)
  BY <1>2 DEF SinkKeepsRemaining, Inbox
<1> HIDE DEF K
<1>7. ASSUME Stays(s)
      PROVE  Goal
  BY <1>2, <1>6, <1>7 DEF Stays, K
<1>8. ASSUME NEW run \in Seq(Messages), Arrives(s, run)
      PROVE  Goal
  <2>1. PICK b, c : b = Survivors(s, i) /\ c = Survivors(s, run)
    OBVIOUS
  <2>2. b \in Seq(Messages) /\ c \in Seq(Messages)
    BY <1>5, <2>1, SurvivorsConcat
  <2>3. Survivors(s, r \o run) = Survivors(s, r) \o c
    BY <1>3, <2>1, SurvivorsConcat
  <2>4. Survivors(s, i \o run) = b \o c
    BY <1>5, <2>1, SurvivorsConcat
  <2>5. (v \o b) \o c = v \o (b \o c)
    BY <1>4, <2>2, ConcatAssociative
  <2>6. QED
    BY <1>2, <1>6, <1>8, <2>1, <2>3, <2>4, <2>5 DEF Arrives, K
<1>9. ASSUME Departs(s)
      PROVE  Goal
  <2>0. i # <<>>
    BY <1>2, <1>9 DEF Departs
  <2>1. PICK e, left : e = Head(i) /\ left = Survivors(s, Tail(i))
    OBVIOUS
  <2>2. e \in Messages
    BY <1>5, <2>0, <2>1, HeadTailProperties
  <2>3. left \in Seq(Messages)
    <3>1. Tail(i) \in Seq(Messages)
      BY <1>5, <2>0, HeadTailProperties
    <3>2. QED
      BY <2>1, <3>1, SurvivorsConcat
  <2>4. /\ <<s, e>> \in ModuleThrows => Survivors(s, i) = left
        /\ <<s, e>> \notin ModuleThrows => Survivors(s, i) = <<e>> \o left
    BY <1>5, <2>0, <2>1, SurvivorsHead
  <2>5. PICK one : one = <<e>> /\ one \in Seq(Messages)
    <3>1. <<e>> \in Seq(Messages)
      BY <2>2
    <3>2. QED
      BY <3>1
  <2>6. Append(v, e) = v \o one
    BY <1>4, <2>2, <2>5, AppendIsConcat
  <2>7. (v \o one) \o left = v \o (one \o left)
    BY <1>4, <2>3, <2>5, ConcatAssociative
  <2>8. QED
    BY <1>2, <1>6, <1>9, <2>1, <2>4, <2>5, <2>6, <2>7 DEF Departs, K
<1>10. Stays(s) \/ (\E run \in Seq(Messages) : Arrives(s, run)) \/ Departs(s)
  BY InboxStep
<1>11. Goal
  BY <1>7, <1>8, <1>9, <1>10
<1>12. QED
  BY <1>11 DEF K

-----------------------------------------------------------------------------
(* Accepted, queued and grouped messages.                                  *)

\* Every step keeps the accepted messages among the logged ones.
LEMMA AcceptedNext ==
    ASSUME TypeOK, MsgInv, AcceptedInv, [Next]_vars
    PROVE  AcceptedInv'
<1>1. ASSUME UNCHANGED <<accepted, logged, msg>>,
             \A p \in Producers : ppc'[p] = "checked" => ppc[p] = "checked"
      PROVE  AcceptedInv'
  BY <1>1 DEF AcceptedInv
<1>2. ASSUME NEW p \in Producers, NEW m \in Messages, CallLog(p, m)
      PROVE  AcceptedInv'
  <2>1. /\ m \notin logged /\ logged' = logged \cup {m} /\ accepted' = accepted /\ Author[m] = p
        /\ m \notin ToSet(accepted)
    BY <1>2 DEF CallLog, AcceptedInv
  <2>2. ASSUME NEW r \in Producers, ppc'[r] = "checked"
        PROVE  msg'[r] \in logged' \ ToSet(accepted) /\ Author[msg'[r]] = r
    <3>1. CASE ppc[r] = "checked" /\ msg'[r] = msg[r]
      BY <2>1, <3>1 DEF AcceptedInv
    <3>2. CASE ~ (ppc[r] = "checked" /\ msg'[r] = msg[r])
      <4>1. r = p /\ msg'[p] = m
        BY <1>2, <2>2, <3>2 DEF CallLog, TypeOK
      <4>2. QED
        BY <2>1, <4>1
    <3>3. QED
      BY <3>1, <3>2
  <2>3. ToSet(accepted') \subseteq logged'
    BY <2>1 DEF AcceptedInv
  <2>4. QED
    BY <2>1, <2>2, <2>3 DEF AcceptedInv
<1>3. ASSUME NEW p \in Producers, Enqueue(p)
      PROVE  AcceptedInv'
  <2>1. PICK m : m \in Messages /\ m = msg[p] /\ m \in logged /\ Author[m] = p
    BY <1>3 DEF Enqueue, MsgInv, AcceptedInv
  <2>2. ToSet(accepted') = ToSet(accepted) \cup {m}
    BY <1>3, <2>1, ToSetAppend DEF Enqueue, TypeOK
  <2>3. ASSUME NEW r \in Producers, ppc'[r] = "checked"
        PROVE  r # p /\ ppc[r] = "checked" /\ msg'[r] = msg[r]
    BY <1>3, <2>3 DEF Enqueue, TypeOK
  <2>4. logged' = logged
    BY <1>3 DEF Enqueue
  <2>5. QED
    BY <2>1, <2>2, <2>3, <2>4 DEF AcceptedInv
<1>4. ASSUME NEW p \in Producers, NotifyPool(p) \/ CallWait(p) \/ WaitReturns(p)
      PROVE  AcceptedInv'
  BY <1>1, <1>4 DEF NotifyPool, CallWait, WaitReturns, TypeOK
<1>5. ASSUME accepted' = accepted, logged' = logged, msg' = msg, ppc' = ppc
      PROVE  AcceptedInv'
  BY <1>1, <1>5
<1>6. QED
  BY <1>2, <1>3, <1>4, <1>5
     DEF Next, ProducerStep, ConfigStep, WorkerStep, vars, AddSink, DeleteSink,
         DeleteLogger, TakeToken, Lock, Swap, Finish, StartGroup, LogRun, NotifySink,
         NextSink, EndGroup, DispatchThrows, WriteMessage, WriteThrows

\* Every step keeps backlog and inboxes at the end of what was accepted and
\* received.
LEMMA QueueNext ==
    ASSUME TypeOK, MsgInv, RouteInv, GroupInv, QueueInv, [Next]_vars
    PROVE  QueueInv'
<1>1. EndsWith(accepted', Backlog')
  <2>1. PICK a, b : a = accepted /\ b = Backlog /\ a \in Seq(Messages) /\ b \in Seq(Messages) /\ EndsWith(a, b)
    BY BacklogStep DEF QueueInv, TypeOK
  <2>2. CASE Idles
    BY <2>1, <2>2 DEF Idles
  <2>3. ASSUME NEW p \in Producers, Accepts(p)
        PROVE  EndsWith(accepted', Backlog')
    <3>1. PICK e : e = msg[p] /\ e \in Messages
      BY <2>3 DEF Accepts
    <3>2. PICK one : one = <<e>> /\ one \in Seq(Messages)
      <4>1. <<e>> \in Seq(Messages)
        BY <3>1
      <4>2. QED
        BY <4>1
    <3>3. EndsWith(a \o one, b \o one)
      BY <2>1, <3>2, EndsConcat
    <3>4. Append(a, e) = a \o one /\ Append(b, e) = b \o one
      BY <2>1, <3>1, <3>2, AppendIsConcat
    <3>5. QED
      BY <2>1, <2>3, <3>1, <3>3, <3>4 DEF Accepts
  <2>4. ASSUME NEW w \in Workers, Erases(w)
        PROVE  EndsWith(accepted', Backlog')
    <3>1. PICK n : n = Len(group) /\ n \in Nat
      BY LenProperties DEF TypeOK
    <3>2. EndsWith(a, SubSeq(b, n + 1, Len(b)))
      BY <2>1, <3>1, EndsShorter
    <3>3. QED
      BY <2>1, <2>4, <3>1, <3>2 DEF Erases, Drop
  <2>5. QED
    BY <2>2, <2>3, <2>4, BacklogStep
<1>2. ASSUME NEW s \in Sinks
      PROVE  /\ EndsWith(received'[s], Inbox(s)')
             /\ \A i \in 1 .. Len(written'[s]) :
                   \E j \in 1 .. Len(received'[s]) - Len(Inbox(s)') : written'[s][i] = received'[s][j]
  <2> DEFINE Goal(r, v, x) == /\ EndsWith(r, x)
                              /\ \A i \in 1 .. Len(v) : \E j \in 1 .. Len(r) - Len(x) : v[i] = r[j]
  <2>1. PICK r, v, x : r = received[s] /\ v = written[s] /\ x = Inbox(s)
    OBVIOUS
  <2>2. r \in Seq(Messages) /\ v \in Seq(Messages) /\ x \in Seq(Messages) /\ EndsWith(r, x)
    BY <2>1, InboxStep DEF QueueInv, TypeOK
  <2>3. /\ Len(r) \in Nat /\ Len(v) \in Nat /\ Len(x) \in Nat /\ Len(x) <= Len(r)
        /\ \A i \in 1 .. Len(v) : \E j \in 1 .. Len(r) - Len(x) : v[i] = r[j]
    BY <2>1, <2>2, LenProperties DEF QueueInv, EndsWith
  <2>4. CASE Stays(s)
    <3>1. Goal(r, v, x)
      BY <2>2, <2>3
    <3> HIDE DEF Goal
    <3>2. Goal(received'[s], written'[s], Inbox(s)')
      BY <2>1, <2>4, <3>1 DEF Stays
    <3>3. QED
      BY <3>2 DEF Goal
  <2>5. ASSUME NEW run \in Seq(Messages), Arrives(s, run)
        PROVE  Goal(received'[s], written'[s], Inbox(s)')
    <3>1. EndsWith(r \o run, x \o run)
      BY <2>2, EndsConcat
    <3>2. /\ Len(run) \in Nat /\ Len(r \o run) = Len(r) + Len(run) /\ Len(x \o run) = Len(x) + Len(run)
          /\ \A j \in 1 .. Len(r) + Len(run) : (r \o run)[j] = IF j <= Len(r) THEN r[j] ELSE run[j - Len(r)]
      BY <2>2, ConcatProperties, LenProperties
    <3>3. ASSUME NEW i \in 1 .. Len(v)
          PROVE  \E j \in 1 .. Len(r \o run) - Len(x \o run) : v[i] = (r \o run)[j]
      <4>1. PICK j \in 1 .. Len(r) - Len(x) : v[i] = r[j]
        BY <2>3
      <4>2. j \in 1 .. Len(r \o run) - Len(x \o run) /\ j \in 1 .. Len(r) + Len(run) /\ j <= Len(r)
        BY <2>3, <3>2
      <4>3. QED
        BY <3>2, <4>1, <4>2
    <3>4. Goal(r \o run, v, x \o run)
      BY <3>1, <3>3
    <3> HIDE DEF Goal
    <3>5. QED
      BY <2>1, <2>5, <3>4 DEF Arrives
  <2>6. ASSUME Departs(s)
        PROVE  Goal(received'[s], written'[s], Inbox(s)')
    <3>1. x # <<>>
      BY <2>1, <2>6 DEF Departs
    <3>2. PICK k, e : k = Len(r) - Len(x) + 1 /\ e = Head(x)
      OBVIOUS
    <3>3. EndsWith(r, Tail(x)) /\ k \in 1 .. Len(r) /\ e = r[k] /\ e \in Messages
      BY <2>2, <3>1, <3>2, EndsTail, HeadTailProperties
    <3>4. Len(r) - Len(Tail(x)) = k /\ k \in Nat \ {0}
      BY <2>2, <2>3, <3>1, <3>2, <3>3, HeadTailProperties
    <3>5. \A i \in 1 .. Len(v) : \E j \in 1 .. k : v[i] = r[j]
      BY <2>3, <3>2
    <3>6. Goal(r, v, Tail(x))
      BY <3>3, <3>4, <3>5
    <3>7. Goal(r, Append(v, e), Tail(x))
      <4>1. /\ Len(Append(v, e)) = Len(v) + 1 /\ Append(v, e)[Len(v) + 1] = e
            /\ \A i \in 1 .. Len(v) : Append(v, e)[i] = v[i]
        BY <2>2, <3>3, AppendProperties
      <4>2. ASSUME NEW i \in 1 .. Len(v) + 1
            PROVE  \E j \in 1 .. k : Append(v, e)[i] = r[j]
        <5>1. CASE i \in 1 .. Len(v)
          BY <3>5, <4>1, <5>1
        <5>2. CASE i = Len(v) + 1
          BY <3>3, <3>4, <4>1, <5>2
        <5>3. QED
          BY <2>3, <5>1, <5>2
      <4>3. QED
        BY <3>3, <3>4, <4>1, <4>2
    <3> HIDE DEF Goal
    <3>8. QED
      BY <2>1, <2>6, <3>2, <3>6, <3>7 DEF Departs
  <2>7. QED
    BY <2>4, <2>5, <2>6, InboxStep
<1>3. QED
  BY <1>1, <1>2 DEF QueueInv

\* What a step keeps of the tray while a group is in it.
LEMMA TrayKept ==
    ASSUME TypeOK, RouteInv, GroupInv, group # <<>>, [Next]_vars,
           \A w \in Workers : ~EndGroup(w) /\ ~DispatchThrows(w)
    PROVE  tray'[Dispatcher] = tray[Dispatcher]
<1>1. /\ Dispatcher \in Stations /\ Dispatcher \notin Sinks /\ tray[Dispatcher] # <<>>
      /\ tray \in [Stations -> Seq(Messages)]
  BY StationsAssumption DEF TypeOK, RouteInv
<1>2. ASSUME NEW w \in Workers, Swap(w)
      PROVE  tray'[Dispatcher] = tray[Dispatcher]
  BY <1>1, <1>2 DEF Swap
<1>3. ASSUME NEW w \in Workers, NEW s \in Sinks, WriteMessage(w, s) \/ WriteThrows(w, s)
      PROVE  tray'[Dispatcher] = tray[Dispatcher]
  BY <1>1, <1>3 DEF WriteMessage, WriteThrows
<1>4. QED
  BY <1>2, <1>3
     DEF Next, ProducerStep, ConfigStep, WorkerStep, vars, CallLog, Enqueue, NotifyPool,
         CallWait, WaitReturns, AddSink, DeleteSink, DeleteLogger, TakeToken, Lock,
         Finish, StartGroup, LogRun, NotifySink, NextSink

\* Every step keeps the group at the front of the tray.
LEMMA GroupNext ==
    ASSUME TypeOK, TypeOK', RouteInv, GroupInv, [Next]_vars
    PROVE  GroupInv'
<1>1. group \in Seq(Messages) /\ rest \in Seq(Messages) /\ Len(<<>>) = 0 /\ 1 .. 0 = {}
  BY EmptySeq DEF TypeOK
<1>2. ASSUME NEW w \in Workers, StartGroup(w)
      PROVE  GroupInv'
  <2>1. PICK t : t \in Seq(Messages) /\ t = tray[Dispatcher] /\ t # <<>> /\ t = tray'[Dispatcher]
    BY <1>2, StationsAssumption DEF StartGroup, TypeOK
  <2>2. PICK g : g = group' /\ g = LeadingGroup(t)
    BY <1>2, <2>1 DEF StartGroup
  <2>3. /\ g \in Seq(Messages) /\ g # <<>> /\ Len(g) <= Len(t)
        /\ \A i \in 1 .. Len(g) : g[i] = t[i]
    BY <2>1, <2>2, LeadingGroupType
  <2>4. rest' = g \/ rest' = <<>>
    BY <1>2, <2>2 DEF StartGroup
  <2>5. EndsWith(g, rest')
    BY <2>3, <2>4, EndsTrivially
  <2>6. QED
    BY <2>1, <2>2, <2>3, <2>5 DEF GroupInv
<1>3. ASSUME NEW w \in Workers, LogRun(w)
      PROVE  GroupInv'
  <2>1. group' = group /\ dests' = dests /\ tray' = tray
    BY <1>3 DEF LogRun
  <2>2. PICK n : n \in Nat /\ rest' = SubSeq(rest, n + 1, Len(rest))
    <3>1. Len(AcceptedRun(Head(dests))) + 1 \in Nat
      BY <1>1, AcceptedRunType, LenProperties
    <3>2. QED
      BY <1>3, <3>1 DEF LogRun, Drop
  <2>3. EndsWith(group, rest')
    BY <1>1, <2>2, EndsShorter DEF GroupInv
  <2>4. QED
    BY <2>1, <2>3 DEF GroupInv
<1>4. ASSUME NEW w \in Workers, NextSink(w)
      PROVE  GroupInv'
  <2>1. /\ group' = group /\ tray' = tray /\ group # <<>>
        /\ rest' = group \/ rest' = <<>>
    BY <1>4 DEF NextSink, GroupInv
  <2>2. EndsWith(group, rest')
    BY <1>1, <2>1, EndsTrivially
  <2>3. QED
    BY <2>1, <2>2 DEF GroupInv
<1>5. ASSUME group' = <<>>, dests' = <<>>, rest' = <<>>, tray'[Dispatcher] \in Seq(Messages)
      PROVE  GroupInv'
  <2>1. Len(tray'[Dispatcher]) \in Nat
    BY <1>5, LenProperties
  <2>2. EndsWith(<<>>, <<>>)
    BY <1>1 DEF EndsWith
  <2>3. QED
    BY <1>1, <1>5, <2>1, <2>2 DEF GroupInv
<1>6. ASSUME NEW w \in Workers, EndGroup(w) \/ DispatchThrows(w)
      PROVE  GroupInv'
  <2>1. group' = <<>> /\ dests' = <<>> /\ rest' = <<>>
    BY <1>6 DEF EndGroup, DispatchThrows, RouteInv
  <2>2. tray'[Dispatcher] = Drop(tray[Dispatcher], Len(group))
    BY <1>6, StationsAssumption DEF EndGroup, DispatchThrows, TypeOK
  <2>3. Len(group) \in Nat /\ tray[Dispatcher] \in Seq(Messages)
    BY LenProperties DEF TypeOK
  <2>4. tray'[Dispatcher] \in Seq(Messages)
    BY <2>2, <2>3, DropType
  <2>5. QED
    BY <1>5, <2>1, <2>4
<1>7. ASSUME group' = group, dests' = dests, rest' = rest,
             \A w \in Workers : ~EndGroup(w) /\ ~DispatchThrows(w)
      PROVE  GroupInv'
  <2>1. CASE group # <<>>
    BY <1>7, <2>1, TrayKept DEF GroupInv
  <2>2. CASE group = <<>>
    <3>1. dests = <<>> /\ rest = <<>>
      BY <2>2 DEF GroupInv, RouteInv
    <3>2. tray'[Dispatcher] \in Seq(Messages)
      BY DEF TypeOK
    <3>3. QED
      BY <1>5, <1>7, <2>2, <3>1, <3>2
  <2>3. QED
    BY <2>1, <2>2
<1>8. CASE \E w \in Workers : EndGroup(w) \/ DispatchThrows(w)
  BY <1>6, <1>8
<1>9. CASE \A w \in Workers : ~EndGroup(w) /\ ~DispatchThrows(w)
  BY <1>2, <1>3, <1>4, <1>7, <1>9
     DEF Next, ProducerStep, ConfigStep, WorkerStep, vars, CallLog, Enqueue, NotifyPool,
         CallWait, WaitReturns, AddSink, DeleteSink, DeleteLogger, TakeToken, Lock, Swap,
         Finish, NotifySink, WriteMessage, WriteThrows
<1>10. QED
  BY <1>8, <1>9

\* Every step keeps the loggers' sinks distinct, and those of the beginning
\* connected unless they were reconfigured.
LEMMA LinksNext ==
    ASSUME TypeOK, LinksInv, [Next]_vars
    PROVE  LinksInv'
<1>1. ASSUME links' = links, Distinct(dests')
      PROVE  LinksInv'
  BY <1>1 DEF LinksInv
<1>2. ASSUME NEW l \in Loggers, NEW q \in Seq(Sinks), links' = [links EXCEPT ![l] = q],
             Distinct(q), dests' = dests,
             \A s \in ToSet(links[l]) : s \in ToSet(q) \/ <<l, s>> \in Reconfigured
      PROVE  LinksInv'
  <2>1. \A k \in Loggers : links'[k] = IF k = l THEN q ELSE links[k]
    BY <1>2 DEF TypeOK
  <2>2. QED
    BY <1>2, <2>1 DEF LinksInv
<1>3. ASSUME NEW l \in Loggers, NEW s \in Sinks, AddSink(l, s)
      PROVE  LinksInv'
  <2>1. PICK q : q = links[l] /\ q \in Seq(Sinks) /\ Distinct(q) /\ s \notin ToSet(q)
    BY <1>3 DEF AddSink, TypeOK, LinksInv
  <2>2. /\ Append(q, s) \in Seq(Sinks) /\ Distinct(Append(q, s))
        /\ ToSet(q) \subseteq ToSet(Append(q, s))
    BY <2>1, DistinctAppend, ToSetAppend
  <2>3. links' = [links EXCEPT ![l] = Append(q, s)] /\ dests' = dests
    BY <1>3, <2>1 DEF AddSink
  <2>4. QED
    BY <1>2, <2>1, <2>2, <2>3
<1>4. ASSUME NEW l \in Loggers, NEW s \in Sinks, DeleteSink(l, s)
      PROVE  LinksInv'
  <2>1. PICK q : q = links[l] /\ q \in Seq(Sinks) /\ Distinct(q)
    BY DEF TypeOK, LinksInv
  <2>2. /\ RemoveFirst(q, s) \in Seq(Sinks) /\ Distinct(RemoveFirst(q, s))
        /\ \A e \in ToSet(q) : e # s => e \in ToSet(RemoveFirst(q, s))
    BY <2>1, RemoveFirstType, RemoveFirstKeeps
  <2>3. links' = [links EXCEPT ![l] = RemoveFirst(q, s)] /\ dests' = dests /\ <<l, s>> \in Reconfigured
    BY <1>4, <2>1 DEF DeleteSink
  <2>4. QED
    BY <1>2, <2>1, <2>2, <2>3
<1>5. ASSUME NEW w \in Workers, StartGroup(w)
      PROVE  LinksInv'
  <2>1. Head(tray[Dispatcher]) \in Messages
    BY <1>5, HeadTailProperties, StationsAssumption DEF StartGroup, TypeOK
  <2>2. Via[Head(tray[Dispatcher])] \in Loggers
    BY <2>1, MessagesAssumption
  <2>3. QED
    BY <1>1, <1>5, <2>2 DEF StartGroup, LinksInv
<1>6. ASSUME NEW w \in Workers, NextSink(w)
      PROVE  LinksInv'
  <2>1. Distinct(Tail(dests))
    BY <1>6, DistinctTail DEF NextSink, TypeOK, LinksInv
  <2>2. QED
    BY <1>1, <1>6, <2>1 DEF NextSink
<1>7. ASSUME NEW w \in Workers, DispatchThrows(w)
      PROVE  LinksInv'
  <2>1. Distinct(<<>>)
    <3>1. 1 .. Len(<<>>) = {}
      BY EmptySeq
    <3>2. QED
      BY <3>1 DEF Distinct
  <2>2. QED
    BY <1>1, <1>7, <2>1 DEF DispatchThrows
<1>8. ASSUME links' = links, dests' = dests
      PROVE  LinksInv'
  BY <1>1, <1>8 DEF LinksInv
<1>9. QED
  BY <1>3, <1>4, <1>5, <1>6, <1>7, <1>8
     DEF Next, ProducerStep, ConfigStep, WorkerStep, vars, CallLog, Enqueue, NotifyPool,
         CallWait, WaitReturns, DeleteLogger, TakeToken, Lock, Swap, Finish, LogRun,
         NotifySink, EndGroup, WriteMessage, WriteThrows

-----------------------------------------------------------------------------
(* Positions in the order of acceptance.                                   *)

\* Tray, group and the rest of the group stand behind the processed messages
\* in the order of acceptance.
LEMMA Positions ==
    ASSUME TypeOK, QueueInv, GroupInv
    PROVE  /\ Processed \in Nat /\ Len(group) \in Nat /\ Len(rest) \in Nat /\ Len(accepted) \in Nat
           /\ Len(rest) <= Len(group) /\ Processed + Len(group) <= Len(accepted)
           /\ \A j \in 1 .. Len(tray[Dispatcher]) :
                 /\ Processed + j \in 1 .. Len(accepted)
                 /\ tray[Dispatcher][j] = accepted[Processed + j]
           /\ \A j \in 1 .. Len(group) : group[j] = accepted[Processed + j]
           /\ \A j \in 1 .. Len(rest) :
                 rest[j] = accepted[Processed + Len(group) - Len(rest) + j]
<1>1. PICK t, q : t = tray[Dispatcher] /\ q = queue[Dispatcher]
  OBVIOUS
<1>2. t \in Seq(Messages) /\ q \in Seq(Messages)
  BY <1>1, StationsAssumption DEF TypeOK
<1>3. /\ Backlog = t \o q /\ Len(t \o q) = Len(t) + Len(q)
      /\ \A j \in 1 .. Len(t) + Len(q) : (t \o q)[j] = IF j <= Len(t) THEN t[j] ELSE q[j - Len(t)]
  BY <1>1, <1>2, ConcatProperties DEF Backlog
<1>4. /\ Len(t) \in Nat /\ Len(q) \in Nat /\ Len(group) \in Nat /\ Len(rest) \in Nat
      /\ Len(accepted) \in Nat
  BY <1>2, LenProperties DEF TypeOK
<1>5. PICK b : b = Backlog
  OBVIOUS
<1>6. /\ Len(b) = Len(t) + Len(q) /\ Len(b) <= Len(accepted)
      /\ \A j \in 1 .. Len(b) : b[j] = accepted[Len(accepted) - Len(b) + j]
      /\ \A j \in 1 .. Len(t) : b[j] = t[j]
      /\ Processed = Len(accepted) - Len(b)
  BY <1>3, <1>4, <1>5 DEF QueueInv, EndsWith, Processed
<1>7. Processed \in Nat /\ Processed + Len(t) <= Len(accepted)
  BY <1>4, <1>6
<1>8. \A j \in 1 .. Len(t) : Processed + j \in 1 .. Len(accepted) /\ t[j] = accepted[Processed + j]
  BY <1>4, <1>6, <1>7
<1>9. /\ Len(group) <= Len(t) /\ \A j \in 1 .. Len(group) : group[j] = t[j]
  BY <1>1 DEF GroupInv
<1>10. \A j \in 1 .. Len(group) : group[j] = accepted[Processed + j]
  BY <1>4, <1>8, <1>9
<1>11. /\ Len(rest) <= Len(group)
       /\ \A j \in 1 .. Len(rest) : rest[j] = group[Len(group) - Len(rest) + j]
  BY DEF GroupInv, EndsWith
<1>12. ASSUME NEW j \in 1 .. Len(rest)
       PROVE  rest[j] = accepted[Processed + Len(group) - Len(rest) + j]
  <2>1. Len(group) - Len(rest) + j \in 1 .. Len(group)
    BY <1>4, <1>11
  <2>2. Processed + (Len(group) - Len(rest) + j) = Processed + Len(group) - Len(rest) + j
    BY <1>4, <1>7, <2>1
  <2>3. QED
    BY <1>10, <1>11, <2>1, <2>2
<1>13. QED
  BY <1>1, <1>4, <1>7, <1>8, <1>9, <1>10, <1>11, <1>12

\* A sink has been offered what is processed, and nothing behind the group.
LEMMA ReachedBounds ==
    ASSUME TypeOK, QueueInv, GroupInv, NEW s
    PROVE  /\ Reached(s) \in Nat
           /\ Processed <= Reached(s) /\ Reached(s) <= Processed + Len(group)
<1>1. /\ Processed \in Nat /\ Len(group) \in Nat /\ Len(rest) \in Nat
      /\ Len(rest) <= Len(group)
  BY Positions
<1>2. QED
  BY <1>1 DEF Reached

\* The order of acceptance is never changed, only continued.
LEMMA AcceptedKept ==
    ASSUME TypeOK, MsgInv, RouteInv, GroupInv, [Next]_vars
    PROVE  /\ Len(accepted) \in Nat /\ Len(accepted') \in Nat /\ Len(accepted) <= Len(accepted')
           /\ \A i \in 1 .. Len(accepted) : accepted'[i] = accepted[i]
<1>1. accepted \in Seq(Messages) /\ Len(accepted) \in Nat
  BY LenProperties DEF TypeOK
<1>2. CASE accepted' = accepted
  BY <1>1, <1>2
<1>3. ASSUME NEW e \in Messages, accepted' = Append(accepted, e)
      PROVE  /\ Len(accepted') = Len(accepted) + 1
             /\ \A i \in 1 .. Len(accepted) : accepted'[i] = accepted[i]
  BY <1>1, <1>3, AppendProperties
<1>4. accepted' = accepted \/ \E e \in Messages : accepted' = Append(accepted, e)
  BY BacklogStep DEF Idles, Accepts, Erases
<1>5. QED
  BY <1>1, <1>2, <1>3, <1>4

\* Only the end of a dispatch, orderly or not, adds to the processed messages.
LEMMA ProcessedStep ==
    ASSUME TypeOK, MsgInv, RouteInv, GroupInv, QueueInv, [Next]_vars
    PROVE  /\ \A w \in Workers : EndGroup(w) \/ DispatchThrows(w) => Processed' = Processed + Len(group)
           /\ (\A w \in Workers : ~EndGroup(w) /\ ~DispatchThrows(w)) => Processed' = Processed
<1>1. PICK a, b, n : a = accepted /\ b = Backlog /\ n = Len(group)
  OBVIOUS
<1>2. a \in Seq(Messages) /\ b \in Seq(Messages) /\ n \in Nat /\ n <= Len(b)
  BY <1>1, BacklogStep, LenProperties DEF TypeOK
<1>3. Len(a) \in Nat /\ Len(b) \in Nat /\ Processed = Len(a) - Len(b)
  BY <1>1, <1>2, LenProperties DEF Processed
<1>4. ASSUME NEW w \in Workers, EndGroup(w) \/ DispatchThrows(w)
      PROVE  Processed' = Processed + Len(group)
  <2>1. accepted' = a /\ Backlog' = SubSeq(b, n + 1, Len(b))
    BY <1>1, <1>4, BacklogStep DEF Erases, Drop
  <2>2. Len(SubSeq(b, n + 1, Len(b))) = Len(b) - n
    <3>1. \A i \in n + 1 .. Len(b) : b[i] \in Messages
      BY <1>2, <1>3, ElementOfSeq
    <3>2. n + 1 \in Int /\ Len(b) \in Int
      BY <1>2, <1>3
    <3>3. Len(SubSeq(b, n + 1, Len(b))) = IF n + 1 <= Len(b) THEN Len(b) - (n + 1) + 1 ELSE 0
      BY <3>1, <3>2, SubSeqProperties
    <3>4. QED
      BY <1>2, <1>3, <3>3
  <2>3. Processed' = Len(a) - (Len(b) - n)
    BY <2>1, <2>2 DEF Processed
  <2>4. QED
    BY <1>1, <1>2, <1>3, <2>3
<1>5. ASSUME \A w \in Workers : ~EndGroup(w) /\ ~DispatchThrows(w)
      PROVE  Processed' = Processed
  <2>1. CASE Idles
    BY <2>1 DEF Idles, Processed
  <2>2. ASSUME NEW p \in Producers, Accepts(p)
        PROVE  Processed' = Processed
    <3>1. PICK e : e = msg[p] /\ e \in Messages
      BY <2>2 DEF Accepts
    <3>2. accepted' = Append(a, e) /\ Backlog' = Append(b, e)
      BY <1>1, <2>2, <3>1 DEF Accepts
    <3>3. Len(Append(a, e)) = Len(a) + 1 /\ Len(Append(b, e)) = Len(b) + 1
      BY <1>2, <3>1, AppendProperties
    <3>4. Processed' = (Len(a) + 1) - (Len(b) + 1)
      BY <3>2, <3>3 DEF Processed
    <3>5. QED
      BY <1>3, <3>4
  <2>3. QED
    BY <1>5, <2>1, <2>2, BacklogStep DEF Erases
<1>6. QED
  BY <1>4, <1>5

\* Every step keeps Reached, but for the start of a dispatch, a run handed to
\* the sink itself, and a dispatch that is given up.
LEMMA ReachedStep ==
    ASSUME TypeOK, TypeOK', MsgInv, RouteInv, GroupInv, GroupInv', LinksInv, QueueInv, QueueInv',
           [Next]_vars, NEW s
    PROVE  /\ Reached(s) <= Reached(s)'
           /\ \/ Reached(s)' = Reached(s)
              \/ \E w \in Workers : StartGroup(w) /\ s \notin ToSet(dests')
              \/ \E w \in Workers : LogRun(w) /\ s = Head(dests) /\ s \in Sinks
              \/ \E w \in Workers : DispatchThrows(w)
<1>1. PICK n, g, r : n = Processed /\ g = Len(group) /\ r = Len(rest)
  OBVIOUS
<1>2. n \in Nat /\ g \in Nat /\ r \in Nat /\ r <= g
  BY <1>1, Positions
<1>3. /\ s \notin ToSet(dests) => Reached(s) = n + g
      /\ s \in ToSet(dests) /\ s = Head(dests) => Reached(s) = n + g - r
      /\ s \in ToSet(dests) /\ s # Head(dests) => Reached(s) = n
  BY <1>1 DEF Reached
<1>4. PICK n2, g2, r2 : n2 = Processed' /\ g2 = Len(group') /\ r2 = Len(rest')
  OBVIOUS
<1>5. g2 \in Nat /\ r2 \in Nat /\ r2 <= g2
  <2>1. group' \in Seq(Messages) /\ rest' \in Seq(Messages)
    BY DEF TypeOK
  <2>2. Len(rest') <= Len(group')
    BY DEF GroupInv, EndsWith
  <2>3. QED
    BY <1>4, <2>1, <2>2, LenProperties
<1>6. /\ s \notin ToSet(dests') => Reached(s)' = n2 + g2
      /\ s \in ToSet(dests') /\ s = Head(dests') => Reached(s)' = n2 + g2 - r2
      /\ s \in ToSet(dests') /\ s # Head(dests') => Reached(s)' = n2
  BY <1>4 DEF Reached
<1>7. /\ \A w \in Workers : EndGroup(w) \/ DispatchThrows(w) => n2 = n + g
      /\ (\A w \in Workers : ~EndGroup(w) /\ ~DispatchThrows(w)) => n2 = n
  BY <1>1, <1>4, ProcessedStep
<1>8. Len(<<>>) = 0 /\ ToSet(<<>>) = {}
  <2>1. Len(<<>>) = 0 /\ DOMAIN <<>> = {}
    BY EmptySeq, LenProperties
  <2>2. QED
    BY <2>1 DEF ToSet
<1> DEFINE Goal == /\ Reached(s) <= Reached(s)'
                   /\ \/ Reached(s)' = Reached(s)
                      \/ \E w \in Workers : StartGroup(w) /\ s \notin ToSet(dests')
                      \/ \E w \in Workers : LogRun(w) /\ s = Head(dests) /\ s \in Sinks
                      \/ \E w \in Workers : DispatchThrows(w)
<1>9. ASSUME NEW w \in Workers, EndGroup(w)
      PROVE  Goal
  <2>1. dests = <<>> /\ dests' = <<>> /\ group' = <<>>
    BY <1>9 DEF EndGroup
  <2>2. n2 = n + g /\ g2 = 0
    BY <1>4, <1>7, <1>8, <1>9, <2>1
  <2>3. Reached(s) = n + g /\ Reached(s)' = n + g
    BY <1>2, <1>3, <1>6, <1>8, <2>1, <2>2
  <2>4. QED
    BY <1>2, <2>3
<1>10. ASSUME NEW w \in Workers, DispatchThrows(w)
       PROVE  Goal
  <2>1. dests' = <<>> /\ group' = <<>>
    BY <1>10 DEF DispatchThrows
  <2>2. n2 = n + g /\ g2 = 0
    BY <1>4, <1>7, <1>8, <1>10, <2>1
  <2>3. Reached(s)' = n + g
    BY <1>2, <1>6, <1>8, <2>1, <2>2
  <2>4. QED
    BY <1>2, <1>3, <1>10, <2>3
<1>11. ASSUME NEW w \in Workers, StartGroup(w), \A v \in Workers : ~EndGroup(v) /\ ~DispatchThrows(v)
       PROVE  Goal
  <2>1. group = <<>> /\ dests = <<>> /\ (dests' = <<>> \/ rest' = group')
    BY <1>11 DEF StartGroup, GroupInv
  <2>2. Reached(s) = n /\ n2 = n
    BY <1>1, <1>2, <1>3, <1>7, <1>8, <1>11, <2>1
  <2>3. s \in ToSet(dests') => r2 = g2
    BY <1>4, <1>8, <2>1
  <2>4. QED
    BY <1>2, <1>5, <1>6, <1>11, <2>2, <2>3
<1>12. ASSUME NEW w \in Workers, LogRun(w), \A v \in Workers : ~EndGroup(v) /\ ~DispatchThrows(v)
       PROVE  Goal
  <2>1. /\ group' = group /\ dests' = dests /\ rest # <<>>
        /\ rest' = SubSeq(rest, Len(AcceptedRun(Head(dests))) + 2, Len(rest))
    <3>1. Len(AcceptedRun(Head(dests))) + 1 \in Nat
      BY AcceptedRunType, LenProperties DEF TypeOK
    <3>2. (Len(AcceptedRun(Head(dests))) + 1) + 1 = Len(AcceptedRun(Head(dests))) + 2
      BY <3>1
    <3>3. QED
      BY <1>12, <3>2 DEF LogRun, Drop
  <2>2. n2 = n /\ g2 = g
    BY <1>1, <1>4, <1>7, <1>12, <2>1
  <2>3. CASE s \in ToSet(dests) /\ s = Head(dests)
    <3>1. r2 <= r
      <4>1. EndsWith(rest, rest')
        <5>1. PICK k \in Nat : k = Len(AcceptedRun(Head(dests))) + 1 /\ k + 1 = Len(AcceptedRun(Head(dests))) + 2
          <6>1. Len(AcceptedRun(Head(dests))) \in Nat
            BY AcceptedRunType, LenProperties DEF TypeOK
          <6>2. QED
            BY <6>1
        <5>2. rest \in Seq(Messages) /\ EndsWith(rest, rest)
          BY EndsTrivially DEF TypeOK
        <5>3. EndsWith(rest, SubSeq(rest, k + 1, Len(rest)))
          BY <5>2, EndsShorter
        <5>4. QED
          BY <2>1, <5>1, <5>3
      <4>2. QED
        BY <1>1, <1>4, <4>1 DEF EndsWith
    <3>2. Reached(s) = n + g - r /\ Reached(s)' = n + g - r2
      BY <1>3, <1>6, <2>1, <2>2, <2>3
    <3>3. s \in Sinks
      BY <2>3, ToSetOf DEF TypeOK
    <3>4. QED
      BY <1>2, <1>5, <1>12, <2>3, <3>1, <3>2, <3>3
  <2>4. CASE ~ (s \in ToSet(dests) /\ s = Head(dests))
    BY <1>2, <1>3, <1>6, <2>1, <2>2, <2>4
  <2>5. QED
    BY <2>3, <2>4
<1>13. ASSUME NEW w \in Workers, NextSink(w), \A v \in Workers : ~EndGroup(v) /\ ~DispatchThrows(v)
       PROVE  Goal
  <2>1. /\ group' = group /\ dests # <<>> /\ rest = <<>> /\ dests' = Tail(dests)
        /\ rest' = IF dests' = <<>> THEN <<>> ELSE group
    BY <1>13 DEF NextSink
  <2>2. dests \in Seq(Sinks) /\ Distinct(dests)
    BY DEF TypeOK, LinksInv
  <2>3. /\ ToSet(dests) = {Head(dests)} \cup ToSet(dests')
        /\ Head(dests) \notin ToSet(dests')
    BY <2>1, <2>2, ToSetTail, DistinctTail
  <2>4. n2 = n /\ g2 = g /\ r = 0
    BY <1>1, <1>4, <1>7, <1>8, <1>13, <2>1
  <2>5. s \in ToSet(dests') => r2 = g
    BY <1>4, <1>8, <2>1, <2>4
  <2>6. CASE s \in ToSet(dests')
    <3>1. Reached(s) = n
      BY <1>3, <2>3, <2>6
    <3>2. Reached(s)' = n
      BY <1>2, <1>6, <2>4, <2>5, <2>6
    <3>3. QED
      BY <1>2, <3>1, <3>2
  <2>7. CASE s \notin ToSet(dests')
    <3>1. Reached(s) = n + g
      BY <1>2, <1>3, <2>3, <2>4, <2>7
    <3>2. Reached(s)' = n + g
      BY <1>6, <2>4, <2>7
    <3>3. QED
      BY <1>2, <3>1, <3>2
  <2>8. QED
    BY <2>6, <2>7
<1>14. ASSUME group' = group, dests' = dests, rest' = rest, \A v \in Workers : ~EndGroup(v) /\ ~DispatchThrows(v)
       PROVE  Goal
  <2>1. n2 = n /\ g2 = g /\ r2 = r
    BY <1>1, <1>4, <1>7, <1>14
  <2>2. QED
    BY <1>2, <1>3, <1>6, <1>14, <2>1
<1> HIDE DEF Goal
<1>15. ASSUME \E w \in Workers : EndGroup(w) \/ DispatchThrows(w)
       PROVE  Goal
  BY <1>9, <1>10, <1>15
<1>16. ASSUME \A w \in Workers : ~EndGroup(w) /\ ~DispatchThrows(w)
       PROVE  Goal
  BY <1>11, <1>12, <1>13, <1>14, <1>16
     DEF Next, ProducerStep, ConfigStep, WorkerStep, vars, CallLog, Enqueue, NotifyPool,
         CallWait, WaitReturns, AddSink, DeleteSink, DeleteLogger, TakeToken, Lock, Swap,
         Finish, NotifySink, WriteMessage, WriteThrows
<1>17. Goal
  BY <1>15, <1>16
<1>18. QED
  BY <1>17 DEF Goal

-----------------------------------------------------------------------------
(* Received along the order of acceptance.                                 *)

\* What one step of LogRun hands to the sink stands behind everything it has
\* been offered, and so does the rejected message that ends it.
LEMMA RunPositions ==
    ASSUME TypeOK, RouteInv, QueueInv, GroupInv, NEW w \in Workers, LogRun(w), Processed' = Processed,
           NEW s, s = Head(dests), NEW run, run = AcceptedRun(s)
    PROVE  /\ s \in ToSet(dests) /\ s \in Sinks
           /\ run \in Seq(Messages) /\ Len(run) \in Nat
           /\ Reached(s) \in Nat /\ Reached(s) + Len(run) <= Len(accepted)
           /\ \A j \in 1 .. Len(run) : run[j] = accepted[Reached(s) + j]
           /\ Len(run) < Len(rest) =>
                 /\ rest[Len(run) + 1] = accepted[Reached(s) + Len(run) + 1]
                 /\ Reached(s)' = Reached(s) + Len(run) + 1
           /\ Len(run) = Len(rest) => Reached(s)' = Reached(s) + Len(run)
           /\ Len(run) <= Len(rest)
<1>1. PICK n, g, r, k : n = Processed /\ g = Len(group) /\ r = Len(rest) /\ k = Len(run)
  OBVIOUS
<1>2. /\ n \in Nat /\ g \in Nat /\ r \in Nat /\ r <= g /\ n + g <= Len(accepted)
      /\ \A j \in 1 .. r : rest[j] = accepted[n + g - r + j]
  BY <1>1, Positions
<1>3. dests \in Seq(Sinks) /\ dests # <<>> /\ rest \in Seq(Messages)
  BY DEF LogRun, RouteInv, TypeOK
<1>4. s \in ToSet(dests) /\ s \in Sinks
  BY <1>3, ToSetTail
<1>5. /\ run \in Seq(Messages) /\ k <= r
      /\ \A j \in 1 .. k : run[j] = rest[j]
  BY <1>1, <1>3, AcceptedRunType
<1>6. k \in Nat /\ Len(accepted) \in Nat
  BY <1>1, <1>5, LenProperties DEF TypeOK
<1>7. Reached(s) = n + g - r
  BY <1>1, <1>4 DEF Reached
<1>8. /\ group' = group /\ dests' = dests
      /\ rest' = SubSeq(rest, (k + 1) + 1, r)
  BY <1>1 DEF LogRun, Drop
<1>9. Reached(s)' = n + g - Len(rest')
  BY <1>1, <1>4, <1>8 DEF Reached
<1>10. Len(rest') = IF k < r THEN r - (k + 1) ELSE 0
  <2>1. \A i \in (k + 1) + 1 .. r : rest[i] \in Messages
    BY <1>1, <1>2, <1>3, <1>6, ElementOfSeq
  <2>2. Len(SubSeq(rest, (k + 1) + 1, r)) = IF (k + 1) + 1 <= r THEN r - ((k + 1) + 1) + 1 ELSE 0
    <3>1. (k + 1) + 1 \in Int /\ r \in Int
      BY <1>2, <1>6
    <3>2. QED
      BY <2>1, <3>1, SubSeqProperties
  <2>3. QED
    BY <1>2, <1>5, <1>6, <1>8, <2>2
<1>11. n + g - r \in Nat /\ n + g - r + k <= Len(accepted)
  BY <1>2, <1>5, <1>6
<1>12. \A j \in 1 .. k : run[j] = accepted[n + g - r + j]
  <2>1. \A j \in 1 .. k : j \in 1 .. r
    BY <1>2, <1>5, <1>6
  <2>2. QED
    BY <1>2, <1>5, <2>1
<1>13. ASSUME k < r
       PROVE  /\ rest[k + 1] = accepted[n + g - r + k + 1]
              /\ Reached(s)' = n + g - r + k + 1
  <2>1. k + 1 \in 1 .. r /\ n + g - r + (k + 1) = n + g - r + k + 1
    BY <1>2, <1>6, <1>13
  <2>2. n + g - (r - (k + 1)) = n + g - r + k + 1
    BY <1>2, <1>6
  <2>3. QED
    BY <1>2, <1>9, <1>10, <1>13, <2>1, <2>2
<1>14. k = r => Reached(s)' = n + g - r + k
  BY <1>2, <1>6, <1>9, <1>10
<1>15. QED
  BY <1>1, <1>4, <1>5, <1>6, <1>7, <1>11, <1>12, <1>13, <1>14

\* LogRun leaves the processed messages alone.
LEMMA LogRunProcesses ==
    ASSUME TypeOK, NEW w \in Workers, LogRun(w), dests # <<>>
    PROVE  Processed' = Processed
<1>1. Head(dests) # Dispatcher
  BY HeadTailProperties, StationsAssumption DEF TypeOK
<1>2. queue'[Dispatcher] = queue[Dispatcher]
  BY <1>1, StationsAssumption DEF LogRun, TypeOK
<1>3. QED
  BY <1>2 DEF LogRun, Processed, Backlog

\* So does StartGroup.
LEMMA StartGroupProcesses ==
    ASSUME NEW w \in Workers, StartGroup(w)
    PROVE  Processed' = Processed
BY DEF StartGroup, Processed, Backlog

\* Only LogRun hands messages to a sink, to the first of those to be served.
LEMMA ReceivedStep ==
    ASSUME TypeOK, [Next]_vars, NEW s \in Sinks
    PROVE  received'[s] = received[s] \/ \E w \in Workers : LogRun(w) /\ s = Head(dests)
<1>1. ASSUME NEW w \in Workers, LogRun(w), s # Head(dests)
      PROVE  received'[s] = received[s]
  BY <1>1 DEF LogRun, TypeOK
<1>2. QED
  BY <1>1
     DEF Next, ProducerStep, ConfigStep, WorkerStep, vars, CallLog, Enqueue, NotifyPool,
         CallWait, WaitReturns, AddSink, DeleteSink, DeleteLogger, TakeToken, Lock, Swap,
         Finish, StartGroup, NotifySink, NextSink, EndGroup, DispatchThrows, WriteMessage,
         WriteThrows

\* What has been received stays within the order when it is continued.
LEMMA AlongKept ==
    ASSUME NEW q, NEW a, NEW b, NEW n \in Nat, NEW k \in Nat, n <= k,
           \A i \in 1 .. n : b[i] = a[i], Along(q, a, n)
    PROVE  Along(q, b, k)
<1>1. PICK pos \in [1 .. Len(q) -> 1 .. n] :
            /\ \A i \in 1 .. Len(q) : q[i] = a[pos[i]]
            /\ \A i, j \in 1 .. Len(q) : i < j => pos[i] < pos[j]
  BY DEF Along
<1>2. 1 .. n \subseteq 1 .. k
  OBVIOUS
<1>3. pos \in [1 .. Len(q) -> 1 .. k]
  BY <1>2
<1>4. \A i \in 1 .. Len(q) : q[i] = b[pos[i]]
  BY <1>1
<1>5. QED
  BY <1>1, <1>3, <1>4 DEF Along

\* What comes next in the order may be received next.
LEMMA AlongConcat ==
    ASSUME NEW S, NEW q \in Seq(S), NEW run \in Seq(S), NEW a, NEW n \in Nat,
           \A j \in 1 .. Len(run) : run[j] = a[n + j], Along(q, a, n)
    PROVE  Along(q \o run, a, n + Len(run))
<1>1. PICK pos \in [1 .. Len(q) -> 1 .. n] :
            /\ \A i \in 1 .. Len(q) : q[i] = a[pos[i]]
            /\ \A i, j \in 1 .. Len(q) : i < j => pos[i] < pos[j]
  BY DEF Along
<1>2. PICK l, k : l = Len(q) /\ k = Len(run)
  OBVIOUS
<1>3. /\ l \in Nat /\ k \in Nat /\ Len(q \o run) = l + k
      /\ \A i \in 1 .. l + k : (q \o run)[i] = IF i <= l THEN q[i] ELSE run[i - l]
  BY <1>2, LenProperties, ConcatProperties
<1> DEFINE new == [i \in 1 .. l + k |-> IF i <= l THEN pos[i] ELSE n + (i - l)]
<1>4. \A i \in 1 .. l : pos[i] \in 1 .. n
  BY <1>2
<1>5. ASSUME NEW i \in 1 .. l + k
      PROVE  /\ i <= l => new[i] = pos[i] /\ i \in 1 .. l /\ new[i] \in 1 .. n
             /\ ~ (i <= l) => new[i] = n + (i - l) /\ i - l \in 1 .. k
             /\ new[i] \in 1 .. n + k
  <2>1. CASE i <= l
    <3>1. i \in 1 .. l
      BY <1>3, <2>1
    <3>2. new[i] = pos[i] /\ pos[i] \in 1 .. n
      BY <1>4, <2>1, <3>1
    <3>3. QED
      BY <1>3, <2>1, <3>1, <3>2
  <2>2. CASE ~ (i <= l)
    <3>1. i - l \in 1 .. k
      BY <1>3, <2>2
    <3>2. new[i] = n + (i - l)
      BY <2>2
    <3>3. QED
      BY <1>3, <2>2, <3>1, <3>2
  <2>3. QED
    BY <2>1, <2>2
<1>6. new \in [1 .. l + k -> 1 .. n + k]
  BY <1>5
<1> HIDE DEF new
<1>7. ASSUME NEW i \in 1 .. l + k
      PROVE  (q \o run)[i] = a[new[i]]
  <2>1. CASE i <= l
    BY <1>1, <1>2, <1>3, <1>5, <2>1
  <2>2. CASE ~ (i <= l)
    BY <1>2, <1>3, <1>5, <2>2
  <2>3. QED
    BY <2>1, <2>2
<1>8. ASSUME NEW i \in 1 .. l + k, NEW j \in 1 .. l + k, i < j
      PROVE  new[i] < new[j]
  <2>1. CASE j <= l
    <3>1. i <= l
      BY <1>3, <1>8, <2>1
    <3>2. QED
      BY <1>1, <1>2, <1>5, <1>8, <2>1, <3>1
  <2>2. CASE i <= l /\ ~ (j <= l)
    <3>1. new[i] \in 1 .. n /\ new[j] = n + (j - l) /\ j - l \in 1 .. k
      BY <1>5, <2>2
    <3>2. QED
      BY <1>3, <3>1
  <2>3. CASE ~ (i <= l)
    <3>1. new[i] = n + (i - l) /\ new[j] = n + (j - l)
      BY <1>3, <1>5, <1>8, <2>3
    <3>2. QED
      BY <1>3, <1>8, <3>1
  <2>4. QED
    BY <1>3, <1>8, <2>1, <2>2, <2>3
<1>9. QED
  BY <1>2, <1>3, <1>6, <1>7, <1>8 DEF Along

\* The premises of the steps on order and loss, all kept by every step.
PlaceInv == TypeOK /\ MsgInv /\ RouteInv /\ LinkInv /\ GroupInv /\ LinksInv /\ QueueInv

\* Every step keeps what the sinks received along the order of acceptance.
LEMMA OrderNext ==
    ASSUME PlaceInv, PlaceInv', OrderInv, [Next]_vars
    PROVE  OrderInv'
<1>1. SUFFICES ASSUME NEW s \in Sinks
               PROVE  Along(received'[s], accepted', Reached(s)')
  BY DEF OrderInv
<1>2. Along(received[s], accepted, Reached(s))
  BY DEF OrderInv
<1>3. PICK n, k : n = Reached(s) /\ k = Reached(s)'
  OBVIOUS
<1>4. n \in Nat /\ n <= Len(accepted)
  <2>1. n \in Nat /\ n <= Processed + Len(group)
    BY <1>3, ReachedBounds DEF PlaceInv
  <2>2. Processed \in Nat /\ Len(group) \in Nat /\ Processed + Len(group) <= Len(accepted) /\ Len(accepted) \in Nat
    BY Positions DEF PlaceInv
  <2>3. QED
    BY <2>1, <2>2
<1>5. /\ n <= k
      /\ \A i \in 1 .. n : accepted'[i] = accepted[i]
  <2>1. n <= k
    BY <1>3, ReachedStep DEF PlaceInv
  <2>2. \A i \in 1 .. Len(accepted) : accepted'[i] = accepted[i]
    BY AcceptedKept DEF PlaceInv
  <2>3. Len(accepted) \in Nat
    BY LenProperties DEF PlaceInv, TypeOK
  <2>4. QED
    BY <1>4, <2>1, <2>2, <2>3
<1>6. k \in Nat
  <2>1. Reached(s)' \in Nat
    <3>1. group' \in Seq(Messages) /\ rest' \in Seq(Messages) /\ Len(rest') <= Len(group')
      BY DEF PlaceInv, TypeOK, GroupInv, EndsWith
    <3>2. Processed' \in Nat
      BY Positions, ProcessedStep DEF PlaceInv
    <3>3. QED
      BY <3>1, <3>2, LenProperties DEF Reached
  <2>2. QED
    BY <1>3, <2>1
<1>7. CASE received'[s] = received[s]
  <2>1. Along(received[s], accepted', k)
    BY <1>2, <1>3, <1>4, <1>5, <1>6, AlongKept
  <2>2. QED
    BY <1>3, <1>7, <2>1
<1>8. ASSUME NEW w \in Workers, LogRun(w), s = Head(dests)
      PROVE  Along(received'[s], accepted', Reached(s)')
  <2>1. Processed' = Processed
    BY <1>8, LogRunProcesses DEF PlaceInv, LogRun, RouteInv
  <2>2. PICK q, run : q = received[s] /\ run = AcceptedRun(s)
    OBVIOUS
  <2>3. /\ run \in Seq(Messages) /\ Len(run) \in Nat
        /\ \A j \in 1 .. Len(run) : run[j] = accepted[n + j]
        /\ Len(run) < Len(rest) => k = n + Len(run) + 1
        /\ Len(run) = Len(rest) => k = n + Len(run)
        /\ Len(run) <= Len(rest)
    BY <1>3, <1>8, <2>1, <2>2, RunPositions DEF PlaceInv
  <2>4. Len(rest) \in Nat
    BY LenProperties DEF PlaceInv, TypeOK
  <2>5. n + Len(run) \in Nat /\ n + Len(run) <= k
    BY <1>4, <2>3, <2>4
  <2>6. q \in Seq(Messages) /\ received'[s] = q \o run /\ accepted' = accepted
    BY <1>8, <2>2 DEF LogRun, PlaceInv, TypeOK
  <2>7. Along(q \o run, accepted, n + Len(run))
    BY <1>2, <1>3, <1>4, <2>2, <2>3, <2>6, AlongConcat
  <2>8. Along(q \o run, accepted, k)
    BY <1>6, <2>5, <2>7, AlongKept
  <2>9. QED
    BY <1>3, <2>6, <2>8
<1>9. received'[s] = received[s] \/ \E w \in Workers : LogRun(w) /\ s = Head(dests)
  BY ReceivedStep DEF PlaceInv
<1>10. QED
  BY <1>7, <1>8, <1>9

-----------------------------------------------------------------------------
(* What a filter that throws costs.                                        *)

\* Messages stay in the same run when the order is continued.
LEMMA SameRunKept ==
    ASSUME NEW a, NEW b, SameRun(a, b), Len(accepted) \in Nat, Len(accepted') \in Nat,
           Len(accepted) <= Len(accepted'),
           \A i \in 1 .. Len(accepted) : accepted'[i] = accepted[i]
    PROVE  SameRun(a, b)'
<1>1. PICK i \in 1 .. Len(accepted) : \E j \in i .. Len(accepted) :
            /\ {accepted[i], accepted[j]} = {a, b}
            /\ \A k \in i .. j : Via[accepted[k]] = Via[a]
  BY DEF SameRun
<1>2. PICK j \in i .. Len(accepted) :
            /\ {accepted[i], accepted[j]} = {a, b}
            /\ \A k \in i .. j : Via[accepted[k]] = Via[a]
  BY <1>1
<1>3. i \in 1 .. Len(accepted') /\ j \in i .. Len(accepted')
  OBVIOUS
<1>4. /\ accepted'[i] = accepted[i] /\ accepted'[j] = accepted[j]
      /\ \A k \in i .. j : accepted'[k] = accepted[k]
  OBVIOUS
<1>5. /\ {accepted'[i], accepted'[j]} = {a, b}
      /\ \A k \in i .. j : Via[accepted'[k]] = Via[a]
  BY <1>2, <1>4
<1>6. QED
  BY <1>3, <1>5 DEF SameRun

\* What a sink has handled stays handled.
LEMMA HandledStep ==
    ASSUME PlaceInv, [Next]_vars, NEW s \in Sinks, NEW m, Handled(s, m)
    PROVE  Handled(s, m)'
<1>1. CASE m \in ToSet(received[s])
  <2>1. CASE received'[s] = received[s]
    BY <1>1, <2>1 DEF Handled
  <2>2. ASSUME NEW run \in Seq(Messages), received'[s] = received[s] \o run
        PROVE  m \in ToSet(received'[s])
    <3>1. PICK q : q = received[s] /\ q \in Seq(Messages)
      BY DEF PlaceInv, TypeOK
    <3>2. /\ q \o run \in Seq(Messages) /\ Len(q \o run) = Len(q) + Len(run)
          /\ \A i \in 1 .. Len(q) + Len(run) : (q \o run)[i] = IF i <= Len(q) THEN q[i] ELSE run[i - Len(q)]
          /\ Len(q) \in Nat /\ Len(run) \in Nat
      BY <3>1, ConcatProperties, LenProperties
    <3>3. PICK i \in 1 .. Len(q) : m = q[i]
      BY <1>1, <3>1, ToSetOf
    <3>4. PICK z : z = q \o run
      OBVIOUS
    <3>5. z \in Seq(Messages) /\ i \in 1 .. Len(z) /\ z[i] = m
      BY <3>2, <3>3, <3>4
    <3>6. m \in ToSet(z)
      BY <3>5, ToSetOf
    <3>7. QED
      BY <2>2, <3>1, <3>4, <3>6
  <2>3. QED
    BY <2>1, <2>2, InboxStep DEF PlaceInv, Stays, Arrives, Departs, Handled
<1>2. CASE \E f \in FilterThrows : SameRun(m, f[2])
  <2>1. PICK f \in FilterThrows : SameRun(m, f[2])
    BY <1>2
  <2>2. PICK e : e = f[2] /\ SameRun(m, e)
    BY <2>1
  <2>3. SameRun(m, e)'
    BY <2>2, AcceptedKept, SameRunKept DEF PlaceInv
  <2>4. SameRun(m, f[2])'
    BY <2>2, <2>3 DEF SameRun
  <2>5. QED
    BY <2>4 DEF Handled
<1>3. CASE <<s, m>> \in SinkRejects \/ <<Via[m], s>> \in Reconfigured
  BY <1>3 DEF Handled
<1>4. QED
  BY <1>1, <1>2, <1>3 DEF Handled

\* Every step keeps that what a sink has been offered is handled.
LEMMA LossNext ==
    ASSUME PlaceInv, PlaceInv', LossInv, [Next]_vars
    PROVE  LossInv'
<1>1. PICK n, g : n = Processed /\ g = Len(group)
  OBVIOUS
<1>2. /\ n \in Nat /\ g \in Nat /\ n + g <= Len(accepted) /\ Len(accepted) \in Nat
      /\ \A j \in 1 .. g : group[j] = accepted[n + j]
  BY <1>1, Positions DEF PlaceInv
<1>3. \A i \in 1 .. Len(accepted) : accepted[i] \in Messages
  BY ElementOfSeq DEF PlaceInv, TypeOK
<1>4. SUFFICES ASSUME NEW s \in Sinks, NEW i \in 1 .. Reached(s)', NEW m,
                      m = accepted'[i], s \in ToSet(Links[Via[m]])
               PROVE  Handled(s, m)'
  BY DEF LossInv
<1>5. Reached(s) \in Nat /\ n <= Reached(s) /\ Reached(s) <= n + g
  BY <1>1, ReachedBounds DEF PlaceInv
<1>6. CASE i <= Reached(s)
  <2>1. i \in 1 .. Reached(s) /\ i \in 1 .. Len(accepted)
    BY <1>2, <1>5, <1>6
  <2>2. m = accepted[i]
    BY <1>4, <2>1, AcceptedKept DEF PlaceInv
  <2>3. Handled(s, m)
    BY <1>4, <2>1, <2>2 DEF LossInv
  <2>4. QED
    BY <2>3, HandledStep
<1>7. ASSUME NEW w \in Workers, StartGroup(w), s \notin ToSet(dests'), ~(i <= Reached(s))
      PROVE  Handled(s, m)'
  <2>1. PICK t, l : t = tray[Dispatcher] /\ t \in Seq(Messages) /\ t # <<>> /\ l = Via[Head(t)]
    BY <1>7, StationsAssumption DEF StartGroup, PlaceInv, TypeOK
  <2>2. PICK h : h = LeadingGroup(t) /\ group' = h /\ dests' = links[l] /\ accepted' = accepted
    BY <1>7, <2>1 DEF StartGroup
  <2>3. /\ h \in Seq(Messages) /\ Len(h) <= Len(t) /\ Len(h) \in Nat /\ Len(t) \in Nat
        /\ \A j \in 1 .. Len(h) : h[j] = t[j] /\ Via[h[j]] = l
    BY <2>1, <2>2, LeadingGroupType, LenProperties
  <2>4. n = Processed'
    BY <1>1, <1>7, StartGroupProcesses
  <2>5. Reached(s)' = n + Len(h)
    BY <1>7, <2>2, <2>4 DEF Reached
  <2>6. i - n \in 1 .. Len(h) /\ i - n \in 1 .. Len(t) /\ n + (i - n) = i
    BY <1>2, <1>5, <1>7, <2>3, <2>5
  <2>7. t[i - n] = accepted[n + (i - n)]
    BY <1>1, <2>1, <2>6, Positions DEF PlaceInv
  <2>8. Via[accepted[i]] = l
    BY <2>3, <2>6, <2>7
  <2>9. l \in Loggers
    BY <2>1, HeadTailProperties, MessagesAssumption
  <2>10. <<l, s>> \in Reconfigured
    BY <1>4, <1>7, <2>2, <2>8, <2>9 DEF PlaceInv, LinksInv
  <2>11. QED
    BY <1>4, <2>2, <2>8, <2>10 DEF Handled
<1>8. ASSUME NEW w \in Workers, LogRun(w), s = Head(dests), ~(i <= Reached(s))
      PROVE  Handled(s, m)'
  <2>1. Processed' = Processed
    BY <1>8, LogRunProcesses DEF PlaceInv, LogRun, RouteInv
  <2>2. PICK run, k, r : run = AcceptedRun(s) /\ k = Len(run) /\ r = Len(rest)
    OBVIOUS
  <2>3. PICK c : c = Reached(s)
    OBVIOUS
  <2>4. /\ run \in Seq(Messages) /\ k \in Nat /\ k <= r
        /\ \A j \in 1 .. k : run[j] = accepted[c + j]
        /\ k < r => rest[k + 1] = accepted[c + k + 1] /\ Reached(s)' = c + k + 1
        /\ k = r => Reached(s)' = c + k
    BY <1>8, <2>1, <2>2, <2>3, RunPositions DEF PlaceInv
  <2>5. r \in Nat /\ c \in Nat /\ i \in Nat /\ c < i
    BY <1>5, <1>8, <2>2, <2>3, LenProperties DEF PlaceInv, TypeOK
  <2>6. accepted' = accepted
    BY <1>8 DEF LogRun
  <2>7. CASE i <= c + k
    <3>1. i - c \in 1 .. k /\ c + (i - c) = i
      BY <2>4, <2>5, <2>7
    <3>2. accepted[i] = run[i - c]
      BY <2>4, <3>1
    <3>3. PICK q : q = received[s] /\ q \in Seq(Messages) /\ received'[s] = q \o run
      BY <1>8, <2>2 DEF LogRun, PlaceInv, TypeOK
    <3>4. /\ q \o run \in Seq(Messages) /\ Len(q \o run) = Len(q) + k /\ Len(q) \in Nat
          /\ \A j \in 1 .. Len(q) + k : (q \o run)[j] = IF j <= Len(q) THEN q[j] ELSE run[j - Len(q)]
      BY <2>2, <2>4, <3>3, ConcatProperties, LenProperties
    <3>5. PICK j : j = Len(q) + (i - c)
      OBVIOUS
    <3>6. j \in 1 .. Len(q) + k /\ ~ (j <= Len(q)) /\ j - Len(q) = i - c
      BY <2>4, <3>1, <3>4, <3>5
    <3>7. (q \o run)[j] = run[i - c]
      BY <3>4, <3>6
    <3>8. PICK z : z = q \o run
      OBVIOUS
    <3>9. z \in Seq(Messages) /\ j \in 1 .. Len(z) /\ z[j] = m
      BY <1>4, <2>6, <3>2, <3>4, <3>6, <3>7, <3>8
    <3>10. m \in ToSet(z)
      BY <3>9, ToSetOf
    <3>11. QED
      BY <3>3, <3>8, <3>10 DEF Handled
  <2>8. CASE ~ (i <= c + k)
    <3>1. k < r /\ i = c + k + 1
      BY <2>4, <2>5, <2>8
    <3>2. accepted[i] = rest[k + 1]
      BY <2>4, <3>1
    <3>3. <<s, rest[k + 1]>> \in SinkRejects \cup FilterThrows
      BY <2>2, <3>1, AcceptedRunType DEF PlaceInv, TypeOK
    <3>4. <<s, rest[k + 1]>> \notin FilterThrows
      BY <1>8, <2>2, <3>1 DEF LogRun, FilterFails
    <3>5. QED
      BY <1>4, <2>6, <3>2, <3>3, <3>4 DEF Handled
  <2>9. QED
    BY <2>7, <2>8
<1>9. ASSUME NEW w \in Workers, DispatchThrows(w), ~(i <= Reached(s))
      PROVE  Handled(s, m)'
  <2>1. PICK d, r, k : d = Head(dests) /\ r = Len(rest) /\ k = Len(AcceptedRun(d))
    OBVIOUS
  <2>2. k < r /\ <<d, rest[k + 1]>> \in FilterThrows /\ accepted' = accepted
    BY <1>9, <2>1 DEF DispatchThrows, FilterFails
  <2>3. r \in Nat /\ r <= g /\ \A j \in 1 .. r : rest[j] = accepted[n + g - r + j]
    BY <1>1, <2>1, Positions DEF PlaceInv
  <2>4. k \in Nat
    BY <2>1, AcceptedRunType, LenProperties DEF PlaceInv, TypeOK
  <2>5. PICK b : b = n + g - r + (k + 1)
    OBVIOUS
  <2>6. b \in n + 1 .. n + g /\ rest[k + 1] = accepted[b]
    <3>1. k + 1 \in 1 .. r
      BY <2>2, <2>3, <2>4
    <3>2. rest[k + 1] = accepted[n + g - r + (k + 1)]
      BY <2>3, <3>1
    <3>3. QED
      BY <1>2, <2>3, <2>5, <3>1, <3>2
  <2>7. \A j \in n + 1 .. n + g : Via[accepted[j]] = Via[Head(group)]
    <3>1. ASSUME NEW j \in n + 1 .. n + g
          PROVE  Via[accepted[j]] = Via[Head(group)]
      <4>1. j - n \in 1 .. g /\ n + (j - n) = j
        BY <1>2
      <4>2. accepted[j] = group[j - n]
        BY <1>2, <4>1
      <4>3. group # <<>>
        BY <1>9 DEF DispatchThrows, PlaceInv, RouteInv
      <4>4. QED
        BY <1>1, <4>1, <4>2, <4>3 DEF PlaceInv, LinkInv
    <3>2. QED
      BY <3>1
  <2>8. i \in n + 1 .. n + g
    <3>1. Reached(s)' = n + g
      <4>1. Processed' = n + g
        BY <1>1, <1>9, ProcessedStep DEF PlaceInv
      <4>2. dests' = <<>> /\ group' = <<>>
        BY <1>9 DEF DispatchThrows
      <4>3. s \notin ToSet(<<>>) /\ Len(<<>>) = 0
        <5>1. Len(<<>>) = 0 /\ DOMAIN <<>> = {}
          BY EmptySeq, LenProperties
        <5>2. QED
          BY <5>1 DEF ToSet
      <4>4. QED
        BY <1>2, <4>1, <4>2, <4>3 DEF Reached
    <3>2. QED
      BY <1>2, <1>5, <1>9, <3>1
  <2>9. SameRun(accepted[i], accepted[b])
    <3>1. CASE i <= b
      <4>1. i \in 1 .. Len(accepted) /\ b \in i .. Len(accepted)
        BY <1>2, <2>6, <2>8, <3>1
      <4>2. \A j \in i .. b : Via[accepted[j]] = Via[accepted[i]]
        <5>1. \A j \in i .. b : j \in n + 1 .. n + g
          BY <1>2, <2>6, <2>8
        <5>2. QED
          BY <2>7, <2>8, <5>1
      <4>3. QED
        BY <4>1, <4>2 DEF SameRun
    <3>2. CASE b <= i
      <4>1. b \in 1 .. Len(accepted) /\ i \in b .. Len(accepted)
        BY <1>2, <2>6, <2>8, <3>2
      <4>2. \A j \in b .. i : Via[accepted[j]] = Via[accepted[i]]
        <5>1. \A j \in b .. i : j \in n + 1 .. n + g
          BY <1>2, <2>6, <2>8
        <5>2. QED
          BY <2>7, <2>8, <5>1
      <4>3. {accepted[b], accepted[i]} = {accepted[i], accepted[b]}
        OBVIOUS
      <4>4. QED
        BY <4>1, <4>2, <4>3 DEF SameRun
    <3>3. QED
      BY <1>2, <2>6, <2>8, <3>1, <3>2
  <2>10. PICK f : f = <<d, rest[k + 1]>> /\ f \in FilterThrows /\ f[2] = accepted[b]
    BY <2>2, <2>6
  <2>11. SameRun(m, f[2])'
    BY <1>4, <2>2, <2>9, <2>10 DEF SameRun
  <2>12. QED
    BY <2>10, <2>11 DEF Handled
<1>10. \/ Reached(s)' = Reached(s)
       \/ \E w \in Workers : StartGroup(w) /\ s \notin ToSet(dests')
       \/ \E w \in Workers : LogRun(w) /\ s = Head(dests) /\ s \in Sinks
       \/ \E w \in Workers : DispatchThrows(w)
  BY ReachedStep DEF PlaceInv
<1>11. Reached(s)' = Reached(s) => i <= Reached(s)
  BY <1>5
<1>12. QED
  BY <1>6, <1>7, <1>8, <1>9, <1>10, <1>11

-----------------------------------------------------------------------------
(* The theorems.                                                           *)

DeliveryInv ==
    /\ PInv
    /\ AcceptedInv
    /\ GroupInv
    /\ LinksInv
    /\ QueueInv
    /\ OrderInv
    /\ LossInv
    /\ SinkKeepsRemaining

\* The invariant holds at first.
LEMMA DeliveryInit == Init => DeliveryInv
<1>1. SUFFICES ASSUME Init PROVE DeliveryInv
  OBVIOUS
<1>2. /\ <<>> \in Seq(Messages) /\ Len(<<>>) = 0 /\ DOMAIN <<>> = {} /\ <<>> \o <<>> = <<>>
      /\ 1 .. 0 = {} /\ EndsWith(<<>>, <<>>)
  <2>1. <<>> \in Seq(Messages) /\ Len(<<>>) = 0
    BY EmptySeq
  <2>2. DOMAIN <<>> = 1 .. 0 /\ 1 .. 0 = {}
    BY <2>1, LenProperties
  <2>3. <<>> \o <<>> = <<>> /\ EndsWith(<<>>, <<>>)
    BY <2>1, ConcatEmptySeq, EndsTrivially
  <2>4. QED
    BY <2>1, <2>2, <2>3
<1>3. ToSet(<<>>) = {}
  BY <1>2 DEF ToSet
<1>4. /\ accepted = <<>> /\ group = <<>> /\ rest = <<>> /\ dests = <<>> /\ links = Links
      /\ tray[Dispatcher] = <<>> /\ queue[Dispatcher] = <<>>
      /\ \A s \in Sinks : tray[s] = <<>> /\ queue[s] = <<>> /\ received[s] = <<>> /\ written[s] = <<>>
  BY <1>1 DEF Init
<1>5. PInv
  BY <1>1, PInvInit
<1>6. AcceptedInv
  BY <1>1, <1>3 DEF Init, AcceptedInv
<1>7. GroupInv
  BY <1>2, <1>4 DEF GroupInv
<1>8. LinksInv
  <2>1. Distinct(<<>>)
    BY <1>2 DEF Distinct
  <2>2. ASSUME NEW l \in Loggers
        PROVE  Distinct(Links[l])
    <3>1. Links[l] \in Seq(Sinks) /\ IsInjective(Links[l])
      BY LinksAssumption
    <3>2. DOMAIN Links[l] = 1 .. Len(Links[l])
      BY <3>1, LenProperties
    <3>3. QED
      BY <3>1, <3>2 DEF IsInjective, Distinct
  <2>3. QED
    BY <1>4, <2>1, <2>2 DEF LinksInv
<1>9. Backlog = <<>> /\ \A s \in Sinks : Inbox(s) = <<>>
  BY <1>2, <1>4 DEF Backlog, Inbox
<1>10. QueueInv
  BY <1>2, <1>4, <1>9 DEF QueueInv
<1>11. \A s \in Sinks : Reached(s) = 0
  BY <1>2, <1>3, <1>4, <1>9 DEF Reached, Processed
<1>12. OrderInv
  <2>1. Along(<<>>, <<>>, 0)
    <3>1. \E pos : pos \in [1 .. Len(<<>>) -> 1 .. 0]
      <4>1. [i \in {} |-> i] \in [{} -> {}]
        OBVIOUS
      <4>2. QED
        BY <1>2, <4>1
    <3>2. QED
      BY <1>2, <3>1 DEF Along
  <2>2. QED
    BY <1>4, <1>11, <2>1 DEF OrderInv
<1>13. LossInv
  BY <1>2, <1>11 DEF LossInv
<1>14. SinkKeepsRemaining
  <2>1. \A s \in Sinks : Survivors(s, <<>>) = <<>>
    BY SurvivorsEmpty
  <2>2. QED
    BY <1>2, <1>4, <2>1 DEF SinkKeepsRemaining
<1>15. QED
  BY <1>5, <1>6, <1>7, <1>8, <1>10, <1>12, <1>13, <1>14 DEF DeliveryInv

\* Every step keeps the invariant.
LEMMA DeliveryNext ==
    ASSUME DeliveryInv, [Next]_vars
    PROVE  DeliveryInv' /\ PlaceInv /\ PlaceInv'
<1>1. TypeOK /\ MsgInv /\ RouteInv /\ LinkInv /\ OwnerInv
  BY DEF DeliveryInv, PInv
<1>2. PInv'
  BY PInvNext DEF DeliveryInv
<1>3. TypeOK' /\ MsgInv' /\ RouteInv' /\ LinkInv'
  BY <1>2 DEF PInv
<1>4. AcceptedInv'
  BY <1>1, AcceptedNext DEF DeliveryInv
<1>5. GroupInv'
  BY <1>1, <1>3, GroupNext DEF DeliveryInv
<1>6. LinksInv'
  BY <1>1, LinksNext DEF DeliveryInv
<1>7. QueueInv'
  BY <1>1, QueueNext DEF DeliveryInv
<1>8. PlaceInv /\ PlaceInv'
  BY <1>1, <1>3, <1>5, <1>6, <1>7 DEF PlaceInv, DeliveryInv
<1>9. OrderInv'
  BY <1>8, OrderNext DEF DeliveryInv
<1>10. LossInv'
  BY <1>8, LossNext DEF DeliveryInv
<1>11. SinkKeepsRemaining'
  BY <1>1, RemainingNext DEF DeliveryInv
<1>12. QED
  BY <1>2, <1>4, <1>5, <1>6, <1>7, <1>8, <1>9, <1>10, <1>11 DEF DeliveryInv

\* DeliveryInv holds in every state of every behaviour.
THEOREM DeliveryInvariance == Spec => []DeliveryInv
<1>1. DeliveryInv /\ [Next]_vars => DeliveryInv'
  BY DeliveryNext
<1>2. QED
  BY <1>1, DeliveryInit, PTL DEF Spec

\* A module or flusher that throws costs its sink that one message: all others
\* it received are written in their order, or still on their way to it.
THEOREM RemainingKept == Spec => []SinkKeepsRemaining
<1>1. DeliveryInv => SinkKeepsRemaining
  BY DEF DeliveryInv
<1>2. QED
  BY <1>1, DeliveryInvariance, PTL

\* A filter that throws costs at most the messages of its own group: every
\* other message is, once no queue or tray holds it, in each sink it is meant
\* for, unless that sink rejected it or was reconfigured.
THEOREM FilterLossContained == Spec => []LossContained
<1>1. ASSUME DeliveryInv
      PROVE  LossContained
  <2>1. TypeOK /\ QueueInv /\ GroupInv
    BY <1>1 DEF DeliveryInv, PInv
  <2>2. SUFFICES ASSUME NEW m \in ToSet(accepted), Settled(m), NEW s \in ToSet(Links[Via[m]])
                 PROVE  Handled(s, m)
    BY DEF LossContained, Handled
  <2>3. PICK i : i \in 1 .. Len(accepted) /\ m = accepted[i] /\ m \in Messages
    <3>1. PICK a \in Seq(Messages) : a = accepted
      BY <2>1 DEF TypeOK
    <3>2. PICK i \in 1 .. Len(a) : m = a[i]
      BY <2>2, <3>1, ToSetOf
    <3>3. m \in Messages
      BY <3>2, ElementOfSeq
    <3>4. QED
      BY <3>1, <3>2, <3>3
  <2>4. s \in Sinks
    BY <2>3, MessagesAssumption, LinksAssumption, ToSetOf
  <2>5. PICK t, q : t = tray[Dispatcher] /\ q = queue[Dispatcher]
    OBVIOUS
  <2>6. t \in Seq(Messages) /\ q \in Seq(Messages)
    BY <2>1, <2>5, StationsAssumption DEF TypeOK
  <2>7. /\ Len(t) \in Nat /\ Len(q) \in Nat /\ Len(accepted) \in Nat
        /\ Backlog = t \o q /\ Len(t \o q) = Len(t) + Len(q)
        /\ \A j \in 1 .. Len(t) + Len(q) : (t \o q)[j] = IF j <= Len(t) THEN t[j] ELSE q[j - Len(t)]
    BY <2>1, <2>5, <2>6, LenProperties, ConcatProperties DEF Backlog, TypeOK
  <2>8. PICK b : b = Backlog
    OBVIOUS
  <2>9. /\ Len(b) = Len(t) + Len(q) /\ Len(b) <= Len(accepted)
        /\ \A j \in 1 .. Len(b) : b[j] = accepted[Len(accepted) - Len(b) + j]
        /\ \A j \in 1 .. Len(b) : b[j] = IF j <= Len(t) THEN t[j] ELSE q[j - Len(t)]
    BY <2>1, <2>7, <2>8 DEF QueueInv, EndsWith
  <2>10. i <= Len(accepted) - Len(b)
    <3>1. SUFFICES ASSUME ~ (i <= Len(accepted) - Len(b))
                   PROVE  FALSE
      OBVIOUS
    <3>2. PICK j : j = i - (Len(accepted) - Len(b))
      OBVIOUS
    <3>3. j \in 1 .. Len(b) /\ Len(accepted) - Len(b) + j = i
      BY <2>3, <2>7, <2>9, <3>1, <3>2
    <3>4. m = IF j <= Len(t) THEN t[j] ELSE q[j - Len(t)]
      BY <2>3, <2>9, <3>3
    <3>5. m \notin ToSet(t) /\ m \notin ToSet(q)
      BY <2>2, <2>5 DEF Settled
    <3>6. CASE j <= Len(t)
      <4>1. j \in 1 .. Len(t)
        BY <2>7, <2>9, <3>3, <3>6
      <4>2. QED
        BY <2>6, <3>4, <3>5, <3>6, <4>1, ToSetOf
    <3>7. CASE ~ (j <= Len(t))
      <4>1. j - Len(t) \in 1 .. Len(q)
        BY <2>7, <2>9, <3>3, <3>7
      <4>2. QED
        BY <2>6, <3>4, <3>5, <3>7, <4>1, ToSetOf
    <3>8. QED
      BY <3>6, <3>7
  <2>11. i \in 1 .. Reached(s)
    <3>1. Reached(s) \in Nat /\ Processed <= Reached(s) /\ Processed = Len(accepted) - Len(b)
      BY <2>1, <2>8, ReachedBounds DEF Processed
    <3>2. QED
      BY <2>3, <2>7, <2>9, <2>10, <3>1
  <2>12. QED
    BY <1>1, <2>2, <2>3, <2>4, <2>11 DEF DeliveryInv, LossInv
<1>2. QED
  BY <1>1, DeliveryInvariance, PTL

\* The steps of the pipeline are steps of MessageOrder: Enqueue accepts a
\* message not accepted before, WriteMessage writes one that was accepted after
\* all its sink wrote before, and no other step touches either.
LEMMA OrderStep ==
    ASSUME DeliveryInv, [Next]_vars
    PROVE  Order!ONext \/ (accepted' = accepted /\ written' = written)
<1>1. /\ accepted \in Seq(Messages) /\ received \in [Sinks -> Seq(Messages)]
      /\ written \in [Sinks -> Seq(Messages)] /\ Len(accepted) \in Nat
  BY LenProperties DEF DeliveryInv, PInv, TypeOK
<1>2. ASSUME NEW p \in Producers, Enqueue(p)
      PROVE  Order!ONext
  <2>1. msg[p] \in Messages /\ msg[p] \notin ToSet(accepted)
    BY <1>2 DEF Enqueue, DeliveryInv, PInv, MsgInv, AcceptedInv
  <2>2. Order!Accept(msg[p])
    BY <1>2, <2>1 DEF Enqueue, Order!Accept, Order!ToSet, ToSet
  <2>3. QED
    BY <2>1, <2>2 DEF Order!ONext
<1>3. ASSUME NEW w \in Workers, NEW s \in Sinks, WriteMessage(w, s)
      PROVE  Order!ONext
  <2>1. PICK t, q, x, r, v : /\ t = tray[s] /\ q = queue[s] /\ x = Inbox(s)
                             /\ r = received[s] /\ v = written[s]
    OBVIOUS
  <2>2. /\ t \in Seq(Messages) /\ q \in Seq(Messages) /\ t # <<>> /\ r \in Seq(Messages)
        /\ v \in Seq(Messages)
    BY <1>1, <1>3, <2>1 DEF WriteMessage, DeliveryInv, PInv, TypeOK
  <2>3. x \in Seq(Messages) /\ x # <<>> /\ Head(x) = Head(t)
    <3>1. t \o q # <<>> /\ Head(t \o q) = Head(t) /\ t \o q \in Seq(Messages)
      BY <2>2, ConcatHeadTail, ConcatProperties
    <3>2. QED
      BY <2>1, <3>1 DEF Inbox
  <2>4. PICK h : h = Len(r) - Len(x) + 1
    OBVIOUS
  <2>5. EndsWith(r, x)
    BY <2>1 DEF DeliveryInv, QueueInv
  <2>6. h \in 1 .. Len(r) /\ Head(x) = r[h]
    BY <2>2, <2>3, <2>4, <2>5, EndsTail
  <2>7. /\ Len(r) \in Nat /\ Len(x) \in Nat
        /\ \A i \in 1 .. Len(v) : \E j \in 1 .. h - 1 : v[i] = r[j]
    <3>1. Len(r) \in Nat /\ Len(x) \in Nat
      BY <2>2, <2>3, LenProperties
    <3>2. h - 1 = Len(r) - Len(x)
      BY <2>4, <3>1
    <3>3. QueueInv
      BY DEF DeliveryInv
    <3>4. \A i \in 1 .. Len(v) : \E j \in 1 .. Len(r) - Len(x) : v[i] = r[j]
      BY <2>1, <3>3, Zenon DEF QueueInv
    <3>5. QED
      BY <3>1, <3>2, <3>4
  <2>8. PICK n : n = Reached(s) /\ n \in Nat /\ n <= Len(accepted)
    <3>1. TypeOK /\ QueueInv /\ GroupInv
      BY DEF DeliveryInv, PInv
    <3>2. /\ Reached(s) \in Nat /\ Reached(s) <= Processed + Len(group)
          /\ Processed \in Nat /\ Len(group) \in Nat /\ Processed + Len(group) <= Len(accepted)
      BY <3>1, Positions, ReachedBounds
    <3>3. QED
      BY <1>1, <3>2
  <2>9. PICK pos \in [1 .. Len(r) -> 1 .. n] :
            /\ \A i \in 1 .. Len(r) : r[i] = accepted[pos[i]]
            /\ \A i, j \in 1 .. Len(r) : i < j => pos[i] < pos[j]
    BY <2>1, <2>8 DEF DeliveryInv, OrderInv, Along
  <2>10. PICK k : k = pos[h]
    OBVIOUS
  <2>11. k \in 1 .. Len(accepted) /\ accepted[k] = Head(t)
    <3>1. k \in 1 .. n
      BY <2>6, <2>9, <2>10
    <3>2. r[h] = accepted[k]
      BY <2>6, <2>9, <2>10
    <3>3. QED
      BY <1>1, <2>3, <2>6, <2>8, <3>1, <3>2
  <2>12. ASSUME NEW e \in ToSet(v)
         PROVE  e \in {accepted[j] : j \in 1 .. k - 1}
    <3>1. PICK i \in 1 .. Len(v) : e = v[i]
      BY <2>2, ToSetOf
    <3>2. PICK j \in 1 .. h - 1 : e = r[j]
      BY <2>7, <3>1
    <3>3. j \in 1 .. Len(r) /\ j < h
      BY <2>6, <2>7
    <3>4. pos[j] \in 1 .. n /\ pos[j] < k /\ e = accepted[pos[j]]
      BY <2>6, <2>9, <2>10, <3>2, <3>3
    <3>5. pos[j] \in 1 .. k - 1
      BY <2>8, <2>11, <3>4
    <3>6. QED
      BY <3>4, <3>5
  <2>13. /\ written' = [written EXCEPT ![s] = Append(written[s], accepted[k])]
         /\ accepted' = accepted
    BY <1>3, <2>1, <2>11 DEF WriteMessage
  <2>14. Order!Write(s, k)
    BY <2>1, <2>12, <2>13 DEF Order!Write, Order!ToSet, ToSet
  <2>15. QED
    BY <2>11, <2>14 DEF Order!ONext
<1>4. QED
  BY <1>2, <1>3
     DEF Next, ProducerStep, ConfigStep, WorkerStep, vars, CallLog, NotifyPool,
         CallWait, WaitReturns, AddSink, DeleteSink, DeleteLogger, TakeToken, Lock, Swap,
         Finish, StartGroup, LogRun, NotifySink, NextSink, EndGroup, DispatchThrows,
         WriteThrows

\* Every sink writes along the one order in which the dispatcher accepted the
\* messages, each of them at most once, with any number of worker threads.
THEOREM OrderImplemented == Spec => ImplementsOrder
<1>1. Init => Order!OInit
  BY DEF Init, Order!OInit
<1>2. DeliveryInv /\ [Next]_vars => [Order!ONext]_(Order!ovars)
  BY OrderStep DEF Order!ovars
<1>3. QED
  BY <1>1, <1>2, DeliveryInvariance, PTL DEF Spec, ImplementsOrder, Order!OSpec

=============================================================================
