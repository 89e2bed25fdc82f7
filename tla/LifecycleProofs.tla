-------------------------- MODULE LifecycleProofs --------------------------
(***************************************************************************)
(* Proofs about Lifecycle for any users, workers and messages.  LInv is    *)
(* inductive: the types, who operates a station, who has a shared_ptr to   *)
(* the pool, that ~manager() leaves nothing behind unless a log() overlaps *)
(* it, and that every message accepted is on its way in the order of       *)
(* acceptance, with a token that will move it or an exception reported.    *)
(***************************************************************************)
EXTENDS Lifecycle, SequenceLemmas

\* A station belongs to the worker that operates it.
TokenInv ==
    /\ \A w \in Workers, k \in Tokens :
          owner[k] = w <=> token[w] = k /\ wpc[w] \in {"operate", "write", "notify", "post"}
    /\ \A w \in Workers :
          /\ token[w] = Nobody <=> wpc[w] \in {"ready", "exited"}
          /\ wpc[w] = "write" => token[w] = "sink"
          /\ wpc[w] \in {"notify", "post"} => token[w] = "dispatcher"

UserInv == \A u \in Users : upc[u] = "checked" => msg[u] \in Messages

\* The shared_ptrs to the pool; without any left workers may end, and no task
\* comes any more.
RefInv ==
    /\ Manager \in poolRefs <=> mpc \in {"alive", "waiting", "idle", "cleared"}
    /\ \A u \in Users : u \in poolRefs <=> upc[u] = "post"
    /\ \A w \in Workers : w \in poolRefs <=> wpc[w] = "post"
    /\ closer # Nobody => poolRefs = {}
    /\ \A w \in Workers : wpc[w] = "exited" => closer # Nobody /\ tokens = <<>>

\* Nothing is going on behind the back of ~manager() but by a log() that
\* overlaps it.
QuietInv ==
    /\ mpc = "alive" => ~overlap
    /\ reported \/ selfJoin => overlap
    /\ ~overlap /\ mpc # "alive" => \A u \in Users : ~InLog(u)
    /\ ~overlap /\ mpc \in {"idle", "cleared", "closing", "gone"} =>
          tokens = <<>> /\ \A w \in Workers : wpc[w] \in {"ready", "exited"}

\* No message is lost, doubled or overtaken.
FlowInv == accepted = ((written \o tray) \o queue["sink"]) \o queue["dispatcher"]

\* Whatever waits has somebody who will come for it, or an exception says that
\* there is no pool any longer.
Coming(k) ==
    \/ reported
    \/ k \in ToSet(tokens)
    \/ \E w \in Workers : token[w] = k /\ wpc[w] \in {"lock", "operate"}

CoverInv ==
    /\ queue["dispatcher"] # <<>> =>
          Coming("dispatcher") \/ \E u \in Users : upc[u] \in {"notify", "post"}
    /\ queue["sink"] # <<>> =>
          Coming("sink") \/ \E w \in Workers : wpc[w] \in {"notify", "post"}
    /\ tray # <<>> => \E w \in Workers : wpc[w] = "write"

LInv == TypeOK /\ TokenInv /\ UserInv /\ RefInv /\ QuietInv /\ FlowInv /\ CoverInv

USE LifecycleAssumption DEF Threads, Tokens
USE DEF managerVars, userVars, stationVars, workerVars, poolVars, GotoUser, GotoWorker, LockPool, ReleasePool, PoolAlive

-----------------------------------------------------------------------------
(* Types.                                                                  *)

\* A manager with nothing to do is well typed.
LEMMA TypeInit == Init => TypeOK
<1>1. <<>> \in Seq(Messages) /\ <<>> \in Seq(Tokens)
  BY EmptySeq
<1>2. Init => queue \in [Tokens -> Seq(Messages)]
  BY <1>1 DEF Init
<1>3. Init => /\ owner \in [Tokens -> Workers \cup {Nobody}]
              /\ token \in [Workers -> Tokens \cup {Nobody}]
              /\ msg \in [Users -> Messages \cup {Nobody}]
              /\ upc \in [Users -> {"user", "checked", "notify", "post", "closing", "done"}]
              /\ wpc \in [Workers -> {"ready", "lock", "operate", "write", "notify", "post", "exited"}]
  BY DEF Init
<1>4. Init => /\ tray \in Seq(Messages) /\ tokens \in Seq(Tokens)
              /\ accepted \in Seq(Messages) /\ written \in Seq(Messages)
  BY <1>1 DEF Init
<1>5. Init => logged \subseteq Messages /\ poolRefs \subseteq Threads
  BY DEF Init
<1>6. QED
  BY <1>2, <1>3, <1>4, <1>5 DEF Init, TypeOK

\* Every step keeps the types.
LEMMA TypeNext ==
    ASSUME TypeOK, TokenInv, UserInv, [Next]_vars
    PROVE  TypeOK'
<1>1. ASSUME NEW u \in Users, NEW m \in Messages, CallLog(u, m)
      PROVE  TypeOK'
  <2>1. overlap' \in BOOLEAN
    BY <1>1 DEF CallLog, TypeOK
  <2>2. CASE UNCHANGED <<upc, msg, overlap>>
    BY <1>1, <2>2 DEF CallLog, TypeOK
  <2>3. CASE upc' = [upc EXCEPT ![u] = "checked"] /\ msg' = [msg EXCEPT ![u] = m]
    BY <1>1, <2>1, <2>3 DEF CallLog, TypeOK
  <2>4. QED
    BY <1>1, <2>2, <2>3 DEF CallLog
<1>2. ASSUME NEW u \in Users, Enqueue(u)
      PROVE  TypeOK'
  <2>1. msg[u] \in Messages
    BY <1>2 DEF Enqueue, UserInv
  <2>0. queue["dispatcher"] \in Seq(Messages) /\ accepted \in Seq(Messages)
    BY DEF TypeOK
  <2>2. Append(queue["dispatcher"], msg[u]) \in Seq(Messages) /\ accepted' \in Seq(Messages)
    BY <1>2, <2>0, <2>1, AppendProperties DEF Enqueue
  <2>3. queue' \in [Tokens -> Seq(Messages)]
    BY <1>2, <2>2 DEF Enqueue, TypeOK
  <2>4. upc' \in [Users -> {"user", "checked", "notify", "post", "closing", "done"}]
    BY <1>2 DEF Enqueue, TypeOK
  <2>5. QED
    BY <1>2, <2>2, <2>3, <2>4 DEF Enqueue, TypeOK
<1>3. ASSUME NEW u \in Users, UserLocksPool(u)
      PROVE  TypeOK'
  <2>1. CASE poolRefs' = poolRefs \cup {u} /\ upc' = [upc EXCEPT ![u] = "post"] /\ UNCHANGED reported
    BY <1>3, <2>1 DEF UserLocksPool, TypeOK
  <2>2. CASE UNCHANGED poolRefs /\ upc' = [upc EXCEPT ![u] = "user"] /\ reported' = TRUE
    BY <1>3, <2>2 DEF UserLocksPool, TypeOK
  <2>3. QED
    BY <1>3, <2>1, <2>2 DEF UserLocksPool
<1>4. ASSUME NEW u \in Users, UserPosts(u)
      PROVE  TypeOK'
  <2>1. tokens' \in Seq(Tokens)
    BY <1>4, AppendProperties DEF UserPosts, TypeOK
  <2>2. selfJoin' \in BOOLEAN /\ closer' \in Threads \cup {Nobody}
    BY <1>4 DEF UserPosts, TypeOK
  <2>3. QED
    BY <1>4, <2>1, <2>2 DEF UserPosts, TypeOK
<1>5. ASSUME NEW u \in Users, DropLogger(u)
      PROVE  TypeOK'
  BY <1>5 DEF DropLogger, TypeOK
<1>6. ASSUME NEW w \in Workers, TakeToken(w)
      PROVE  TypeOK'
  <2>1. Head(tokens) \in Tokens /\ tokens' \in Seq(Tokens)
    BY <1>6, HeadTailProperties DEF TakeToken, TypeOK
  <2>2. QED
    BY <1>6, <2>1 DEF TakeToken, TypeOK
<1>7. ASSUME NEW w \in Workers, Lock(w)
      PROVE  TypeOK'
  BY <1>7 DEF Lock, TypeOK
<1>8. ASSUME NEW w \in Workers, Done(w)
      PROVE  /\ owner' \in [Tokens -> Workers \cup {Nobody}]
             /\ token' \in [Workers -> Tokens \cup {Nobody}]
             /\ wpc' \in [Workers -> {"ready", "lock", "operate", "write", "notify", "post", "exited"}]
  BY <1>8 DEF Done, TypeOK
<1>9. ASSUME NEW w \in Workers, Dispatch(w)
      PROVE  TypeOK'
  <2>1. queue["sink"] \o queue["dispatcher"] \in Seq(Messages) /\ <<>> \in Seq(Messages)
    BY ConcatProperties, EmptySeq DEF TypeOK
  <2>2. queue' \in [Tokens -> Seq(Messages)]
    BY <1>9, <2>1 DEF Dispatch, TypeOK
  <2>3. CASE Done(w)
    BY <1>8, <1>9, <2>2, <2>3 DEF Dispatch, TypeOK
  <2>4. CASE wpc' = [wpc EXCEPT ![w] = "notify"] /\ UNCHANGED <<owner, token>>
    BY <1>9, <2>2, <2>4 DEF Dispatch, TypeOK
  <2>5. QED
    BY <1>9, <2>3, <2>4 DEF Dispatch
<1>10. ASSUME NEW w \in Workers, WorkerLocksPool(w)
       PROVE  TypeOK'
  <2>1. CASE Done(w) /\ UNCHANGED poolRefs /\ reported' = TRUE
    BY <1>8, <1>10, <2>1 DEF WorkerLocksPool, TypeOK
  <2>2. CASE wpc' = [wpc EXCEPT ![w] = "post"] /\ UNCHANGED <<owner, token, reported>>
             /\ poolRefs' = poolRefs \cup {w}
    BY <1>10, <2>2 DEF WorkerLocksPool, TypeOK
  <2>3. QED
    BY <1>10, <2>1, <2>2 DEF WorkerLocksPool
<1>11. ASSUME NEW w \in Workers, WorkerPosts(w)
       PROVE  TypeOK'
  <2>1. tokens' \in Seq(Tokens)
    BY <1>11, AppendProperties DEF WorkerPosts, TypeOK
  <2>2. selfJoin' \in BOOLEAN /\ closer' \in Threads \cup {Nobody} /\ poolRefs' \subseteq Threads
    BY <1>11 DEF WorkerPosts, TypeOK
  <2>3. Done(w)
    BY <1>11 DEF WorkerPosts
  <2>4. QED
    BY <1>8, <1>11, <2>1, <2>2, <2>3 DEF WorkerPosts, TypeOK
<1>12. ASSUME NEW w \in Workers, StartSink(w)
       PROVE  TypeOK'
  <2>1. queue' \in [Tokens -> Seq(Messages)] /\ tray' \in Seq(Messages)
    BY <1>12, EmptySeq DEF StartSink, TypeOK
  <2>2. QED
    BY <1>12, <2>1 DEF StartSink, TypeOK
<1>13. ASSUME NEW w \in Workers, Write(w)
       PROVE  TypeOK'
  <2>1. CASE tray = <<>>
    BY <1>8, <1>13, <2>1 DEF Write, TypeOK
  <2>2. CASE tray # <<>>
    <3>0. written \in Seq(Messages) /\ tray \in Seq(Messages)
      BY DEF TypeOK
    <3>3. Head(tray) \in Messages /\ Tail(tray) \in Seq(Messages)
      BY <2>2, <3>0, HeadTailProperties
    <3>4. written' = Append(written, Head(tray)) /\ tray' = Tail(tray)
      BY <1>13, <2>2 DEF Write
    <3>1. written' \in Seq(Messages) /\ tray' \in Seq(Messages)
      BY <3>0, <3>3, <3>4, AppendProperties
    <3>2. QED
      BY <1>13, <2>2, <3>1 DEF Write, TypeOK
  <2>3. QED
    BY <2>1, <2>2
<1>14. ASSUME NEW w \in Workers, Exit(w)
       PROVE  TypeOK'
  BY <1>14 DEF Exit, TypeOK
<1>15. ASSUME BeginDestructor \/ WaitUntilIdle \/ MarkLoggers
       PROVE  TypeOK'
  BY <1>15 DEF BeginDestructor, WaitUntilIdle, MarkLoggers, TypeOK
<1>16. ASSUME ReleaseMembers
       PROVE  TypeOK'
  <2>1. selfJoin' \in BOOLEAN /\ closer' \in Threads \cup {Nobody} /\ poolRefs' \subseteq Threads
    BY <1>16 DEF ReleaseMembers, TypeOK
  <2>2. QED
    BY <1>16, <2>1 DEF ReleaseMembers, TypeOK
<1>17. ASSUME JoinWorkers
       PROVE  TypeOK'
  BY <1>17 DEF JoinWorkers, TypeOK
<1>18. ASSUME UNCHANGED vars
       PROVE  TypeOK'
  BY <1>18 DEF vars, TypeOK
<1>19. QED
  BY <1>1, <1>2, <1>3, <1>4, <1>5, <1>6, <1>7, <1>9, <1>10, <1>11, <1>12, <1>13, <1>14, <1>15,
     <1>16, <1>17, <1>18 DEF Next, UserStep, WorkerStep, DestructorStep

-----------------------------------------------------------------------------
(* Who has what.                                                           *)

\* A step of a worker that returns its token.
LEMMA DoneKeepsTokens ==
    ASSUME TypeOK, TokenInv, NEW w \in Workers, token[w] \in Tokens, wpc[w] # "lock", Done(w)
    PROVE  TokenInv'
<1>1. /\ owner' = [owner EXCEPT ![token[w]] = Nobody]
      /\ token' = [token EXCEPT ![w] = Nobody]
      /\ wpc' = [wpc EXCEPT ![w] = "ready"]
  BY DEF Done
<1>2. wpc[w] \in {"operate", "write", "notify", "post"}
  BY DEF TokenInv, TypeOK
<1>3. owner[token[w]] = w
  BY <1>2 DEF TokenInv
<1>4. QED
  BY <1>1, <1>2, <1>3 DEF TokenInv, TypeOK

\* Stations stay with the workers that operate them.
LEMMA TokenNext ==
    ASSUME TypeOK, TokenInv, [Next]_vars
    PROVE  TokenInv'
<1>1. ASSUME UNCHANGED <<owner, token, wpc>>
      PROVE  TokenInv'
  BY <1>1 DEF TokenInv
<1>2. CASE \/ \E u \in Users : UserStep(u) \/ DropLogger(u) \/ \E m \in Messages : CallLog(u, m)
           \/ BeginDestructor \/ DestructorStep \/ UNCHANGED vars
  BY <1>1, <1>2 DEF UserStep, Enqueue, UserLocksPool, UserPosts, DropLogger, CallLog,
     BeginDestructor, DestructorStep, WaitUntilIdle, MarkLoggers, ReleaseMembers, JoinWorkers, vars
<1>3. ASSUME NEW w \in Workers, TakeToken(w)
      PROVE  TokenInv'
  <2>3. tokens # <<>> /\ tokens \in Seq(Tokens)
    BY <1>3 DEF TakeToken, TypeOK
  <2>1. Head(tokens) \in Tokens
    BY <2>3, HeadTailProperties
  <2>4. PICK k \in Tokens : k = Head(tokens)
    BY <2>1
  <2>5. /\ wpc[w] = "ready" /\ wpc' = [wpc EXCEPT ![w] = "lock"]
        /\ token' = [token EXCEPT ![w] = k] /\ UNCHANGED owner
    BY <1>3, <2>4 DEF TakeToken
  <2>2. QED
    BY <2>4, <2>5 DEF TokenInv, TypeOK
<1>4. ASSUME NEW w \in Workers, Lock(w)
      PROVE  TokenInv'
  <2>3. wpc[w] = "lock" /\ token[w] \in Tokens \cup {Nobody}
    BY <1>4 DEF Lock, TypeOK
  <2>1. token[w] \in Tokens
    BY <2>3 DEF TokenInv
  <2>2. QED
    BY <1>4, <2>1 DEF Lock, TokenInv, TypeOK
<1>5. ASSUME NEW w \in Workers, Dispatch(w)
      PROVE  TokenInv'
  <2>1. CASE Done(w)
    BY <1>5, <2>1, DoneKeepsTokens DEF Dispatch
  <2>2. CASE wpc' = [wpc EXCEPT ![w] = "notify"] /\ UNCHANGED <<owner, token>>
    BY <1>5, <2>2 DEF Dispatch, TokenInv, TypeOK
  <2>3. QED
    BY <1>5, <2>1, <2>2 DEF Dispatch
<1>6. ASSUME NEW w \in Workers, WorkerLocksPool(w)
      PROVE  TokenInv'
  <2>0. token[w] = "dispatcher"
    BY <1>6 DEF WorkerLocksPool, TokenInv
  <2>1. CASE Done(w)
    BY <1>6, <2>0, <2>1, DoneKeepsTokens DEF WorkerLocksPool
  <2>2. CASE wpc' = [wpc EXCEPT ![w] = "post"] /\ UNCHANGED <<owner, token>>
    BY <1>6, <2>0, <2>2 DEF WorkerLocksPool, TokenInv, TypeOK
  <2>3. QED
    BY <1>6, <2>1, <2>2 DEF WorkerLocksPool
<1>7. ASSUME NEW w \in Workers, WorkerPosts(w)
      PROVE  TokenInv'
  BY <1>7, DoneKeepsTokens DEF WorkerPosts, TokenInv
<1>8. ASSUME NEW w \in Workers, StartSink(w)
      PROVE  TokenInv'
  BY <1>8 DEF StartSink, TokenInv, TypeOK
<1>9. ASSUME NEW w \in Workers, Write(w)
      PROVE  TokenInv'
  <2>1. CASE Done(w)
    BY <1>9, <2>1, DoneKeepsTokens DEF Write, TokenInv
  <2>2. CASE UNCHANGED <<owner, token, wpc>>
    BY <1>1, <2>2
  <2>3. QED
    BY <1>9, <2>1, <2>2 DEF Write
<1>10. ASSUME NEW w \in Workers, Exit(w)
       PROVE  TokenInv'
  BY <1>10 DEF Exit, TokenInv, TypeOK
<1>11. QED
  BY <1>2, <1>3, <1>4, <1>5, <1>6, <1>7, <1>8, <1>9, <1>10 DEF Next, WorkerStep

\* Users go on having the message they are to enqueue.
LEMMA UserNext ==
    ASSUME TypeOK, UserInv, [Next]_vars
    PROVE  UserInv'
<1>1. ASSUME UNCHANGED <<upc, msg>>
      PROVE  UserInv'
  BY <1>1 DEF UserInv
<1>2. ASSUME NEW u \in Users, NEW m \in Messages, CallLog(u, m)
      PROVE  UserInv'
  <2>1. CASE upc' = [upc EXCEPT ![u] = "checked"] /\ msg' = [msg EXCEPT ![u] = m]
    BY <2>1 DEF UserInv, TypeOK
  <2>2. QED
    BY <1>1, <1>2, <2>1 DEF CallLog
<1>3. ASSUME NEW u \in Users, NEW place, place # "checked", upc' = [upc EXCEPT ![u] = place],
             \A v \in Users \ {u} : msg'[v] = msg[v]
      PROVE  UserInv'
  BY <1>3 DEF UserInv, TypeOK
<1>4. ASSUME NEW u \in Users, Enqueue(u) \/ UserLocksPool(u) \/ UserPosts(u) \/ DropLogger(u)
      PROVE  UserInv'
  <2>1. \A v \in Users \ {u} : msg'[v] = msg[v]
    BY <1>4 DEF Enqueue, UserLocksPool, UserPosts, DropLogger, TypeOK
  <2>2. PICK place : place # "checked" /\ upc' = [upc EXCEPT ![u] = place]
    BY <1>4 DEF Enqueue, UserLocksPool, UserPosts, DropLogger
  <2>3. QED
    BY <1>3, <2>1, <2>2
<1>5. ASSUME JoinWorkers
      PROVE  UserInv'
  BY <1>1, <1>3, <1>5 DEF JoinWorkers
<1>6. CASE \/ \E w \in Workers : WorkerStep(w)
           \/ BeginDestructor \/ WaitUntilIdle \/ MarkLoggers \/ ReleaseMembers \/ UNCHANGED vars
  BY <1>1, <1>6 DEF WorkerStep, TakeToken, Lock, Dispatch, WorkerLocksPool, WorkerPosts, StartSink,
     Write, Exit, Done, BeginDestructor, WaitUntilIdle, MarkLoggers, ReleaseMembers, vars
<1>7. QED
  BY <1>2, <1>4, <1>5, <1>6 DEF Next, UserStep, DestructorStep

\* A step that does not touch the shared_ptrs to the pool, and posts nothing.
LEMMA RefFrame ==
    ASSUME RefInv, UNCHANGED <<poolRefs, closer>>,
           mpc' = mpc \/ {mpc, mpc'} \subseteq {"alive", "waiting", "idle", "cleared"}
              \/ {mpc, mpc'} \subseteq {"closing", "gone"},
           \A u \in Users : upc'[u] = "post" <=> upc[u] = "post",
           \A w \in Workers : /\ wpc'[w] = "post" <=> wpc[w] = "post"
                              /\ wpc'[w] = "exited" => wpc[w] = "exited",
           tokens = <<>> => tokens' = <<>>
    PROVE  RefInv'
BY DEF RefInv

\* The shared_ptrs to the pool are those of the manager and of calls in progress.
LEMMA RefNext ==
    ASSUME TypeOK, TokenInv, RefInv, [Next]_vars
    PROVE  RefInv'
<1>1. ASSUME NEW u \in Users,
             \/ \E m \in Messages : CallLog(u, m)
             \/ Enqueue(u) \/ DropLogger(u)
      PROVE  RefInv'
  <2>1. CASE \E m \in Messages : CallLog(u, m)
    BY <2>1, RefFrame DEF CallLog, TypeOK
  <2>2. CASE Enqueue(u)
    BY <2>2, RefFrame DEF Enqueue, TypeOK
  <2>3. CASE DropLogger(u)
    BY <2>3, RefFrame DEF DropLogger, TypeOK
  <2>4. QED
    BY <1>1, <2>1, <2>2, <2>3
<1>2. ASSUME NEW u \in Users, UserLocksPool(u)
      PROVE  RefInv'
  <2>1. CASE poolRefs # {}
    BY <1>2, <2>1 DEF UserLocksPool, RefInv, TypeOK
  <2>2. CASE poolRefs = {}
    BY <1>2, <2>2, RefFrame DEF UserLocksPool, TypeOK
  <2>3. QED
    BY <2>1, <2>2
<1>3. ASSUME NEW u \in Users, UserPosts(u)
      PROVE  RefInv'
  <2>1. u \in poolRefs /\ closer = Nobody /\ \A w \in Workers : wpc[w] # "exited"
    BY <1>3 DEF UserPosts, RefInv
  <2>2. poolRefs' = poolRefs \ {u} /\ (closer' # Nobody => poolRefs' = {})
    BY <1>3, <2>1 DEF UserPosts
  <2>3. \A v \in Users : upc'[v] = "post" <=> upc[v] = "post" /\ v # u
    BY <1>3 DEF UserPosts, TypeOK
  <2>4. UNCHANGED <<mpc, wpc>>
    BY <1>3 DEF UserPosts
  <2>5. QED
    BY <2>1, <2>2, <2>3, <2>4 DEF RefInv
<1>4. ASSUME NEW w \in Workers, TakeToken(w) \/ Lock(w) \/ StartSink(w)
      PROVE  RefInv'
  <2>1. CASE TakeToken(w)
    BY <2>1, RefFrame DEF TakeToken, TypeOK
  <2>2. CASE Lock(w)
    BY <2>2, RefFrame DEF Lock, TypeOK
  <2>3. CASE StartSink(w)
    BY <2>3, RefFrame DEF StartSink, TypeOK
  <2>4. QED
    BY <1>4, <2>1, <2>2, <2>3
<1>5. ASSUME NEW w \in Workers, Dispatch(w)
      PROVE  RefInv'
  <2>1. wpc' = [wpc EXCEPT ![w] = "ready"] \/ wpc' = [wpc EXCEPT ![w] = "notify"]
    BY <1>5 DEF Dispatch, Done
  <2>2. wpc[w] = "operate" /\ UNCHANGED <<poolRefs, closer, mpc, upc, tokens>>
    BY <1>5 DEF Dispatch
  <2>3. QED
    BY <2>1, <2>2, RefFrame DEF TypeOK
<1>6. ASSUME NEW w \in Workers, Write(w)
      PROVE  RefInv'
  <2>1. wpc' = [wpc EXCEPT ![w] = "ready"] \/ wpc' = wpc
    BY <1>6 DEF Write, Done
  <2>2. wpc[w] = "write" /\ UNCHANGED <<poolRefs, closer, mpc, upc, tokens>>
    BY <1>6 DEF Write
  <2>3. QED
    BY <2>1, <2>2, RefFrame DEF TypeOK
<1>7. ASSUME NEW w \in Workers, WorkerLocksPool(w)
      PROVE  RefInv'
  <2>1. wpc[w] = "notify" /\ UNCHANGED <<closer, mpc, upc, tokens>>
    BY <1>7 DEF WorkerLocksPool
  <2>2. CASE poolRefs # {}
    <3>1. poolRefs' = poolRefs \cup {w} /\ wpc' = [wpc EXCEPT ![w] = "post"]
      BY <1>7, <2>2 DEF WorkerLocksPool
    <3>2. QED
      BY <2>1, <2>2, <3>1 DEF RefInv, TypeOK
  <2>3. CASE poolRefs = {}
    <3>1. UNCHANGED poolRefs /\ wpc' = [wpc EXCEPT ![w] = "ready"]
      BY <1>7, <2>3 DEF WorkerLocksPool, Done
    <3>2. QED
      BY <2>1, <3>1, RefFrame DEF TypeOK
  <2>4. QED
    BY <2>2, <2>3
<1>8. ASSUME NEW w \in Workers, WorkerPosts(w)
      PROVE  RefInv'
  <2>1. w \in poolRefs /\ closer = Nobody /\ \A v \in Workers : wpc[v] # "exited"
    BY <1>8 DEF WorkerPosts, RefInv
  <2>2. poolRefs' = poolRefs \ {w} /\ (closer' # Nobody => poolRefs' = {})
    BY <1>8, <2>1 DEF WorkerPosts
  <2>3. wpc' = [wpc EXCEPT ![w] = "ready"] /\ UNCHANGED <<mpc, upc>>
    BY <1>8 DEF WorkerPosts, Done
  <2>4. QED
    BY <2>1, <2>2, <2>3 DEF RefInv, TypeOK
<1>9. ASSUME NEW w \in Workers, Exit(w)
      PROVE  RefInv'
  BY <1>9 DEF Exit, RefInv, TypeOK
<1>10. ASSUME BeginDestructor \/ WaitUntilIdle \/ MarkLoggers
       PROVE  RefInv'
  BY <1>10, RefFrame DEF BeginDestructor, WaitUntilIdle, MarkLoggers
<1>11. ASSUME ReleaseMembers
       PROVE  RefInv'
  <2>1. Manager \in poolRefs /\ closer = Nobody /\ \A v \in Workers : wpc[v] # "exited"
    BY <1>11 DEF ReleaseMembers, RefInv
  <2>2. poolRefs' = poolRefs \ {Manager} /\ (closer' # Nobody => poolRefs' = {})
    BY <1>11, <2>1 DEF ReleaseMembers
  <2>3. mpc' \in {"closing", "gone"} /\ UNCHANGED <<upc, wpc>>
    BY <1>11 DEF ReleaseMembers
  <2>4. QED
    BY <2>1, <2>2, <2>3 DEF RefInv
<1>12. ASSUME JoinWorkers
       PROVE  RefInv'
  <2>1. CASE mpc = "closing" /\ mpc' = "gone" /\ UNCHANGED upc
    BY <1>12, <2>1, RefFrame DEF JoinWorkers
  <2>2. CASE \E u \in Users : upc[u] = "closing" /\ upc' = [upc EXCEPT ![u] = "user"] /\ UNCHANGED mpc
    BY <1>12, <2>2, RefFrame DEF JoinWorkers, TypeOK
  <2>3. QED
    BY <1>12, <2>1, <2>2 DEF JoinWorkers
<1>13. ASSUME UNCHANGED vars
       PROVE  RefInv'
  BY <1>13, RefFrame DEF vars
<1>14. QED
  BY <1>1, <1>2, <1>3, <1>4, <1>5, <1>6, <1>7, <1>8, <1>9, <1>10, <1>11, <1>12, <1>13
     DEF Next, UserStep, WorkerStep, DestructorStep

-----------------------------------------------------------------------------
(* What an overlapping log() is the only reason for.                       *)

\* A log() that gets past the mark during ~manager() is remembered.
LEMMA QuietNext ==
    ASSUME TypeOK, TokenInv, RefInv, QuietInv, [Next]_vars
    PROVE  QuietInv'
<1> USE DEF InLog
<1>1. ASSUME NEW u \in Users, NEW m \in Messages, CallLog(u, m)
      PROVE  QuietInv'
  <2>1. CASE UNCHANGED <<upc, msg, overlap>>
    BY <1>1, <2>1 DEF CallLog, QuietInv
  <2>2. CASE overlap' = (overlap \/ mpc # "alive")
    BY <1>1, <2>2 DEF CallLog, QuietInv
  <2>3. QED
    BY <1>1, <2>1, <2>2 DEF CallLog
<1>2. ASSUME NEW u \in Users, Enqueue(u) \/ UserLocksPool(u) \/ UserPosts(u)
      PROVE  QuietInv'
  <2>1. InLog(u) /\ UNCHANGED <<mpc, wpc, overlap>>
    BY <1>2 DEF Enqueue, UserLocksPool, UserPosts
  <2>2. overlap \/ mpc = "alive"
    BY <2>1 DEF QuietInv
  <2>3. mpc = "alive" => ~reported' /\ ~selfJoin'
    <3>1. ASSUME mpc = "alive"
          PROVE  ~reported /\ ~selfJoin /\ Manager \in poolRefs /\ Manager # u /\ u \notin Workers
      BY <3>1 DEF QuietInv, RefInv
    <3>2. QED
      BY <1>2, <3>1 DEF Enqueue, UserLocksPool, UserPosts
  <2>4. QED
    BY <2>1, <2>2, <2>3 DEF QuietInv
<1>3. ASSUME NEW u \in Users, DropLogger(u)
      PROVE  QuietInv'
  BY <1>3 DEF DropLogger, QuietInv, TypeOK
<1>4. ASSUME NEW w \in Workers, WorkerStep(w), ~Exit(w)
      PROVE  QuietInv'
  <2>1. wpc[w] # "exited" /\ (wpc[w] = "ready" => tokens # <<>>)
    BY <1>4 DEF WorkerStep, TakeToken, Lock, Dispatch, WorkerLocksPool, WorkerPosts, StartSink, Write
  <2>2. UNCHANGED <<mpc, upc, overlap>>
    BY <1>4 DEF WorkerStep, TakeToken, Lock, Dispatch, WorkerLocksPool, WorkerPosts, StartSink, Write
  <2>3. overlap \/ mpc \in {"alive", "waiting"}
    BY <2>1 DEF QuietInv, TypeOK
  <2>4. mpc \in {"alive", "waiting"} /\ ~overlap => ~reported' /\ ~selfJoin'
    <3>1. ASSUME mpc \in {"alive", "waiting"}, ~overlap
          PROVE  ~reported /\ ~selfJoin /\ Manager \in poolRefs /\ Manager # w
      BY <3>1 DEF QuietInv, RefInv
    <3>2. QED
      BY <1>4, <3>1 DEF WorkerStep, TakeToken, Lock, Dispatch, WorkerLocksPool, WorkerPosts, StartSink, Write
  <2>5. QED
    BY <2>2, <2>3, <2>4 DEF QuietInv
<1>5. ASSUME NEW w \in Workers, Exit(w)
      PROVE  QuietInv'
  BY <1>5 DEF Exit, QuietInv, TypeOK
<1>6. ASSUME BeginDestructor
      PROVE  QuietInv'
  BY <1>6 DEF BeginDestructor, QuietInv
<1>7. ASSUME WaitUntilIdle \/ MarkLoggers
      PROVE  QuietInv'
  BY <1>7 DEF WaitUntilIdle, MarkLoggers, PoolIdle, QuietInv
<1>8. ASSUME ReleaseMembers
      PROVE  QuietInv'
  <2>1. /\ mpc = "cleared" /\ mpc' \in {"closing", "gone"} /\ ~selfJoin'
        /\ UNCHANGED <<upc, wpc, tokens, reported, overlap>>
    BY <1>8 DEF ReleaseMembers
  <2>2. QED
    BY <2>1 DEF QuietInv
<1>9. ASSUME JoinWorkers
      PROVE  QuietInv'
  <2>1. UNCHANGED <<wpc, tokens, reported, selfJoin, overlap>>
    BY <1>9 DEF JoinWorkers
  <2>2. CASE mpc = "closing" /\ mpc' = "gone" /\ UNCHANGED upc
    BY <2>1, <2>2 DEF QuietInv
  <2>3. CASE \E u \in Users : upc[u] = "closing" /\ upc' = [upc EXCEPT ![u] = "user"] /\ UNCHANGED mpc
    BY <2>1, <2>3 DEF QuietInv, TypeOK
  <2>4. QED
    BY <1>9, <2>2, <2>3 DEF JoinWorkers
<1>10. ASSUME UNCHANGED vars
       PROVE  QuietInv'
  BY <1>10 DEF vars, QuietInv
<1>11. QED
  BY <1>1, <1>2, <1>3, <1>4, <1>5, <1>6, <1>7, <1>8, <1>9, <1>10
     DEF Next, UserStep, WorkerStep, DestructorStep

-----------------------------------------------------------------------------
(* The way of the messages.                                                *)

\* A message enters the flow at its end and leaves it at its head.
LEMMA FlowNext ==
    ASSUME TypeOK, TokenInv, UserInv, CoverInv, FlowInv, [Next]_vars
    PROVE  FlowInv'
<1>0. /\ written \in Seq(Messages) /\ tray \in Seq(Messages) /\ accepted \in Seq(Messages)
      /\ queue["sink"] \in Seq(Messages) /\ queue["dispatcher"] \in Seq(Messages)
      /\ DOMAIN queue = Tokens
  BY DEF TypeOK
<1>1. ASSUME UNCHANGED <<accepted, written, tray, queue>>
      PROVE  FlowInv'
  BY <1>1 DEF FlowInv
<1>2. ASSUME NEW u \in Users, Enqueue(u)
      PROVE  FlowInv'
  <2>1. msg[u] \in Messages
    BY <1>2 DEF Enqueue, UserInv
  <2>2. accepted' = Append(accepted, msg[u]) /\ UNCHANGED <<written, tray>>
    BY <1>2 DEF Enqueue
  <2>3. queue'["sink"] = queue["sink"] /\ queue'["dispatcher"] = Append(queue["dispatcher"], msg[u])
    BY <1>0, <1>2 DEF Enqueue
  <2>4. PICK p : p \in Seq(Messages) /\ p = (written \o tray) \o queue["sink"]
    BY <1>0, ConcatProperties
  <2>5. accepted = p \o queue["dispatcher"]
    BY <2>4 DEF FlowInv
  <2>9. <<msg[u]>> \in Seq(Messages)
    BY <2>1
  <2>6. Append(accepted, msg[u]) = accepted \o <<msg[u]>>
    BY <1>0, <2>1, AppendIsConcat
  <2>10. Append(queue["dispatcher"], msg[u]) = queue["dispatcher"] \o <<msg[u]>>
    BY <1>0, <2>1, AppendIsConcat
  <2>11. (p \o queue["dispatcher"]) \o <<msg[u]>> = p \o (queue["dispatcher"] \o <<msg[u]>>)
    <3>1. queue["dispatcher"] \in Seq(Messages)
      BY <1>0
    <3>2. PICK q, e : q = queue["dispatcher"] /\ e = <<msg[u]>>
      OBVIOUS
    <3>3. p \in Seq(Messages) /\ q \in Seq(Messages) /\ e \in Seq(Messages)
      BY <2>4, <2>9, <3>1, <3>2
    <3>4. (p \o q) \o e = p \o (q \o e)
      BY <3>3, ConcatAssociative
    <3>5. QED
      BY <3>2, <3>4
  <2>7. accepted' = p \o queue'["dispatcher"]
    BY <2>2, <2>3, <2>5, <2>6, <2>10, <2>11
  <2>8. QED
    BY <2>2, <2>3, <2>4, <2>7 DEF FlowInv
<1>3. ASSUME NEW w \in Workers, Dispatch(w)
      PROVE  FlowInv'
  <2>1. /\ queue' = [queue EXCEPT !["dispatcher"] = <<>>, !["sink"] = @ \o queue["dispatcher"]]
        /\ UNCHANGED <<accepted, written, tray>>
    BY <1>3 DEF Dispatch
  <2>2. queue'["sink"] = queue["sink"] \o queue["dispatcher"] /\ queue'["dispatcher"] = <<>>
    BY <1>0, <2>1
  <2>3. PICK p : p \in Seq(Messages) /\ p = written \o tray
    BY <1>0, ConcatProperties
  <2>11. p \in Seq(Messages)
    BY <2>3
  <2>12. \A q, r \in Seq(Messages) : (p \o q) \o r = p \o (q \o r)
    BY <2>11, ConcatAssociative
  <2>4. p \o (queue["sink"] \o queue["dispatcher"]) = (p \o queue["sink"]) \o queue["dispatcher"]
    BY <1>0, <2>12
  <2>5. queue["sink"] \o queue["dispatcher"] \in Seq(Messages)
    BY <1>0, ConcatProperties
  <2>6. p \o (queue["sink"] \o queue["dispatcher"]) \in Seq(Messages)
    BY <2>3, <2>5, ConcatProperties
  <2>7. (p \o (queue["sink"] \o queue["dispatcher"])) \o <<>> = p \o (queue["sink"] \o queue["dispatcher"])
    BY <2>6, ConcatEmptySeq
  <2>8. accepted = (p \o queue["sink"]) \o queue["dispatcher"]
    BY <2>3 DEF FlowInv
  <2>9. accepted' = (p \o queue'["sink"]) \o queue'["dispatcher"]
    BY <2>1, <2>2, <2>4, <2>7, <2>8
  <2>10. QED
    BY <2>1, <2>3, <2>9 DEF FlowInv
<1>4. ASSUME NEW w \in Workers, StartSink(w)
      PROVE  FlowInv'
  <2>1. tray = <<>>
    <3>1. ASSUME NEW v \in Workers, wpc[v] = "write"
          PROVE  FALSE
      BY <1>4, <3>1 DEF StartSink, TokenInv
    <3>2. QED
      BY <3>1 DEF CoverInv
  <2>2. tray' = queue["sink"] /\ queue'["sink"] = <<>> /\ queue'["dispatcher"] = queue["dispatcher"]
        /\ UNCHANGED <<accepted, written>>
    BY <1>0, <1>4 DEF StartSink
  <2>3. written \o <<>> = written /\ written \o queue["sink"] \in Seq(Messages)
    BY <1>0, ConcatEmptySeq, ConcatProperties
  <2>4. (written \o queue["sink"]) \o <<>> = written \o queue["sink"]
    BY <2>3, ConcatEmptySeq
  <2>5. QED
    BY <2>1, <2>2, <2>3, <2>4 DEF FlowInv
<1>5. ASSUME NEW w \in Workers, Write(w)
      PROVE  FlowInv'
  <2>1. UNCHANGED <<accepted, queue>>
    BY <1>5 DEF Write
  <2>2. CASE tray = <<>>
    BY <1>1, <1>5, <2>1, <2>2 DEF Write
  <2>3. CASE tray # <<>>
    <3>1. written' = Append(written, Head(tray)) /\ tray' = Tail(tray)
      BY <1>5, <2>3 DEF Write
    <3>2. written' \o tray' = written \o tray
      BY <1>0, <2>3, <3>1, MoveHead
    <3>3. QED
      BY <2>1, <3>2 DEF FlowInv
  <2>4. QED
    BY <2>2, <2>3
<1>6. ASSUME NEW w \in Workers,
             TakeToken(w) \/ Lock(w) \/ WorkerLocksPool(w) \/ WorkerPosts(w) \/ Exit(w)
      PROVE  FlowInv'
  BY <1>1, <1>6 DEF TakeToken, Lock, WorkerLocksPool, WorkerPosts, Exit
<1>7. ASSUME NEW u \in Users,
             UserLocksPool(u) \/ UserPosts(u) \/ DropLogger(u) \/ \E m \in Messages : CallLog(u, m)
      PROVE  FlowInv'
  BY <1>1, <1>7 DEF UserLocksPool, UserPosts, DropLogger, CallLog
<1>8. CASE BeginDestructor \/ DestructorStep \/ UNCHANGED vars
  BY <1>1, <1>8 DEF BeginDestructor, DestructorStep, WaitUntilIdle, MarkLoggers, ReleaseMembers,
     JoinWorkers, vars
<1>9. QED
  BY <1>2, <1>3, <1>4, <1>5, <1>6, <1>7, <1>8 DEF Next, UserStep, WorkerStep

\* Nobody forgets a station with messages in it.
LEMMA CoverNext ==
    ASSUME TypeOK, TokenInv, RefInv, CoverInv, [Next]_vars
    PROVE  CoverInv'
<1>0. tokens \in Seq(Tokens) /\ DOMAIN queue = Tokens /\ queue \in [Tokens -> Seq(Messages)]
  BY DEF TypeOK
<1>1. ASSUME UNCHANGED <<queue, tray, token, wpc>>,
             reported => reported', ToSet(tokens) \subseteq ToSet(tokens'),
             \A u \in Users : upc[u] \in {"notify", "post"} =>
                upc'[u] \in {"notify", "post"} \/ Coming("dispatcher")'
      PROVE  CoverInv'
  <2>1. \A k \in Tokens : Coming(k) => Coming(k)'
    BY <1>1 DEF Coming
  <2>2. QED
    BY <1>1, <2>1 DEF CoverInv
<1>2. ASSUME NEW u \in Users, NEW m \in Messages, CallLog(u, m)
      PROVE  CoverInv'
  <2>1. \A v \in Users : upc[v] \in {"notify", "post"} => upc'[v] = upc[v]
    BY <1>2 DEF CallLog, TypeOK
  <2>2. QED
    BY <1>1, <1>2, <2>1 DEF CallLog
<1>3. ASSUME NEW u \in Users, Enqueue(u)
      PROVE  CoverInv'
  <2>1. /\ upc[u] = "checked" /\ UNCHANGED <<tokens, token, wpc, tray, reported>>
        /\ queue'["sink"] = queue["sink"]
        /\ upc' = [upc EXCEPT ![u] = IF queue["dispatcher"] = <<>> THEN "notify" ELSE "user"]
    BY <1>0, <1>3 DEF Enqueue
  <2>2. \A k \in Tokens : Coming(k) => Coming(k)'
    BY <2>1 DEF Coming
  <2>3. \A v \in Users : upc[v] \in {"notify", "post"} => upc'[v] = upc[v]
    BY <2>1 DEF TypeOK
  <2>4. CASE queue["dispatcher"] = <<>>
    <3>1. upc'[u] = "notify"
      BY <2>1, <2>4 DEF TypeOK
    <3>2. QED
      BY <2>1, <2>2, <3>1 DEF CoverInv
  <2>5. CASE queue["dispatcher"] # <<>>
    BY <2>1, <2>2, <2>3, <2>5 DEF CoverInv
  <2>6. QED
    BY <2>4, <2>5
<1>4. ASSUME NEW u \in Users, UserLocksPool(u)
      PROVE  CoverInv'
  <2>1. UNCHANGED <<queue, tray, token, wpc, tokens>>
    BY <1>4 DEF UserLocksPool
  <2>2. CASE upc' = [upc EXCEPT ![u] = "post"] /\ UNCHANGED reported
    BY <1>1, <2>1, <2>2 DEF TypeOK
  <2>3. CASE reported'
    BY <2>1, <2>3 DEF CoverInv, Coming
  <2>4. QED
    BY <1>4, <2>2, <2>3 DEF UserLocksPool
<1>5. ASSUME NEW u \in Users, UserPosts(u)
      PROVE  CoverInv'
  <2>1. UNCHANGED <<queue, tray, token, wpc, reported>> /\ tokens' = Append(tokens, "dispatcher")
    BY <1>5 DEF UserPosts
  <2>2. ToSet(tokens') = ToSet(tokens) \cup {"dispatcher"}
    BY <1>0, <2>1, ToSetAppend
  <2>3. Coming("dispatcher")'
    BY <2>2 DEF Coming
  <2>4. QED
    BY <1>1, <2>1, <2>2, <2>3
<1>6. ASSUME NEW u \in Users, DropLogger(u)
      PROVE  CoverInv'
  BY <1>1, <1>6 DEF DropLogger, TypeOK
<1>7. ASSUME NEW w \in Workers, TakeToken(w)
      PROVE  CoverInv'
  <2>1. /\ wpc[w] = "ready" /\ tokens # <<>>
        /\ UNCHANGED <<queue, tray, upc, reported>>
        /\ token' = [token EXCEPT ![w] = Head(tokens)] /\ tokens' = Tail(tokens)
        /\ wpc' = [wpc EXCEPT ![w] = "lock"]
    BY <1>7 DEF TakeToken
  <2>2. ToSet(tokens) = {Head(tokens)} \cup ToSet(tokens')
    BY <1>0, <2>1, ToSetTail
  <2>3. token'[w] = Head(tokens) /\ wpc'[w] = "lock"
    BY <2>1 DEF TypeOK
  <2>4. \A v \in Workers \ {w} : token'[v] = token[v] /\ wpc'[v] = wpc[v]
    BY <2>1 DEF TypeOK
  <2>5. \A k \in Tokens : Coming(k) => Coming(k)'
    BY <2>1, <2>2, <2>3, <2>4 DEF Coming
  <2>6. \A v \in Workers : wpc[v] \in {"notify", "post", "write"} => wpc'[v] = wpc[v]
    BY <2>1, <2>4
  <2>7. QED
    BY <2>1, <2>5, <2>6 DEF CoverInv
<1>8. ASSUME NEW w \in Workers, Lock(w)
      PROVE  CoverInv'
  <2>1. /\ wpc[w] = "lock" /\ wpc' = [wpc EXCEPT ![w] = "operate"]
        /\ UNCHANGED <<queue, tray, upc, reported, tokens, token>>
    BY <1>8 DEF Lock
  <2>2. wpc'[w] = "operate" /\ \A v \in Workers \ {w} : wpc'[v] = wpc[v]
    BY <2>1 DEF TypeOK
  <2>3. \A k \in Tokens : Coming(k) => Coming(k)'
    BY <2>1, <2>2 DEF Coming
  <2>4. \A v \in Workers : wpc[v] \in {"notify", "post", "write"} => wpc'[v] = wpc[v]
    BY <2>1, <2>2
  <2>5. QED
    BY <2>1, <2>3, <2>4 DEF CoverInv
<1>9. ASSUME NEW w \in Workers, Dispatch(w)
      PROVE  CoverInv'
  <2>1. /\ wpc[w] = "operate" /\ token[w] = "dispatcher"
        /\ queue'["dispatcher"] = <<>> /\ queue'["sink"] = queue["sink"] \o queue["dispatcher"]
        /\ UNCHANGED <<tray, upc, reported, tokens>>
    BY <1>0, <1>9 DEF Dispatch
  <2>2. \A v \in Workers \ {w} : token'[v] = token[v] /\ wpc'[v] = wpc[v]
    BY <1>9 DEF Dispatch, Done, TypeOK
  <2>3. Coming("sink") => Coming("sink")'
    BY <2>1, <2>2 DEF Coming
  <2>4. \A v \in Workers : wpc[v] \in {"notify", "post", "write"} => wpc'[v] = wpc[v]
    BY <2>1, <2>2
  <2>5. CASE queue["dispatcher"] # <<>> /\ queue["sink"] = <<>>
    <3>1. wpc'[w] = "notify"
      BY <1>9, <2>5 DEF Dispatch, TypeOK
    <3>2. QED
      BY <2>1, <2>4, <3>1 DEF CoverInv
  <2>6. CASE queue["dispatcher"] = <<>>
    <3>1. queue'["sink"] = queue["sink"]
      BY <1>0, <2>1, <2>6, ConcatEmptySeq
    <3>2. QED
      BY <2>1, <2>3, <2>4, <3>1 DEF CoverInv
  <2>7. CASE queue["sink"] # <<>>
    BY <2>1, <2>3, <2>4, <2>7 DEF CoverInv
  <2>8. QED
    BY <2>5, <2>6, <2>7
<1>10. ASSUME NEW w \in Workers, WorkerLocksPool(w)
       PROVE  CoverInv'
  <2>1. wpc[w] = "notify" /\ UNCHANGED <<queue, tray, upc, tokens>>
    BY <1>10 DEF WorkerLocksPool
  <2>2. CASE wpc' = [wpc EXCEPT ![w] = "post"] /\ UNCHANGED <<token, reported>>
    <3>1. wpc'[w] = "post" /\ \A v \in Workers \ {w} : wpc'[v] = wpc[v]
      BY <2>2 DEF TypeOK
    <3>2. \A k \in Tokens : Coming(k) => Coming(k)'
      BY <2>1, <2>2, <3>1 DEF Coming
    <3>3. \A v \in Workers : wpc[v] = "write" => wpc'[v] = "write"
      BY <2>1, <3>1
    <3>4. QED
      BY <2>1, <3>1, <3>2, <3>3 DEF CoverInv
  <2>3. CASE wpc' = [wpc EXCEPT ![w] = "ready"] /\ reported'
    <3>1. \A v \in Workers : wpc[v] = "write" => wpc'[v] = "write"
      BY <2>1, <2>3 DEF TypeOK
    <3>2. QED
      BY <2>1, <2>3, <3>1 DEF CoverInv, Coming
  <2>4. QED
    BY <1>10, <2>2, <2>3 DEF WorkerLocksPool, Done
<1>11. ASSUME NEW w \in Workers, WorkerPosts(w)
       PROVE  CoverInv'
  <2>1. /\ wpc[w] = "post" /\ UNCHANGED <<queue, tray, upc, reported>>
        /\ tokens' = Append(tokens, "sink")
        /\ wpc' = [wpc EXCEPT ![w] = "ready"] /\ token' = [token EXCEPT ![w] = Nobody]
    BY <1>11 DEF WorkerPosts, Done
  <2>2. ToSet(tokens') = ToSet(tokens) \cup {"sink"}
    BY <1>0, <2>1, ToSetAppend
  <2>3. \A v \in Workers \ {w} : token'[v] = token[v] /\ wpc'[v] = wpc[v]
    BY <2>1 DEF TypeOK
  <2>4. Coming("sink")' /\ (Coming("dispatcher") => Coming("dispatcher")')
    BY <2>1, <2>2, <2>3 DEF Coming
  <2>5. \A v \in Workers : wpc[v] = "write" => wpc'[v] = "write"
    BY <2>1, <2>3
  <2>6. QED
    BY <2>1, <2>4, <2>5 DEF CoverInv
<1>12. ASSUME NEW w \in Workers, StartSink(w)
       PROVE  CoverInv'
  <2>1. /\ wpc[w] = "operate" /\ token[w] = "sink" /\ wpc' = [wpc EXCEPT ![w] = "write"]
        /\ queue'["sink"] = <<>> /\ queue'["dispatcher"] = queue["dispatcher"]
        /\ UNCHANGED <<upc, reported, tokens, token>>
    BY <1>0, <1>12 DEF StartSink
  <2>2. wpc'[w] = "write" /\ \A v \in Workers \ {w} : wpc'[v] = wpc[v]
    BY <2>1 DEF TypeOK
  <2>3. Coming("dispatcher") => Coming("dispatcher")'
    BY <2>1, <2>2 DEF Coming
  <2>4. QED
    BY <2>1, <2>2, <2>3 DEF CoverInv
<1>13. ASSUME NEW w \in Workers, Write(w)
       PROVE  CoverInv'
  <2>1. wpc[w] = "write" /\ UNCHANGED <<queue, upc, reported, tokens>>
    BY <1>13 DEF Write
  <2>2. CASE tray = <<>>
    <3>1. /\ wpc' = [wpc EXCEPT ![w] = "ready"] /\ token' = [token EXCEPT ![w] = Nobody]
          /\ UNCHANGED tray
      BY <1>13, <2>2 DEF Write, Done
    <3>2. \A v \in Workers \ {w} : token'[v] = token[v] /\ wpc'[v] = wpc[v]
      BY <3>1 DEF TypeOK
    <3>3. \A k \in Tokens : Coming(k) => Coming(k)'
      BY <2>1, <3>2 DEF Coming
    <3>4. \A v \in Workers : wpc[v] \in {"notify", "post"} => wpc'[v] = wpc[v]
      BY <2>1, <3>2
    <3>5. QED
      BY <2>1, <2>2, <3>1, <3>3, <3>4 DEF CoverInv
  <2>3. CASE tray # <<>>
    <3>1. UNCHANGED <<token, wpc>>
      BY <1>13, <2>3 DEF Write
    <3>2. \A k \in Tokens : Coming(k) => Coming(k)'
      BY <2>1, <3>1 DEF Coming
    <3>3. QED
      BY <2>1, <2>3, <3>1, <3>2 DEF CoverInv
  <2>4. QED
    BY <2>2, <2>3
<1>14. ASSUME NEW w \in Workers, Exit(w)
       PROVE  CoverInv'
  <2>1. /\ wpc[w] = "ready" /\ wpc' = [wpc EXCEPT ![w] = "exited"]
        /\ UNCHANGED <<queue, tray, upc, reported, tokens, token>>
    BY <1>14 DEF Exit
  <2>2. \A v \in Workers \ {w} : wpc'[v] = wpc[v]
    BY <2>1 DEF TypeOK
  <2>3. \A k \in Tokens : Coming(k) => Coming(k)'
    BY <2>1, <2>2 DEF Coming
  <2>4. \A v \in Workers : wpc[v] \in {"notify", "post", "write"} => wpc'[v] = wpc[v]
    BY <2>1, <2>2
  <2>5. QED
    BY <2>1, <2>3, <2>4 DEF CoverInv
<1>15. ASSUME BeginDestructor \/ WaitUntilIdle \/ MarkLoggers \/ ReleaseMembers
       PROVE  CoverInv'
  BY <1>1, <1>15 DEF BeginDestructor, WaitUntilIdle, MarkLoggers, ReleaseMembers
<1>16. ASSUME JoinWorkers
       PROVE  CoverInv'
  <2>1. \A v \in Users : upc[v] \in {"notify", "post"} => upc'[v] = upc[v]
    BY <1>16 DEF JoinWorkers, TypeOK
  <2>2. QED
    BY <1>1, <1>16, <2>1 DEF JoinWorkers
<1>17. ASSUME UNCHANGED vars
       PROVE  CoverInv'
  BY <1>1, <1>17 DEF vars
<1>18. QED
  BY <1>2, <1>3, <1>4, <1>5, <1>6, <1>7, <1>8, <1>9, <1>10, <1>11, <1>12, <1>13, <1>14, <1>15,
     <1>16, <1>17 DEF Next, UserStep, WorkerStep, DestructorStep

-----------------------------------------------------------------------------
(* The invariant, and what follows from it.                                *)

\* A manager with nothing to do satisfies the invariant.
LEMMA LInvInit == Init => LInv
<1>1. SUFFICES ASSUME Init
               PROVE  LInv
  OBVIOUS
<1>2. TypeOK
  BY <1>1, TypeInit
<1>3. TokenInv /\ UserInv /\ RefInv /\ QuietInv
  BY <1>1 DEF Init, TokenInv, UserInv, RefInv, QuietInv, InLog
<1>4. queue["sink"] = <<>> /\ queue["dispatcher"] = <<>>
  BY <1>1 DEF Init
<1>5. CoverInv
  BY <1>1, <1>4 DEF Init, CoverInv
<1>6. <<>> \in Seq(Messages) /\ <<>> \o <<>> = <<>>
  BY ConcatEmptySeq, EmptySeq
<1>7. FlowInv
  BY <1>1, <1>4, <1>6 DEF Init, FlowInv
<1>8. QED
  BY <1>2, <1>3, <1>5, <1>7 DEF LInv

\* Every step keeps it.
LEMMA LInvNext == LInv /\ [Next]_vars => LInv'
BY TypeNext, TokenNext, UserNext, RefNext, QuietNext, FlowNext, CoverNext DEF LInv

\* LInv holds whatever the users and the workers do.
THEOREM LifecycleInvariant == Spec => []LInv
BY LInvInit, LInvNext, PTL DEF Spec

\* Everything on the way from log() to the module has its type.
THEOREM LifecycleTypes == Spec => []TypeOK
<1>1. LInv => TypeOK
  BY DEF LInv
<1>2. QED
  BY <1>1, LifecycleInvariant, PTL

\* A worker joins itself in ~thread_pool() (thread_pool.hpp:46) only if a log()
\* overlaps ~manager() (manager.hpp:50), for any number of users and workers.
THEOREM OnlyOverlapJoinsItself == Spec => []NoWorkerClosesPool
<1>1. LInv => NoWorkerClosesPool
  BY DEF LInv, QuietInv, NoWorkerClosesPool
<1>2. QED
  BY <1>1, LifecycleInvariant, PTL

\* What is accepted and not written is in the tray or in a queue.
LEMMA AllWritten ==
    ASSUME LInv, tray = <<>>, queue["sink"] = <<>>, queue["dispatcher"] = <<>>
    PROVE  written = accepted
<1>1. written \in Seq(Messages)
  BY DEF LInv, TypeOK
<1>2. written \o <<>> = written
  BY <1>1, ConcatEmptySeq
<1>3. QED
  BY <1>2 DEF LInv, FlowInv

\* ~manager() drops its loggers and sinks only when every accepted message is
\* written, once and in the order of acceptance, unless a log() overlaps it
\* (manager.hpp:50).
THEOREM WrittenFirst == Spec => []WrittenBeforeDestruction
<1>1. LInv => WrittenBeforeDestruction
  <2>1. SUFFICES ASSUME LInv, mpc \in {"idle", "cleared", "closing", "gone"}, ~overlap
                 PROVE  written = accepted
    BY DEF WrittenBeforeDestruction
  <2>2. /\ tokens = <<>> /\ ~reported
        /\ \A w \in Workers : wpc[w] \in {"ready", "exited"}
        /\ \A u \in Users : upc[u] \notin {"notify", "post"}
    BY <2>1 DEF LInv, QuietInv, InLog
  <2>3. ToSet(tokens) = {}
    BY <2>2, EmptySeq, ToSetOf
  <2>4. tray = <<>> /\ queue["sink"] = <<>> /\ queue["dispatcher"] = <<>>
    BY <2>1, <2>2, <2>3 DEF LInv, CoverInv, Coming
  <2>5. QED
    BY <2>1, <2>4, AllWritten
<1>2. QED
  BY <1>1, LifecycleInvariant, PTL

\* When the workers have ended, a message that is lost has been reported by an
\* exception, or will be in the log() that has not returned
\* (dispatcher.hpp:215, sink.hpp:316).
THEOREM LossesAreReported == Spec => []LossReported
<1>1. LInv => LossReported
  <2>1. SUFFICES ASSUME LInv, AllExited, ToSet(written) # ToSet(accepted), ~reported
                 PROVE  \E u \in Users : upc[u] = "notify"
    BY DEF LossReported
  <2>2. closer # Nobody /\ tokens = <<>> /\ poolRefs = {}
    BY <2>1 DEF AllExited, LInv, RefInv
  <2>3. \A u \in Users : upc[u] # "post"
    BY <2>1, <2>2 DEF LInv, RefInv
  <2>4. ToSet(tokens) = {}
    BY <2>2, EmptySeq, ToSetOf
  <2>5. written # accepted
    BY <2>1
  <2>6. tray # <<>> \/ queue["sink"] # <<>> \/ queue["dispatcher"] # <<>>
    BY <2>1, <2>5, AllWritten
  <2>7. QED
    BY <2>1, <2>3, <2>4, <2>6 DEF LInv, CoverInv, Coming, AllExited
<1>2. QED
  BY <1>1, LifecycleInvariant, PTL
=============================================================================
