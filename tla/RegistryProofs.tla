--------------------------- MODULE RegistryProofs ---------------------------
(***************************************************************************)
(* Proofs about Registry for any threads, names, loggers, sinks and        *)
(* handlers.  RInv is inductive: the types, which thread holds which       *)
(* mutex, that names and objects belong together, and what the handlers of *)
(* loggers and pool are while nothing has disturbed set_error_handler().   *)
(***************************************************************************)
EXTENDS Registry, SequenceLemmas

InHandler(t) == pc[t] \in {"handler", "lookup"}

\* A mutex is held by the thread that is inside its critical section, and by
\* no other.
OwnerInv ==
    \A t \in Threads :
        /\ owner[MapMutex] = t <=> Creating(t)
        /\ owner[HandlerMutex] = t <=> Setting(t)
        /\ owner[PoolMutex] = t <=> InHandler(t) /\ obj[t] = None
        /\ \A l \in Loggers : owner[l] = t <=> InHandler(t) /\ obj[t] = l

\* Threads are about loggers that exist; nobody else is about a logger that
\* new_logger() has not returned yet.
ObjInv ==
    \A t \in Threads :
        /\ Creating(t) \/ pc[t] = "failed" => obj[t] # None
        /\ pc[t] = "user" \/ Setting(t) => obj[t] = None
        /\ obj[t] # None => obj[t] \in Created
        /\ Creating(t) => \A u \in Threads : obj[u] = obj[t] => u = t

\* What set_error_handler() carries is a handler of the user.
FnInv == \A t \in Threads : Setting(t) => fn[t] \in Handlers \cup {None}

\* Loggers and their names.
NameInv ==
    /\ UnmarkedAreRegistered
    /\ marked \subseteq Created
    /\ \A n \in LoggerNames : loggerMap[n] # None => loggerName[loggerMap[n]] = n

\* Sinks and their names.
SinkInv ==
    /\ \A n \in SinkNames : sinkMap[n] # None => sinkName[sinkMap[n]] = n
    /\ \A s \in Sinks : sinkName[s] # None /\ s \notin retired => sinkMap[sinkName[s]] = s
    /\ \A l \in Loggers : \A s \in ToSet(links[l]) : sinkName[s] # None

\* The handlers while no change of the map overlaps set_error_handler().  A
\* logger that is being created has none before it gets the manager's.
HandlerInv ==
    /\ \A l \in Loggers \ Created : handlerOf[l] = None
    /\ ~raced =>
        /\ \A t, u \in Threads : Creating(t) => ~Setting(u)
        /\ \A t \in Threads : pc[t] = "copy" => handlerOf[obj[t]] = None
        /\ \A t \in Threads : pc[t] = "give" => fn[t] = handler
        /\ \A t \in Threads : pc[t] = "walk" =>
              /\ poolHandler = handler
              /\ \A l \in (Registered \cap visited) \ own : handlerOf[l] = handler
        /\ HandlerPropagatedUnlessRaced

RInv ==
    /\ TypeOK
    /\ OwnerInv
    /\ ObjInv
    /\ FnInv
    /\ RunsCurrentHandler
    /\ NameInv
    /\ SinkInv
    /\ HandlerInv

USE NoneAssumption, MutexAssumption DEF Mutexes, FnValues
USE DEF loggerVars, sinkVars, handlerVars, threadVars, Goto, Free, Acquire, Unlock

-----------------------------------------------------------------------------
(* Types.                                                                  *)

\* An empty manager is well typed.
LEMMA TypeInit == Init => TypeOK
<1>1. <<>> \in Seq(Sinks)
  BY EmptySeq
<1>2. ASSUME Init
      PROVE  /\ links \in [Loggers -> Seq(Sinks)]
             /\ owner \in [Mutexes -> Threads \cup {None}]
             /\ pc \in [Threads -> {"user", "copy", "give", "assign", "setPool", "walk",
                                    "failed", "handler", "lookup"}]
  BY <1>1, <1>2 DEF Init
<1>3. QED
  BY <1>2 DEF Init, TypeOK

\* What an unsynchronised reader of error_handler_ finds has the type of what
\* a thread carries.
LEMMA HandlerReadsType == TypeOK => HandlerReads \subseteq FnValues
BY DEF TypeOK, HandlerReads

\* Where a sink is found in a logger there is one of that name.
LEMMA FoundSink ==
    ASSUME TypeOK, NEW l \in Loggers, NEW n \in SinkNames
    PROVE  /\ FindSinkLocation(l, n) # 0 =>
                 /\ FindSinkLocation(l, n) \in 1 .. Len(links[l])
                 /\ sinkName[links[l][FindSinkLocation(l, n)]] = n
           /\ (\E i \in 1 .. Len(links[l]) : sinkName[links[l][i]] = n) =>
                 FindSinkLocation(l, n) # 0
<1> DEFINE I == {i \in 1 .. Len(links[l]) : sinkName[links[l][i]] = n}
<1>1. links[l] \in Seq(Sinks) /\ Len(links[l]) \in Nat
  BY LenProperties DEF TypeOK
<1>2. FindSinkLocation(l, n) = IF I # {} THEN Min(I) ELSE 0
  BY DEF FindSinkLocation, SelectInSeq
<1>3. I \in SUBSET (1 .. Len(links[l]))
  OBVIOUS
<1>4. \A i \in I : i \in 1 .. Len(links[l]) /\ sinkName[links[l][i]] = n
  OBVIOUS
<1>5. (\E i \in 1 .. Len(links[l]) : sinkName[links[l][i]] = n) => I # {}
  OBVIOUS
<1> HIDE DEF I
<1>6. I # {} => Min(I) \in I /\ Min(I) \in 1 .. Len(links[l])
  BY <1>1, <1>3, FirstPosition
<1>7. I # {} => Min(I) # 0
  BY <1>1, <1>6
<1>8. QED
  BY <1>2, <1>4, <1>5, <1>6, <1>7

\* Every step keeps the types.
LEMMA TypeNext ==
    ASSUME TypeOK, OwnerInv, ObjInv, FnInv, [Next]_vars
    PROVE  TypeOK'
<1>1. ASSUME NEW t \in Threads, NEW n \in LoggerNames, NEW l \in Loggers, RegisterLogger(t, n, l)
      PROVE  TypeOK'
  BY <1>1 DEF RegisterLogger, TypeOK
<1>2. ASSUME NEW t \in Threads, ReadHandler(t)
      PROVE  TypeOK'
  <2>1. PICK h \in FnValues : /\ fn' = [fn EXCEPT ![t] = h]
                              /\ IF h = None
                                 THEN Goto(t, "user") /\ Unlock(MapMutex) /\ obj' = [obj EXCEPT ![t] = None]
                                 ELSE Goto(t, "give") /\ UNCHANGED <<owner, obj>>
    BY <1>2, HandlerReadsType DEF ReadHandler
  <2>2. UNCHANGED <<loggerVars, sinkVars, handlerVars>>
    BY <1>2 DEF ReadHandler
  <2>3. fn' \in [Threads -> FnValues]
        /\ pc' \in [Threads -> {"user", "copy", "give", "assign", "setPool", "walk",
                                "failed", "handler", "lookup"}]
    BY <2>1 DEF TypeOK
  <2>4. owner' \in [Mutexes -> Threads \cup {None}] /\ obj' \in [Threads -> Loggers \cup {None}]
    BY <2>1 DEF TypeOK
  <2>5. QED
    BY <2>2, <2>3, <2>4 DEF TypeOK
<1>3. ASSUME NEW t \in Threads, GiveHandler(t)
      PROVE  TypeOK'
  BY <1>3 DEF GiveHandler, TypeOK, ObjInv, Creating
<1>4. ASSUME NEW n \in LoggerNames, RemoveLogger(n), pc' \in [Threads -> {"user", "copy", "give", "assign", "setPool", "walk",
                           "failed", "handler", "lookup"}]
      PROVE  TypeOK'
  BY <1>4 DEF RemoveLogger, TypeOK
<1>5. ASSUME NEW t \in Threads, NEW n \in LoggerNames, DeleteLogger(t, n)
      PROVE  TypeOK'
  BY <1>4, <1>5 DEF DeleteLogger, TypeOK
<1>6. ASSUME NEW t \in Threads, NEW h \in Handlers \cup {None}, BeginSetHandler(t, h)
      PROVE  TypeOK'
  BY <1>6 DEF BeginSetHandler, TypeOK
<1>7. ASSUME NEW t \in Threads, AssignHandler(t)
      PROVE  TypeOK'
  BY <1>7 DEF AssignHandler, TypeOK, FnInv, Setting
<1>8. ASSUME NEW t \in Threads, SetPoolHandler(t)
      PROVE  TypeOK'
  BY <1>8 DEF SetPoolHandler, TypeOK
<1>9. ASSUME NEW t \in Threads, NEW l \in Loggers, VisitLogger(t, l)
      PROVE  TypeOK'
  BY <1>9 DEF VisitLogger, TypeOK
<1>10. ASSUME NEW t \in Threads, EndWalk(t)
       PROVE  TypeOK'
  BY <1>10 DEF EndWalk, TypeOK
<1>11. ASSUME NEW t \in Threads, NEW l \in Loggers, NEW h \in Handlers \cup {None}, SetLoggerHandler(t, l, h)
       PROVE  TypeOK'
  BY <1>11 DEF SetLoggerHandler, TypeOK
<1>12. ASSUME NEW t \in Threads, NEW l \in Loggers, LogFails(t, l)
       PROVE  TypeOK'
  BY <1>12 DEF LogFails, TypeOK
<1>13. ASSUME NEW t \in Threads, CatchError(t)
       PROVE  TypeOK'
  <2>1. obj[t] \in Loggers /\ handlerOf[obj[t]] \in FnValues
    BY <1>13 DEF CatchError, TypeOK, ObjInv
  <2>2. CASE handlerOf[obj[t]] = None
    BY <1>13, <2>1, <2>2 DEF CatchError, TypeOK
  <2>3. CASE handlerOf[obj[t]] # None
    <3>1. owner' = [owner EXCEPT ![obj[t]] = t] /\ fn' = [fn EXCEPT ![t] = handlerOf[obj[t]]]
      BY <1>13, <2>3 DEF CatchError
    <3>3. owner' \in [Mutexes -> Threads \cup {None}]
      BY <3>1 DEF TypeOK
    <3>4. fn' \in [Threads -> FnValues]
      BY <2>1, <3>1 DEF TypeOK
    <3>2. QED
      BY <1>13, <2>3, <3>3, <3>4 DEF CatchError, TypeOK
  <2>4. QED
    BY <2>2, <2>3
<1>14. ASSUME NEW t \in Threads, TaskFails(t)
       PROVE  TypeOK'
  BY <1>14 DEF TaskFails, TypeOK
<1>15. ASSUME NEW t \in Threads, CallManager(t) \/ FindLogger(t)
       PROVE  TypeOK'
  BY <1>15 DEF CallManager, FindLogger, TypeOK
<1>16. ASSUME NEW t \in Threads, NEW n \in LoggerNames, DeleteInHandler(t, n)
       PROVE  TypeOK'
  BY <1>4, <1>16 DEF DeleteInHandler, TypeOK
<1>17. ASSUME NEW t \in Threads, HandlerReturns(t)
       PROVE  TypeOK'
  BY <1>17 DEF HandlerReturns, TypeOK
<1>18. ASSUME NEW n \in SinkNames, NEW s \in Sinks, NewSink(n, s)
       PROVE  TypeOK'
  BY <1>18 DEF NewSink, TypeOK
<1>19. ASSUME NEW n \in SinkNames, DeleteSink(n)
       PROVE  TypeOK'
  BY <1>19 DEF DeleteSink, TypeOK
<1>20. ASSUME NEW l \in Loggers, NEW s \in Sinks, Connect(l, s)
       PROVE  TypeOK'
  <2>1. Append(links[l], s) \in Seq(Sinks)
    BY AppendProperties DEF TypeOK
  <2>2. links' \in [Loggers -> Seq(Sinks)]
    BY <1>20, <2>1 DEF Connect, TypeOK
  <2>3. QED
    BY <1>20, <2>2 DEF Connect, TypeOK
<1>21. ASSUME NEW l \in Loggers, NEW n \in SinkNames, Disconnect(l, n)
       PROVE  TypeOK'
  <2>1. RemoveAt(links[l], FindSinkLocation(l, n)) \in Seq(Sinks)
    BY <1>21, FoundSink, RemoveAtType DEF Disconnect, TypeOK
  <2>2. links' \in [Loggers -> Seq(Sinks)]
    BY <1>21, <2>1 DEF Disconnect, TypeOK
  <2>3. QED
    BY <1>21, <2>2 DEF Disconnect, TypeOK
<1>22. ASSUME UNCHANGED vars
       PROVE  TypeOK'
  BY <1>22 DEF vars, TypeOK
<1>23. QED
  BY <1>1, <1>2, <1>3, <1>5, <1>6, <1>7, <1>8, <1>9, <1>10, <1>11, <1>12, <1>13,
     <1>14, <1>15, <1>16, <1>17, <1>18, <1>19, <1>20, <1>21, <1>22
     DEF Next, LoggerStep, SetHandlerStep, ErrorStep, SinkStep

-----------------------------------------------------------------------------
(* Threads, mutexes and the loggers they are about.                        *)

\* The steps of the sinks' side and those that leave the threads alone.
ThreadsStay == UNCHANGED threadVars

\* A step is one of the named actions.
LEMMA Steps ==
    ASSUME [Next]_vars
    PROVE  \/ \E t \in Threads :
                 \/ \E n \in LoggerNames, l \in Loggers : RegisterLogger(t, n, l)
                 \/ ReadHandler(t)
                 \/ GiveHandler(t)
                 \/ \E h \in Handlers \cup {None} : BeginSetHandler(t, h)
                 \/ AssignHandler(t)
                 \/ SetPoolHandler(t)
                 \/ EndWalk(t)
                 \/ \E l \in Loggers : LogFails(t, l)
                 \/ CatchError(t)
                 \/ TaskFails(t)
                 \/ CallManager(t)
                 \/ FindLogger(t)
                 \/ \E n \in LoggerNames : DeleteInHandler(t, n)
                 \/ HandlerReturns(t)
           \/ ThreadsStay
BY DEF Next, LoggerStep, SetHandlerStep, ErrorStep, SinkStep, ThreadsStay, vars, DeleteLogger,
       RemoveLogger, VisitLogger, SetLoggerHandler, NewSink, DeleteSink, Connect, Disconnect

\* Each mutex stays with the thread inside its critical section.
LEMMA OwnerNext ==
    ASSUME TypeOK, OwnerInv, ObjInv, [Next]_vars
    PROVE  OwnerInv'
<1> USE DEF OwnerInv, InHandler, Creating, Setting
<1>1. ASSUME NEW t \in Threads, NEW n \in LoggerNames, NEW l \in Loggers, RegisterLogger(t, n, l)
      PROVE  OwnerInv'
  BY <1>1 DEF RegisterLogger, TypeOK, ObjInv
<1>2. ASSUME NEW t \in Threads, ReadHandler(t)
      PROVE  OwnerInv'
  <2>1. CASE pc' = [pc EXCEPT ![t] = "user"] /\ owner' = [owner EXCEPT ![MapMutex] = None]
             /\ obj' = [obj EXCEPT ![t] = None]
    BY <1>2, <2>1 DEF ReadHandler, TypeOK, ObjInv
  <2>2. CASE pc' = [pc EXCEPT ![t] = "give"] /\ UNCHANGED <<owner, obj>>
    BY <1>2, <2>2 DEF ReadHandler, TypeOK, ObjInv
  <2>3. QED
    BY <1>2, <2>1, <2>2 DEF ReadHandler
<1>3. ASSUME NEW t \in Threads, GiveHandler(t)
      PROVE  OwnerInv'
  BY <1>3 DEF GiveHandler, TypeOK, ObjInv
<1>4. ASSUME NEW t \in Threads, NEW h \in Handlers \cup {None}, BeginSetHandler(t, h)
      PROVE  OwnerInv'
  BY <1>4 DEF BeginSetHandler, TypeOK, ObjInv
<1>5. ASSUME NEW t \in Threads, AssignHandler(t) \/ SetPoolHandler(t)
      PROVE  OwnerInv'
  BY <1>5 DEF AssignHandler, SetPoolHandler, TypeOK, ObjInv
<1>6. ASSUME NEW t \in Threads, EndWalk(t)
      PROVE  OwnerInv'
  BY <1>6 DEF EndWalk, TypeOK, ObjInv
<1>7. ASSUME NEW t \in Threads, NEW l \in Loggers, LogFails(t, l)
      PROVE  OwnerInv'
  BY <1>7 DEF LogFails, TypeOK, ObjInv
<1>8. ASSUME NEW t \in Threads, CatchError(t)
      PROVE  OwnerInv'
  <2>1. obj[t] \in Loggers
    BY <1>8 DEF CatchError, TypeOK, ObjInv
  <2>2. CASE handlerOf[obj[t]] = None
    BY <1>8, <2>1, <2>2 DEF CatchError, TypeOK
  <2>3. CASE handlerOf[obj[t]] # None
    <3>1. /\ pc[t] = "failed" /\ pc' = [pc EXCEPT ![t] = "handler"]
          /\ owner[obj[t]] = None /\ owner' = [owner EXCEPT ![obj[t]] = t]
          /\ obj' = obj
      BY <1>8, <2>3 DEF CatchError
    <3>2. QED
      BY <2>1, <3>1 DEF TypeOK
  <2>4. QED
    BY <2>2, <2>3
<1>9. ASSUME NEW t \in Threads, TaskFails(t)
      PROVE  OwnerInv'
  BY <1>9 DEF TaskFails, TypeOK, ObjInv
<1>10. ASSUME NEW t \in Threads, CallManager(t) \/ FindLogger(t)
       PROVE  OwnerInv'
  BY <1>10 DEF CallManager, FindLogger, TypeOK
<1>11. ASSUME NEW t \in Threads, NEW n \in LoggerNames, DeleteInHandler(t, n)
       PROVE  OwnerInv'
  BY <1>11 DEF DeleteInHandler, RemoveLogger, TypeOK
<1>12. ASSUME NEW t \in Threads, HandlerReturns(t)
       PROVE  OwnerInv'
  <2>1. CASE obj[t] = None
    BY <1>12, <2>1 DEF HandlerReturns, TypeOK
  <2>2. CASE obj[t] \in Loggers
    BY <1>12, <2>2 DEF HandlerReturns, TypeOK
  <2>3. QED
    BY <2>1, <2>2 DEF TypeOK
<1>13. ASSUME ThreadsStay
       PROVE  OwnerInv'
  BY <1>13 DEF ThreadsStay
<1>14. QED
  BY <1>1, <1>2, <1>3, <1>4, <1>5, <1>6, <1>7, <1>8, <1>9, <1>10, <1>11, <1>12, <1>13, Steps

\* Loggers are created, never uncreated, and only by RegisterLogger.
LEMMA CreatedGrows ==
    ASSUME TypeOK, [Next]_vars
    PROVE  Created \subseteq Created'
<1>1. ASSUME NEW t \in Threads, NEW n \in LoggerNames, NEW l \in Loggers, RegisterLogger(t, n, l)
      PROVE  Created \subseteq Created'
  BY <1>1 DEF RegisterLogger, Created, TypeOK
<1>2. ASSUME UNCHANGED loggerName
      PROVE  Created \subseteq Created'
  BY <1>2 DEF Created
<1>3. CASE \E t \in Threads : SetHandlerStep(t) \/ ErrorStep(t)
  BY <1>2, <1>3 DEF SetHandlerStep, ErrorStep, BeginSetHandler, AssignHandler, SetPoolHandler,
     VisitLogger, EndWalk, SetLoggerHandler, LogFails, CatchError, TaskFails, CallManager,
     FindLogger, DeleteInHandler, RemoveLogger, HandlerReturns
<1>4. CASE SinkStep \/ UNCHANGED vars
  BY <1>2, <1>4 DEF SinkStep, NewSink, DeleteSink, Connect, Disconnect, vars
<1>5. CASE \E t \in Threads : LoggerStep(t)
  BY <1>1, <1>2, <1>5 DEF LoggerStep, ReadHandler, GiveHandler, DeleteLogger, RemoveLogger
<1>6. QED
  BY <1>3, <1>4, <1>5 DEF Next

\* Threads go on to be about loggers that exist, and leave those alone that
\* another thread is creating.
LEMMA ObjNext ==
    ASSUME TypeOK, OwnerInv, ObjInv, [Next]_vars
    PROVE  ObjInv'
<1>0. Created \subseteq Created'
  BY CreatedGrows
<1> USE DEF ObjInv, Creating, Setting
<1>1. ASSUME NEW t \in Threads, NEW n \in LoggerNames, NEW l \in Loggers, RegisterLogger(t, n, l)
      PROVE  ObjInv'
  <2>1. l \in Created' /\ l # None /\ l \notin Created
    BY <1>1 DEF RegisterLogger, Created, TypeOK
  <2>2. obj' = [obj EXCEPT ![t] = l] /\ pc' = [pc EXCEPT ![t] = "copy"]
    BY <1>1 DEF RegisterLogger
  <2>3. QED
    BY <1>0, <2>1, <2>2 DEF TypeOK
<1>2. ASSUME NEW t \in Threads, ReadHandler(t)
      PROVE  ObjInv'
  <2>1. CASE pc' = [pc EXCEPT ![t] = "user"] /\ obj' = [obj EXCEPT ![t] = None]
    BY <1>0, <1>2, <2>1 DEF ReadHandler, TypeOK
  <2>2. CASE pc' = [pc EXCEPT ![t] = "give"] /\ UNCHANGED obj
    BY <1>0, <1>2, <2>2 DEF ReadHandler, TypeOK
  <2>3. QED
    BY <1>2, <2>1, <2>2 DEF ReadHandler
<1>3. ASSUME NEW t \in Threads, GiveHandler(t)
      PROVE  ObjInv'
  BY <1>0, <1>3 DEF GiveHandler, TypeOK
<1>4. ASSUME NEW t \in Threads, NEW h \in Handlers \cup {None}, BeginSetHandler(t, h)
      PROVE  ObjInv'
  BY <1>0, <1>4 DEF BeginSetHandler, TypeOK
<1>5. ASSUME NEW t \in Threads, AssignHandler(t) \/ SetPoolHandler(t)
      PROVE  ObjInv'
  BY <1>0, <1>5 DEF AssignHandler, SetPoolHandler, TypeOK
<1>6. ASSUME NEW t \in Threads, EndWalk(t)
      PROVE  ObjInv'
  BY <1>0, <1>6 DEF EndWalk, TypeOK
<1>7. ASSUME NEW t \in Threads, NEW l \in Loggers, LogFails(t, l)
      PROVE  ObjInv'
  <2>1. l \in Created /\ l # None /\ \A u \in Threads : Creating(u) => obj[u] # l
    BY <1>7 DEF LogFails, Reachable
  <2>2. obj' = [obj EXCEPT ![t] = l] /\ pc' = [pc EXCEPT ![t] = "failed"]
    BY <1>7 DEF LogFails
  <2>3. QED
    BY <1>0, <2>1, <2>2 DEF TypeOK
<1>8. ASSUME NEW t \in Threads, CatchError(t)
      PROVE  ObjInv'
  <2>1. CASE handlerOf[obj[t]] = None
    BY <1>0, <1>8, <2>1 DEF CatchError, TypeOK
  <2>2. CASE handlerOf[obj[t]] # None
    BY <1>0, <1>8, <2>2 DEF CatchError, TypeOK
  <2>3. QED
    BY <2>1, <2>2
<1>9. ASSUME NEW t \in Threads, TaskFails(t)
      PROVE  ObjInv'
  BY <1>0, <1>9 DEF TaskFails, TypeOK
<1>10. ASSUME NEW t \in Threads, CallManager(t) \/ FindLogger(t)
       PROVE  ObjInv'
  BY <1>0, <1>10 DEF CallManager, FindLogger, TypeOK
<1>11. ASSUME NEW t \in Threads, NEW n \in LoggerNames, DeleteInHandler(t, n)
       PROVE  ObjInv'
  BY <1>0, <1>11 DEF DeleteInHandler, RemoveLogger, TypeOK
<1>12. ASSUME NEW t \in Threads, HandlerReturns(t)
       PROVE  ObjInv'
  BY <1>0, <1>12 DEF HandlerReturns, TypeOK
<1>13. ASSUME ThreadsStay
       PROVE  ObjInv'
  BY <1>0, <1>13 DEF ThreadsStay
<1>14. QED
  BY <1>1, <1>2, <1>3, <1>4, <1>5, <1>6, <1>7, <1>8, <1>9, <1>10, <1>11, <1>12, <1>13, Steps

\* set_error_handler() keeps the handler it was called with.
LEMMA FnNext ==
    ASSUME TypeOK, FnInv, [Next]_vars
    PROVE  FnInv'
<1> USE DEF FnInv, Setting
<1>1. ASSUME NEW t \in Threads, ReadHandler(t)
      PROVE  FnInv'
  <2>1. PICK h : fn' = [fn EXCEPT ![t] = h]
    BY <1>1 DEF ReadHandler
  <2>2. pc' = [pc EXCEPT ![t] = "user"] \/ pc' = [pc EXCEPT ![t] = "give"]
    BY <1>1 DEF ReadHandler
  <2>3. QED
    BY <2>1, <2>2 DEF TypeOK
<1>2. ASSUME NEW t \in Threads, CatchError(t)
      PROVE  FnInv'
  <2>1. CASE handlerOf[obj[t]] = None
    BY <1>2, <2>1 DEF CatchError, TypeOK
  <2>2. CASE handlerOf[obj[t]] # None
    BY <1>2, <2>2 DEF CatchError, TypeOK
  <2>3. QED
    BY <2>1, <2>2
<1>3. ASSUME NEW t \in Threads, NEW h \in Handlers \cup {None}, BeginSetHandler(t, h)
      PROVE  FnInv'
  BY <1>3 DEF BeginSetHandler, TypeOK
<1>4. ASSUME NEW t \in Threads,
             \/ \E n \in LoggerNames, l \in Loggers : RegisterLogger(t, n, l)
             \/ GiveHandler(t) \/ AssignHandler(t) \/ SetPoolHandler(t) \/ EndWalk(t)
             \/ \E l \in Loggers : LogFails(t, l)
             \/ TaskFails(t) \/ CallManager(t) \/ FindLogger(t)
             \/ \E n \in LoggerNames : DeleteInHandler(t, n)
             \/ HandlerReturns(t)
      PROVE  FnInv'
  BY <1>4 DEF RegisterLogger, GiveHandler, AssignHandler, SetPoolHandler, EndWalk, LogFails,
     TaskFails, CallManager, FindLogger, DeleteInHandler, RemoveLogger, HandlerReturns, TypeOK
<1>5. ASSUME ThreadsStay
      PROVE  FnInv'
  BY <1>5 DEF ThreadsStay
<1>6. QED
  BY <1>1, <1>2, <1>3, <1>4, <1>5, Steps

\* The handler that runs is still the one of its logger, or of the pool: who
\* replaces it must have the mutex it runs under.
LEMMA RunsNext ==
    ASSUME TypeOK, OwnerInv, ObjInv, RunsCurrentHandler, [Next]_vars
    PROVE  RunsCurrentHandler'
<1> USE DEF RunsCurrentHandler
<1>0. ASSUME UNCHANGED <<poolHandler, handlerOf>>,
             NEW t \in Threads,
             \A u \in Threads \ {t} : pc'[u] = pc[u] /\ obj'[u] = obj[u] /\ fn'[u] = fn[u],
             pc'[t] \in {"handler", "lookup"} =>
                fn'[t] = IF obj'[t] = None THEN poolHandler ELSE handlerOf[obj'[t]]
      PROVE  RunsCurrentHandler'
  BY <1>0
<1>1. ASSUME NEW t \in Threads,
             \/ \E n \in LoggerNames, l \in Loggers : RegisterLogger(t, n, l)
             \/ \E h \in Handlers \cup {None} : BeginSetHandler(t, h)
             \/ AssignHandler(t) \/ EndWalk(t)
             \/ \E l \in Loggers : LogFails(t, l)
      PROVE  RunsCurrentHandler'
  <2>1. CASE \E n \in LoggerNames, l \in Loggers : RegisterLogger(t, n, l)
    BY <1>0, <2>1 DEF RegisterLogger, TypeOK
  <2>2. CASE \E h \in Handlers \cup {None} : BeginSetHandler(t, h)
    BY <1>0, <2>2 DEF BeginSetHandler, TypeOK
  <2>3. CASE AssignHandler(t) \/ EndWalk(t)
    BY <1>0, <2>3 DEF AssignHandler, EndWalk, TypeOK
  <2>4. CASE \E l \in Loggers : LogFails(t, l)
    BY <1>0, <2>4 DEF LogFails, TypeOK
  <2>5. QED
    BY <1>1, <2>1, <2>2, <2>3, <2>4
<1>2. ASSUME NEW t \in Threads, ReadHandler(t)
      PROVE  RunsCurrentHandler'
  <2>1. PICK h : fn' = [fn EXCEPT ![t] = h]
    BY <1>2 DEF ReadHandler
  <2>2. pc' = [pc EXCEPT ![t] = "user"] \/ pc' = [pc EXCEPT ![t] = "give"]
    BY <1>2 DEF ReadHandler
  <2>3. UNCHANGED <<poolHandler, handlerOf>> /\ \A u \in Threads \ {t} : obj'[u] = obj[u]
    BY <1>2 DEF ReadHandler, TypeOK
  <2>4. QED
    BY <1>0, <2>1, <2>2, <2>3 DEF TypeOK
<1>3. ASSUME NEW l \in Loggers, Free(l), NEW h, handlerOf' = [handlerOf EXCEPT ![l] = h], UNCHANGED poolHandler,
             NEW t \in Threads, pc'[t] \notin {"handler", "lookup"},
             \A u \in Threads \ {t} : pc'[u] = pc[u] /\ obj'[u] = obj[u] /\ fn'[u] = fn[u]
      PROVE  RunsCurrentHandler'
  <2>1. ASSUME NEW u \in Threads, pc'[u] \in {"handler", "lookup"}
        PROVE  obj[u] # l /\ u # t /\ InHandler(u)
    BY <1>3, <2>1 DEF OwnerInv, InHandler, TypeOK
  <2>2. QED
    BY <1>3, <2>1 DEF TypeOK
<1>4. ASSUME NEW t \in Threads, GiveHandler(t)
      PROVE  RunsCurrentHandler'
  <2>1. obj[t] \in Loggers
    BY <1>4 DEF GiveHandler, ObjInv, Creating, TypeOK
  <2>2. QED
    BY <1>3, <1>4, <2>1 DEF GiveHandler, TypeOK
<1>5. ASSUME NEW t \in Threads, NEW l \in Loggers,
             VisitLogger(t, l) \/ \E h \in Handlers \cup {None} : SetLoggerHandler(t, l, h)
      PROVE  RunsCurrentHandler'
  BY <1>3, <1>5 DEF VisitLogger, SetLoggerHandler, TypeOK
<1>6. ASSUME NEW t \in Threads, SetPoolHandler(t)
      PROVE  RunsCurrentHandler'
  <2>1. ASSUME NEW u \in Threads, pc'[u] \in {"handler", "lookup"}
        PROVE  pc[u] \in {"handler", "lookup"} /\ obj[u] # None
    BY <1>6, <2>1 DEF SetPoolHandler, OwnerInv, InHandler, TypeOK
  <2>2. QED
    BY <1>6, <2>1 DEF SetPoolHandler
<1>7. ASSUME NEW t \in Threads, CatchError(t)
      PROVE  RunsCurrentHandler'
  <2>1. obj[t] \in Loggers
    BY <1>7 DEF CatchError, ObjInv, TypeOK
  <2>2. CASE handlerOf[obj[t]] = None
    BY <1>0, <1>7, <2>2 DEF CatchError, TypeOK
  <2>3. CASE handlerOf[obj[t]] # None
    BY <1>0, <1>7, <2>1, <2>3 DEF CatchError, TypeOK
  <2>4. QED
    BY <2>2, <2>3
<1>8. ASSUME NEW t \in Threads, TaskFails(t)
      PROVE  RunsCurrentHandler'
  <2>1. obj[t] = None
    BY <1>8 DEF TaskFails, ObjInv
  <2>2. QED
    BY <1>0, <1>8, <2>1 DEF TaskFails, TypeOK
<1>9. ASSUME NEW t \in Threads,
             CallManager(t) \/ FindLogger(t) \/ \E n \in LoggerNames : DeleteInHandler(t, n)
      PROVE  RunsCurrentHandler'
  BY <1>0, <1>9 DEF CallManager, FindLogger, DeleteInHandler, RemoveLogger, TypeOK
<1>10. ASSUME NEW t \in Threads, HandlerReturns(t)
       PROVE  RunsCurrentHandler'
  BY <1>0, <1>10 DEF HandlerReturns, TypeOK
<1>11. ASSUME UNCHANGED <<poolHandler, handlerOf, pc, obj, fn>>
       PROVE  RunsCurrentHandler'
  BY <1>11
<1>12. CASE SinkStep \/ (\E t \in Threads, n \in LoggerNames : DeleteLogger(t, n)) \/ UNCHANGED vars
  BY <1>11, <1>12 DEF SinkStep, NewSink, DeleteSink, Connect, Disconnect, DeleteLogger, RemoveLogger, vars
<1>13. QED
  BY <1>1, <1>2, <1>4, <1>5, <1>6, <1>7, <1>8, <1>9, <1>10, <1>12
     DEF Next, LoggerStep, SetHandlerStep, ErrorStep

-----------------------------------------------------------------------------
(* The tables.                                                             *)

\* The loggers' table changes when a logger is registered or removed.
LEMMA LoggerTableSteps ==
    ASSUME [Next]_vars
    PROVE  \/ \E t \in Threads, n \in LoggerNames, l \in Loggers : RegisterLogger(t, n, l)
           \/ \E n \in LoggerNames : RemoveLogger(n)
           \/ UNCHANGED loggerVars
<1>1. ASSUME NEW t \in Threads, LoggerStep(t)
      PROVE  \/ \E n \in LoggerNames, l \in Loggers : RegisterLogger(t, n, l)
             \/ \E n \in LoggerNames : RemoveLogger(n)
             \/ UNCHANGED loggerVars
  BY <1>1 DEF LoggerStep, ReadHandler, GiveHandler, DeleteLogger
<1>2. ASSUME NEW t \in Threads, SetHandlerStep(t)
      PROVE  UNCHANGED loggerVars
  BY <1>2 DEF SetHandlerStep, BeginSetHandler, AssignHandler, SetPoolHandler, VisitLogger, EndWalk,
              SetLoggerHandler
<1>3. ASSUME NEW t \in Threads, ErrorStep(t)
      PROVE  (\E n \in LoggerNames : RemoveLogger(n)) \/ UNCHANGED loggerVars
  BY <1>3 DEF ErrorStep, LogFails, CatchError, TaskFails, CallManager, FindLogger, DeleteInHandler,
              HandlerReturns
<1>4. CASE SinkStep
  BY <1>4 DEF SinkStep, NewSink, DeleteSink, Connect, Disconnect
<1>5. CASE UNCHANGED vars
  BY <1>5 DEF vars
<1>6. QED
  BY <1>1, <1>2, <1>3, <1>4, <1>5 DEF Next

\* The sinks' tables change in the steps of the sinks only.
LEMMA SinkTableSteps ==
    ASSUME [Next]_vars
    PROVE  SinkStep \/ UNCHANGED sinkVars
<1>1. CASE \E t \in Threads : LoggerStep(t)
  BY <1>1 DEF LoggerStep, RegisterLogger, ReadHandler, GiveHandler, DeleteLogger, RemoveLogger
<1>2. CASE \E t \in Threads : SetHandlerStep(t)
  BY <1>2 DEF SetHandlerStep, BeginSetHandler, AssignHandler, SetPoolHandler, VisitLogger, EndWalk,
     SetLoggerHandler
<1>3. CASE \E t \in Threads : ErrorStep(t)
  BY <1>3 DEF ErrorStep, LogFails, CatchError, TaskFails, CallManager, FindLogger, DeleteInHandler,
     RemoveLogger, HandlerReturns
<1>4. CASE UNCHANGED vars
  BY <1>4 DEF vars
<1>5. QED
  BY <1>1, <1>2, <1>3, <1>4 DEF Next

\* Loggers and names go on belonging together.
LEMMA NameNext ==
    ASSUME TypeOK, NameInv, [Next]_vars
    PROVE  NameInv'
<1> USE DEF NameInv, UnmarkedAreRegistered, Created
<1>1. ASSUME NEW t \in Threads, NEW n \in LoggerNames, NEW l \in Loggers, RegisterLogger(t, n, l)
      PROVE  NameInv'
  BY <1>1 DEF RegisterLogger, TypeOK
<1>2. ASSUME NEW n \in LoggerNames, RemoveLogger(n)
      PROVE  NameInv'
  BY <1>2 DEF RemoveLogger, TypeOK
<1>3. ASSUME UNCHANGED loggerVars
      PROVE  NameInv'
  BY <1>3
<1>4. QED
  BY <1>1, <1>2, <1>3, LoggerTableSteps

\* Sinks and names go on belonging together, and loggers have sinks that exist.
LEMMA SinkNext ==
    ASSUME TypeOK, SinkInv, [Next]_vars
    PROVE  SinkInv'
<1> USE DEF SinkInv
<1>1. ASSUME NEW n \in SinkNames, NEW s \in Sinks, NewSink(n, s)
      PROVE  SinkInv'
  BY <1>1 DEF NewSink, TypeOK
<1>2. ASSUME NEW n \in SinkNames, DeleteSink(n)
      PROVE  SinkInv'
  BY <1>2 DEF DeleteSink, TypeOK
<1>3. ASSUME NEW l \in Loggers, NEW s \in Sinks, Connect(l, s)
      PROVE  SinkInv'
  <2>1. \A m \in Loggers : links'[m] = links[m] \/ (m = l /\ links'[m] = Append(links[m], s))
    BY <1>3 DEF Connect, TypeOK
  <2>2. ToSet(Append(links[l], s)) = ToSet(links[l]) \cup {s}
    BY ToSetAppend DEF TypeOK
  <2>3. QED
    BY <1>3, <2>1, <2>2 DEF Connect
<1>4. ASSUME NEW l \in Loggers, NEW n \in SinkNames, Disconnect(l, n)
      PROVE  SinkInv'
  <2>1. \A m \in Loggers : links'[m] = links[m] \/ (m = l /\ links'[m] = RemoveAt(links[m], FindSinkLocation(m, n)))
    BY <1>4 DEF Disconnect, TypeOK
  <2>2. ToSet(RemoveAt(links[l], FindSinkLocation(l, n))) \subseteq ToSet(links[l])
    BY <1>4, FoundSink, RemoveAtElements DEF Disconnect, TypeOK
  <2>3. QED
    BY <1>4, <2>1, <2>2 DEF Disconnect
<1>5. ASSUME UNCHANGED sinkVars
      PROVE  SinkInv'
  BY <1>5
<1>6. QED
  BY <1>1, <1>2, <1>3, <1>4, <1>5, SinkTableSteps DEF SinkStep

-----------------------------------------------------------------------------
(* The handlers.                                                           *)

\* Only one thread is inside set_error_handler().
LEMMA OneSetter ==
    ASSUME OwnerInv, NEW t \in Threads, NEW u \in Threads, Setting(t), Setting(u)
    PROVE  t = u
BY DEF OwnerInv

\* What happens to the threads that neither create a logger nor set a handler
\* does not matter.
LEMMA HandlerFrame ==
    ASSUME HandlerInv, TypeOK,
           UNCHANGED <<handler, poolHandler, handlerOf, own, visited, raced, loggerVars>>,
           \A t \in Threads : \/ pc'[t] = pc[t] /\ obj'[t] = obj[t] /\ fn'[t] = fn[t]
                              \/ ~Creating(t) /\ ~Creating(t)' /\ ~Setting(t) /\ ~Setting(t)'
    PROVE  HandlerInv'
<1>1. \A t \in Threads : Creating(t)' = Creating(t) /\ Setting(t)' = Setting(t)
  BY DEF Creating, Setting
<1>2. Created' = Created /\ Registered' = Registered /\ Walking' = Walking
  BY <1>1 DEF Created, Registered, Walking
<1>3. \A t \in Threads : Creating(t) => pc'[t] = pc[t] /\ obj'[t] = obj[t] /\ fn'[t] = fn[t]
  OBVIOUS
<1>4. \A l \in Loggers : Reachable(l)' = Reachable(l)
  BY <1>1, <1>2, <1>3 DEF Reachable
<1>5. \A l \in Loggers \ Created' : handlerOf'[l] = None
  BY <1>2 DEF HandlerInv
<1>6. Registered \subseteq Loggers
  BY DEF Registered, TypeOK
<1>7. HandlerPropagatedUnlessRaced <=> HandlerPropagatedUnlessRaced'
  BY <1>2, <1>4, <1>6 DEF HandlerPropagatedUnlessRaced
<1>8. \A t \in Threads : /\ pc'[t] = "walk" => pc[t] = "walk"
                         /\ pc'[t] = "copy" => pc[t] = "copy" /\ obj'[t] = obj[t]
                         /\ pc'[t] = "give" => pc[t] = "give" /\ fn'[t] = fn[t]
  BY <1>1, <1>3 DEF Creating, Setting
<1>9. QED
  BY <1>1, <1>2, <1>5, <1>7, <1>8 DEF HandlerInv

\* A new logger has no handler yet; that the map has changed during a
\* set_error_handler() is remembered.
LEMMA RegisterKeepsHandlers ==
    ASSUME TypeOK, HandlerInv, NEW t \in Threads, NEW n \in LoggerNames, NEW l \in Loggers,
           RegisterLogger(t, n, l)
    PROVE  HandlerInv'
<1>1. /\ pc[t] = "user" /\ pc' = [pc EXCEPT ![t] = "copy"]
      /\ obj' = [obj EXCEPT ![t] = l] /\ l \notin Created
      /\ raced' = (raced \/ Walking)
      /\ UNCHANGED <<handler, poolHandler, handlerOf, own, visited, fn>>
  BY DEF RegisterLogger
<1>2. Created' = Created \cup {l} /\ Registered' \subseteq Registered \cup {l} /\ Registered \subseteq Loggers
  BY DEF RegisterLogger, Created, Registered, TypeOK
<1>3. \A u \in Threads : Setting(u)' = Setting(u) /\ (Creating(u)' <=> Creating(u) \/ u = t)
  BY <1>1 DEF Setting, Creating, TypeOK
<1>4. \A k \in Loggers \ Created' : handlerOf'[k] = None
  BY <1>1, <1>2 DEF HandlerInv
<1>5. ASSUME ~raced'
      PROVE  /\ ~raced /\ \A u \in Threads : ~Setting(u)
             /\ \A u \in Threads : pc'[u] = "copy" => handlerOf'[obj'[u]] = None
             /\ \A u \in Threads : pc'[u] = "give" => fn'[u] = handler'
             /\ \A u \in Threads : pc'[u] # "walk"
  BY <1>1, <1>5 DEF Walking, Setting, HandlerInv, TypeOK
<1>6. \A k \in Loggers : Reachable(k)' => Reachable(k)
  <2>1. SUFFICES ASSUME NEW k \in Loggers, Reachable(k)'
                 PROVE  Reachable(k)
    OBVIOUS
  <2>2. k # l /\ k \in Created
    BY <1>1, <1>2, <1>3, <2>1 DEF Reachable, TypeOK
  <2>3. \A u \in Threads : Creating(u) => obj[u] # k
    BY <1>1, <1>3, <2>1, <2>2 DEF Reachable, Creating, TypeOK
  <2>4. QED
    BY <2>2, <2>3 DEF Reachable
<1>7. HandlerPropagatedUnlessRaced'
  <2>1. SUFFICES ASSUME ~raced', ~Walking'
                 PROVE  /\ poolHandler' = handler'
                        /\ \A k \in Registered' \ own' : Reachable(k)' => handlerOf'[k] = handler'
    BY DEF HandlerPropagatedUnlessRaced
  <2>2. ~raced /\ ~Walking
    BY <1>5, <2>1 DEF Walking
  <2>3. l \notin Created' \/ ~Reachable(l)'
    BY <1>1, <1>3 DEF Reachable, TypeOK
  <2>4. QED
    BY <1>1, <1>2, <1>6, <2>2, <2>3 DEF HandlerInv, HandlerPropagatedUnlessRaced, Reachable
<1>8. QED
  BY <1>3, <1>4, <1>5, <1>7 DEF HandlerInv

\* Without a set_error_handler() at the same time a new logger gets the
\* manager's handler.
LEMMA CopyKeepsHandlers ==
    ASSUME TypeOK, ObjInv, HandlerInv, NEW t \in Threads, ReadHandler(t) \/ GiveHandler(t)
    PROVE  HandlerInv'
<1>0. obj[t] \in Loggers /\ obj[t] \in Created /\ Creating(t)
  BY DEF ObjInv, TypeOK, Creating, ReadHandler, GiveHandler
<1>1. /\ Created' = Created /\ Registered' = Registered
      /\ UNCHANGED <<handler, poolHandler, own, visited, raced>>
      /\ \A k \in Loggers : k # obj[t] => handlerOf'[k] = handlerOf[k]
  BY <1>0 DEF ReadHandler, GiveHandler, Created, Registered, TypeOK
<1>2. \A u \in Threads \ {t} : pc'[u] = pc[u] /\ obj'[u] = obj[u] /\ fn'[u] = fn[u]
  <2>1. CASE ReadHandler(t)
    <3>1. PICK h : fn' = [fn EXCEPT ![t] = h]
      BY <2>1 DEF ReadHandler
    <3>2. QED
      BY <2>1, <3>1 DEF ReadHandler, TypeOK
  <2>2. CASE GiveHandler(t)
    BY <2>2 DEF GiveHandler, TypeOK
  <2>3. QED
    BY <2>1, <2>2
<1>3. ~Setting(t)' /\ ~Setting(t) /\ pc'[t] # "copy"
  BY DEF ReadHandler, GiveHandler, Setting, TypeOK
<1>4. \A u \in Threads : Setting(u)' = Setting(u) /\ (Creating(u)' => Creating(u))
  BY <1>0, <1>2, <1>3 DEF Setting, Creating
<1>5. \A k \in Loggers \ Created' : handlerOf'[k] = None
  BY <1>0, <1>1 DEF HandlerInv
<1>6. ASSUME ~raced'
      PROVE  /\ ~raced /\ \A u \in Threads : ~Setting(u)
             /\ HandlerReads = {handler}
  <2>1. ~raced /\ \A u \in Threads : ~Setting(u)
    BY <1>0, <1>1, <1>6 DEF HandlerInv
  <2>2. HandlerReads = {handler}
    BY <2>1 DEF HandlerReads, Setting
  <2>3. QED
    BY <2>1, <2>2
<1>7. ASSUME ~raced'
      PROVE  pc'[t] = "give" => fn'[t] = handler'
  BY <1>0, <1>1, <1>6, <1>7 DEF ReadHandler, GiveHandler, TypeOK
<1>8. ASSUME ~raced', pc'[t] = "user"
      PROVE  handlerOf'[obj[t]] = handler
  <2>1. CASE ReadHandler(t)
    BY <1>6, <1>8, <2>1 DEF ReadHandler, HandlerInv, TypeOK
  <2>2. CASE GiveHandler(t)
    BY <1>0, <1>1, <1>8, <2>2 DEF GiveHandler, HandlerInv, TypeOK
  <2>3. QED
    BY <2>1, <2>2
<1>9. ASSUME ~raced', NEW u \in Threads
      PROVE  /\ pc'[u] = "copy" => handlerOf'[obj'[u]] = None
             /\ pc'[u] = "give" => fn'[u] = handler'
             /\ pc'[u] # "walk"
  <2>1. ~Setting(u)'
    BY <1>4, <1>6, <1>9
  <2>2. CASE u = t
    BY <1>3, <1>7, <1>9, <2>1, <2>2 DEF Setting
  <2>3. CASE u # t
    <3>1. pc'[u] = "copy" => obj[u] # obj[t] /\ obj[u] \in Loggers
      BY <1>0, <1>2, <2>3 DEF ObjInv, Creating, TypeOK
    <3>2. QED
      BY <1>1, <1>2, <1>9, <2>1, <2>3, <3>1 DEF HandlerInv, Setting
  <2>4. QED
    BY <2>2, <2>3
<1>10. pc'[t] = "user" \/ (pc'[t] = "give" /\ obj'[t] = obj[t])
  <2>1. \/ pc' = [pc EXCEPT ![t] = "user"]
        \/ pc' = [pc EXCEPT ![t] = "give"] /\ obj' = obj
    BY DEF ReadHandler, GiveHandler
  <2>2. DOMAIN pc = Threads
    BY DEF TypeOK
  <2>3. CASE pc' = [pc EXCEPT ![t] = "user"]
    BY <2>2, <2>3
  <2>4. CASE pc' = [pc EXCEPT ![t] = "give"] /\ obj' = obj
    BY <2>2, <2>4
  <2>5. QED
    BY <2>1, <2>3, <2>4
<1>11. \A k \in Loggers : Reachable(k)' => Reachable(k) \/ (k = obj[t] /\ pc'[t] = "user")
  <2>1. SUFFICES ASSUME NEW k \in Loggers, Reachable(k)', ~ (k = obj[t] /\ pc'[t] = "user")
                 PROVE  Reachable(k)
    OBVIOUS
  <2>2. k # obj[t]
    BY <1>10, <2>1 DEF Reachable, Creating
  <2>3. \A u \in Threads : Creating(u) => obj[u] # k
    BY <1>2, <2>1, <2>2 DEF Reachable, Creating
  <2>4. QED
    BY <1>1, <2>1, <2>3 DEF Reachable
<1>12. HandlerPropagatedUnlessRaced'
  <2>1. SUFFICES ASSUME ~raced', ~Walking'
                 PROVE  /\ poolHandler' = handler'
                        /\ \A k \in Registered' \ own' : Reachable(k)' => handlerOf'[k] = handler'
    BY DEF HandlerPropagatedUnlessRaced
  <2>2. ~raced /\ ~Walking
    BY <1>1, <1>4, <2>1 DEF Walking
  <2>3. Registered \subseteq Loggers
    BY DEF Registered, TypeOK
  <2>4. poolHandler = handler /\ \A k \in Registered \ own : Reachable(k) => handlerOf[k] = handler
    BY <2>2 DEF HandlerInv, HandlerPropagatedUnlessRaced
  <2>5. ASSUME NEW k \in Registered' \ own', Reachable(k)'
        PROVE  handlerOf'[k] = handler'
    <3>1. k \in Registered \ own /\ k \in Loggers
      BY <1>1, <2>3, <2>5
    <3>2. CASE k = obj[t]
      <4>1. pc'[t] = "user"
        BY <1>10, <2>5, <3>2 DEF Reachable, Creating
      <4>2. QED
        BY <1>1, <1>8, <2>1, <3>2, <4>1
    <3>3. CASE k # obj[t]
      BY <1>1, <1>11, <2>4, <2>5, <3>1, <3>3
    <3>4. QED
      BY <3>2, <3>3
  <2>6. QED
    BY <1>1, <2>4, <2>5
<1>13. QED
  BY <1>4, <1>5, <1>6, <1>9, <1>12 DEF HandlerInv

\* Without a logger being created at the same time every step of
\* set_error_handler() brings the handlers closer to the manager's.
LEMMA SetKeepsHandlers ==
    ASSUME TypeOK, OwnerInv, NameInv, HandlerInv, NEW t \in Threads,
           \/ \E h \in Handlers \cup {None} : BeginSetHandler(t, h)
           \/ AssignHandler(t) \/ SetPoolHandler(t)
           \/ \E l \in Loggers : VisitLogger(t, l)
           \/ EndWalk(t)
    PROVE  HandlerInv'
<1>0. /\ Created' = Created /\ Registered' = Registered /\ Registered \subseteq Created
      /\ Registered \subseteq Loggers
  <2>1. UNCHANGED loggerVars
    BY DEF BeginSetHandler, AssignHandler, SetPoolHandler, VisitLogger, EndWalk
  <2>2. Registered \subseteq Created
    BY DEF NameInv, Registered, Created, TypeOK
  <2>3. QED
    BY <2>1, <2>2 DEF Created, Registered, TypeOK
<1>1. ASSUME NEW h \in Handlers \cup {None}, BeginSetHandler(t, h)
      PROVE  HandlerInv'
  <2>1. \A u \in Threads : ~Setting(u)
    BY <1>1 DEF BeginSetHandler, OwnerInv
  <2>2. /\ Walking' /\ \A u \in Threads : Creating(u)' = Creating(u) /\ pc'[u] # "walk"
    BY <1>1, <2>1 DEF BeginSetHandler, Walking, Setting, Creating, TypeOK
  <2>3. \A k \in Loggers \ Created' : handlerOf'[k] = None
    BY <1>0, <1>1 DEF BeginSetHandler, HandlerInv
  <2>4. ~raced' => \A u \in Threads : ~Creating(u)'
    BY <1>1, <2>2 DEF BeginSetHandler
  <2>5. QED
    BY <2>2, <2>3, <2>4 DEF HandlerInv, Creating, HandlerPropagatedUnlessRaced
<1>2. ASSUME AssignHandler(t) \/ SetPoolHandler(t)
      PROVE  HandlerInv'
  <2>1. /\ Walking' /\ Setting(t) /\ raced' = raced
        /\ \A u \in Threads : Creating(u)' = Creating(u) /\ Setting(u)' = Setting(u)
    BY <1>2 DEF AssignHandler, SetPoolHandler, Walking, Setting, Creating, TypeOK
  <2>2. \A k \in Loggers \ Created' : handlerOf'[k] = None
    BY <1>0, <1>2 DEF AssignHandler, SetPoolHandler, HandlerInv
  <2>3. ~raced => \A u \in Threads : ~Creating(u)
    BY <2>1 DEF HandlerInv
  <2>4. ASSUME NEW u \in Threads, pc'[u] = "walk"
        PROVE  poolHandler' = handler' /\ visited' = {}
    <3>1. Setting(u)'
      BY <2>4 DEF Setting
    <3>2. u = t
      BY <2>1, <3>1, OneSetter
    <3>3. QED
      BY <1>2, <2>4, <3>2 DEF AssignHandler, SetPoolHandler, TypeOK
  <2>5. QED
    BY <2>1, <2>2, <2>3, <2>4 DEF HandlerInv, Creating, HandlerPropagatedUnlessRaced
<1>3. ASSUME NEW l \in Loggers, VisitLogger(t, l)
      PROVE  HandlerInv'
  <2>1. /\ UNCHANGED <<pc, obj, fn, handler, poolHandler, raced>>
        /\ l \in Registered /\ pc[t] = "walk"
        /\ handlerOf' = [handlerOf EXCEPT ![l] = handler]
        /\ own' = own \ {l} /\ visited' = visited \cup {l}
    BY <1>3 DEF VisitLogger
  <2>2. Walking' /\ Setting(t)
    BY <2>1 DEF Walking, Setting
  <2>3. \A k \in Loggers \ Created' : handlerOf'[k] = None
    BY <1>0, <2>1 DEF HandlerInv, TypeOK
  <2>4. ~raced => \A u \in Threads : ~Creating(u)
    BY <2>2 DEF HandlerInv
  <2>5. ~raced => \A k \in (Registered \cap visited') \ own' : handlerOf'[k] = handler
    BY <1>0, <2>1 DEF HandlerInv, TypeOK
  <2>6. ~raced => poolHandler = handler
    BY <2>1 DEF HandlerInv
  <2>7. QED
    BY <1>0, <2>1, <2>2, <2>3, <2>4, <2>5, <2>6 DEF HandlerInv, Creating, HandlerPropagatedUnlessRaced
<1>4. ASSUME EndWalk(t)
      PROVE  HandlerInv'
  <2>1. /\ pc[t] = "walk" /\ pc' = [pc EXCEPT ![t] = "user"]
        /\ raced \/ Registered \subseteq visited
        /\ UNCHANGED <<obj, handler, poolHandler, handlerOf, own, visited, raced>>
    BY <1>4 DEF EndWalk
  <2>2. \A u \in Threads : ~Setting(u)'
    BY <2>1, OneSetter DEF Setting, TypeOK
  <2>3. \A k \in Loggers \ Created' : handlerOf'[k] = None
    BY <1>0, <2>1 DEF HandlerInv
  <2>4. ~raced => \A u \in Threads : ~Creating(u)'
    BY <2>1 DEF HandlerInv, Setting, Creating, TypeOK
  <2>5. ~raced => poolHandler = handler /\ \A k \in Registered \ own : handlerOf[k] = handler
    BY <2>1 DEF HandlerInv
  <2>6. QED
    BY <1>0, <2>1, <2>2, <2>3, <2>4, <2>5 DEF HandlerInv, Creating, Setting, HandlerPropagatedUnlessRaced
<1>5. QED
  BY <1>1, <1>2, <1>3, <1>4

\* Removing a logger takes it out of what is to have the handler.
LEMMA RemoveKeepsHandlers ==
    ASSUME TypeOK, HandlerInv, NEW n \in LoggerNames, RemoveLogger(n), NEW t \in Threads,
           ~Creating(t), ~Creating(t)', ~Setting(t), ~Setting(t)',
           \A u \in Threads \ {t} : pc'[u] = pc[u]
    PROVE  HandlerInv'
<1>1. UNCHANGED <<obj, fn, loggerName, handler, poolHandler, handlerOf, own, visited>> /\ raced' = (raced \/ Walking)
  BY DEF RemoveLogger
<1>2. Created' = Created /\ Registered' \subseteq Registered /\ Registered \subseteq Loggers
  BY DEF RemoveLogger, Created, Registered, TypeOK
<1>3. \A u \in Threads : Creating(u)' = Creating(u) /\ Setting(u)' = Setting(u)
  BY DEF Creating, Setting
<1>4. \A u \in Threads : Creating(u) => pc'[u] = pc[u]
  OBVIOUS
<1>5. \A k \in Loggers : Reachable(k)' = Reachable(k)
  BY <1>1, <1>2, <1>3 DEF Reachable
<1>6. \A k \in Loggers \ Created' : handlerOf'[k] = None
  BY <1>1, <1>2 DEF HandlerInv
<1>7. ~raced' => ~raced /\ ~Walking
  BY <1>1
<1>8. HandlerPropagatedUnlessRaced'
  BY <1>1, <1>2, <1>5, <1>7 DEF HandlerInv, HandlerPropagatedUnlessRaced
<1>9. \A u \in Threads : /\ pc'[u] = "copy" => pc[u] = "copy"
                         /\ pc'[u] = "give" => pc[u] = "give"
                         /\ pc'[u] = "walk" => Setting(u)
  BY <1>3, <1>4 DEF Creating, Setting
<1>10. QED
  BY <1>1, <1>3, <1>6, <1>7, <1>8, <1>9 DEF HandlerInv, Walking

\* Every step keeps the handlers as they should be.
LEMMA HandlerNext ==
    ASSUME TypeOK, OwnerInv, ObjInv, NameInv, HandlerInv, [Next]_vars
    PROVE  HandlerInv'
<1>1. ASSUME NEW t \in Threads, LoggerStep(t)
      PROVE  HandlerInv'
  <2>1. ASSUME NEW n \in LoggerNames, DeleteLogger(t, n)
        PROVE  HandlerInv'
    BY <2>1, RemoveKeepsHandlers DEF DeleteLogger, Creating, Setting
  <2>2. QED
    BY <1>1, <2>1, RegisterKeepsHandlers, CopyKeepsHandlers DEF LoggerStep
<1>2. ASSUME NEW t \in Threads, NEW l \in Loggers, NEW h \in Handlers \cup {None}, SetLoggerHandler(t, l, h)
      PROVE  HandlerInv'
  <2>1. /\ Reachable(l) /\ UNCHANGED <<handler, poolHandler, visited, raced, threadVars, loggerVars>>
        /\ handlerOf' = [handlerOf EXCEPT ![l] = h] /\ own' = own \cup {l}
    BY <1>2 DEF SetLoggerHandler
  <2>2. /\ Created' = Created /\ Registered' = Registered /\ Walking' = Walking
        /\ \A k \in Loggers : Reachable(k)' = Reachable(k)
    BY <2>1 DEF Created, Registered, Walking, Setting, Reachable, Creating
  <2>3. \A k \in Loggers : k # l => handlerOf'[k] = handlerOf[k]
    BY <2>1 DEF TypeOK
  <2>4. \A k \in Loggers \ Created' : handlerOf'[k] = None
    BY <2>1, <2>2, <2>3 DEF HandlerInv, Reachable
  <2>5. \A u \in Threads : pc[u] = "copy" => obj[u] \in Loggers \ {l}
    BY <2>1 DEF Reachable, Creating, ObjInv, TypeOK
  <2>6. Registered \subseteq Loggers
    BY DEF Registered, TypeOK
  <2>7. HandlerPropagatedUnlessRaced'
    BY <2>1, <2>2, <2>3, <2>6 DEF HandlerInv, HandlerPropagatedUnlessRaced
  <2>8. QED
    BY <2>1, <2>2, <2>3, <2>4, <2>5, <2>6, <2>7 DEF HandlerInv, Creating, Setting
<1>3. ASSUME NEW t \in Threads, SetHandlerStep(t)
      PROVE  HandlerInv'
  BY <1>2, <1>3, SetKeepsHandlers DEF SetHandlerStep
<1>4. ASSUME NEW t \in Threads, ErrorStep(t)
      PROVE  HandlerInv'
  <2>1. ASSUME NEW n \in LoggerNames, DeleteInHandler(t, n)
        PROVE  HandlerInv'
    BY <2>1, RemoveKeepsHandlers DEF DeleteInHandler, Creating, Setting, TypeOK
  <2>2. CASE \E l \in Loggers : LogFails(t, l)
    BY <2>2, HandlerFrame DEF LogFails, Creating, Setting, TypeOK
  <2>3. CASE CatchError(t)
    <3>1. CASE handlerOf[obj[t]] = None
      BY <2>3, <3>1, HandlerFrame DEF CatchError, Creating, Setting, TypeOK
    <3>2. CASE handlerOf[obj[t]] # None
      BY <2>3, <3>2, HandlerFrame DEF CatchError, Creating, Setting, TypeOK
    <3>3. QED
      BY <3>1, <3>2
  <2>4. CASE TaskFails(t)
    BY <2>4, HandlerFrame DEF TaskFails, Creating, Setting, TypeOK
  <2>5. CASE CallManager(t) \/ FindLogger(t)
    BY <2>5, HandlerFrame DEF CallManager, FindLogger, Creating, Setting, TypeOK
  <2>6. CASE HandlerReturns(t)
    BY <2>6, HandlerFrame DEF HandlerReturns, Creating, Setting, TypeOK
  <2>7. QED
    BY <1>4, <2>1, <2>2, <2>3, <2>4, <2>5, <2>6 DEF ErrorStep
<1>5. CASE SinkStep \/ UNCHANGED vars
  <2>1. UNCHANGED <<handler, poolHandler, handlerOf, own, visited, raced, loggerVars, threadVars>>
    BY <1>5 DEF SinkStep, NewSink, DeleteSink, Connect, Disconnect, vars
  <2>2. QED
    BY <2>1, HandlerFrame
<1>6. QED
  BY <1>1, <1>3, <1>4, <1>5 DEF Next

-----------------------------------------------------------------------------
(* The invariant, and what follows from it.                                *)

\* An empty manager satisfies the invariant.
LEMMA RInvInit == Init => RInv
<1>1. SUFFICES ASSUME Init
               PROVE  RInv
  OBVIOUS
<1>2. /\ \A t \in Threads : pc[t] = "user" /\ obj[t] = None
      /\ \A l \in Loggers : loggerName[l] = None /\ handlerOf[l] = None
      /\ \A n \in LoggerNames : loggerMap[n] = None
      /\ marked = {} /\ Created = {} /\ Registered = {}
      /\ handler = None /\ poolHandler = None
  BY <1>1 DEF Init, Created, Registered
<1>3. OwnerInv
  BY <1>1, <1>2 DEF Init, OwnerInv, Creating, Setting, InHandler
<1>4. ObjInv /\ FnInv /\ RunsCurrentHandler
  BY <1>2 DEF ObjInv, FnInv, RunsCurrentHandler, Creating, Setting
<1>5. NameInv
  BY <1>2 DEF NameInv, UnmarkedAreRegistered
<1>6. SinkInv
  <2>1. \A l \in Loggers : links[l] = <<>> /\ ToSet(<<>>) = {}
    BY <1>1, EmptySeq, ToSetOf DEF Init
  <2>2. QED
    BY <1>1, <2>1 DEF Init, SinkInv
<1>7. HandlerInv
  BY <1>2 DEF HandlerInv, HandlerPropagatedUnlessRaced, Creating, Setting
<1>8. QED
  BY <1>1, <1>3, <1>4, <1>5, <1>6, <1>7, TypeInit DEF RInv

\* Every step keeps it.
LEMMA RInvNext == RInv /\ [Next]_vars => RInv'
BY TypeNext, OwnerNext, ObjNext, FnNext, RunsNext, NameNext, SinkNext, HandlerNext DEF RInv

\* RInv holds whatever the threads do.
THEOREM RegistryInvariant == Spec => []RInv
BY RInvInit, RInvNext, PTL DEF Spec

\* The tables, the handlers and the mutexes have their types: above all
\* new_logger() and the walk of set_error_handler() are always about a logger
\* when they give it its handler (manager.hpp:80, manager.hpp:414).
THEOREM RegistryTypes == Spec => []TypeOK
<1>1. RInv => TypeOK
  BY DEF RInv
<1>2. QED
  BY <1>1, RegistryInvariant, PTL

\* A logger can log exactly as long as the manager has it under its name,
\* whatever the handlers delete in between (manager.hpp:80, manager.hpp:131).
THEOREM NamesUnique == Spec => []UnmarkedAreRegistered
<1>1. RInv => UnmarkedAreRegistered
  BY DEF RInv, NameInv
<1>2. QED
  BY <1>1, RegistryInvariant, PTL

\* set_error_handler() reaches the pool and every logger without a handler of
\* its own, if no logger is registered or deleted meanwhile (manager.hpp:414):
\* the proviso is what the missing lock of logger_map_ costs, and no more.
THEOREM HandlersPropagated == Spec => []HandlerPropagatedUnlessRaced
<1>1. RInv => HandlerPropagatedUnlessRaced
  <2>1. HandlerInv /\ ~raced => HandlerPropagatedUnlessRaced
    BY DEF HandlerInv
  <2>2. QED
    BY <2>1 DEF RInv, HandlerPropagatedUnlessRaced
<1>2. QED
  BY <1>1, RegistryInvariant, PTL

\* While a handler runs in log() or in a worker it is the one that its logger
\* or the pool has: nobody replaces it under its feet (logger.hpp:173,
\* thread_pool.hpp:181).
THEOREM RunningHandlersStay == Spec => []RunsCurrentHandler
<1>1. RInv => RunsCurrentHandler
  BY DEF RInv
<1>2. QED
  BY <1>1, RegistryInvariant, PTL

\* A thread inside new_logger() waits for nobody: its logger is not known to
\* any other thread yet.
LEMMA CreatorsWaitForNobody ==
    ASSUME RInv, NEW t \in Threads, Creating(t), NEW u \in Threads
    PROVE  ~WaitsFor(t, u)
<1>1. CASE pc[t] = "copy"
  BY <1>1 DEF WaitsFor, Wanted
<1>2. CASE pc[t] = "give"
  <2>1. Wanted(t) = {obj[t]} /\ obj[t] \in Loggers
    BY <1>2 DEF Wanted, RInv, ObjInv, TypeOK
  <2>2. ASSUME owner[obj[t]] = u
        PROVE  FALSE
    BY <1>2, <2>1, <2>2 DEF RInv, OwnerInv, ObjInv, Creating, InHandler
  <2>3. QED
    BY <2>1, <2>2 DEF WaitsFor
<1>3. QED
  BY <1>1, <1>2 DEF Creating

\* A thread that runs a handler waits at most for one inside new_logger().
LEMMA HandlersWaitForCreators ==
    ASSUME RInv, NEW t \in Threads, InHandler(t), NEW u \in Threads, WaitsFor(t, u)
    PROVE  Creating(u)
BY DEF InHandler, WaitsFor, Wanted, RInv, OwnerInv

\* Any other thread waits at most for one that runs a handler.
LEMMA OthersWaitForHandlers ==
    ASSUME RInv, NEW t \in Threads, ~Creating(t), ~InHandler(t), NEW u \in Threads, WaitsFor(t, u)
    PROVE  InHandler(u)
<1>1. CASE pc[t] = "setPool"
  BY <1>1 DEF WaitsFor, Wanted, RInv, OwnerInv
<1>2. CASE pc[t] = "walk"
  <2>1. Wanted(t) \subseteq Loggers
    BY <1>2 DEF Wanted, RInv, TypeOK, Registered
  <2>2. QED
    BY <2>1 DEF WaitsFor, RInv, OwnerInv
<1>3. CASE pc[t] = "failed"
  <2>1. Wanted(t) \subseteq Loggers
    BY <1>3 DEF Wanted, RInv, ObjInv, TypeOK
  <2>2. QED
    BY <2>1 DEF WaitsFor, RInv, OwnerInv
<1>4. CASE pc[t] \in {"user", "assign"}
  BY <1>4 DEF WaitsFor, Wanted
<1>5. QED
  BY <1>1, <1>2, <1>3, <1>4 DEF RInv, TypeOK, Creating, InHandler

\* Nobody waits in a circle, for any number of threads and loggers: the walk
\* and a failed log() wait for handlers, a handler waits for new_logger(), and
\* new_logger() for nobody (manager.hpp:80, manager.hpp:414, logger.hpp:173,
\* thread_pool.hpp:181).
THEOREM NobodyWaitsInACircle == Spec => []NoCircularWait
<1>1. RInv => NoCircularWait
  <2>1. SUFFICES ASSUME RInv, NEW S \in SUBSET Threads, S # {}
                 PROVE  \E t \in S : \A u \in S : ~WaitsFor(t, u)
    BY DEF NoCircularWait
  <2>2. CASE \E t \in S : Creating(t)
    BY <2>1, <2>2, CreatorsWaitForNobody
  <2>3. CASE (\A t \in S : ~Creating(t)) /\ \E t \in S : InHandler(t)
    BY <2>1, <2>3, HandlersWaitForCreators
  <2>4. CASE (\A t \in S : ~Creating(t)) /\ \A t \in S : ~InHandler(t)
    BY <2>1, <2>4, OthersWaitForHandlers
  <2>5. QED
    BY <2>2, <2>3, <2>4
<1>2. QED
  BY <1>1, RegistryInvariant, PTL

\* A logger finds the manager's sink of a name, unless it still has a deleted
\* one of that name (logger.hpp:116, manager.hpp:254, manager.hpp:300).
THEOREM SinksAreFound == Spec => []FindsTheManagersSink
<1>1. RInv => FindsTheManagersSink
  <2>1. SUFFICES ASSUME RInv, NEW l \in Loggers, NEW n \in SinkNames,
                        sinkMap[n] \in ToSet(links[l]),
                        ~ \E s \in ToSet(links[l]) \cap retired : sinkName[s] = n
                 PROVE  links[l][FindSinkLocation(l, n)] = sinkMap[n]
    BY DEF FindsTheManagersSink
  <2>2. TypeOK /\ links[l] \in Seq(Sinks)
    BY <2>1 DEF RInv, TypeOK
  <2>3. ToSet(links[l]) = {links[l][i] : i \in 1 .. Len(links[l])} /\ ToSet(links[l]) \subseteq Sinks
    BY <2>2, ToSetOf
  <2>4. sinkMap[n] # None /\ sinkName[sinkMap[n]] = n
    BY <2>1, <2>3 DEF RInv, SinkInv
  <2>5. \E i \in 1 .. Len(links[l]) : sinkName[links[l][i]] = n
    BY <2>1, <2>3, <2>4
  <2>6. /\ FindSinkLocation(l, n) \in 1 .. Len(links[l])
        /\ sinkName[links[l][FindSinkLocation(l, n)]] = n
    BY <2>2, <2>5, FoundSink
  <2>7. links[l][FindSinkLocation(l, n)] \in ToSet(links[l]) \ retired
    BY <2>1, <2>3, <2>6
  <2>8. PICK s \in Sinks : s = links[l][FindSinkLocation(l, n)]
    BY <2>3, <2>7
  <2>9. s \notin retired /\ sinkName[s] = n /\ n # None
    BY <2>6, <2>7, <2>8
  <2>10. sinkMap[sinkName[s]] = s
    BY <2>1, <2>9 DEF RInv, SinkInv
  <2>11. QED
    BY <2>8, <2>9, <2>10
<1>2. QED
  BY <1>1, RegistryInvariant, PTL
=============================================================================
