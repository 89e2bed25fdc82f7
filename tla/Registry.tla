------------------------------ MODULE Registry ------------------------------
(***************************************************************************)
(* The manager's tables of loggers and sinks, and the error handlers it    *)
(* copies into its loggers and its thread pool.  The tables are locked one *)
(* by one, every logger and the pool guard their own copy of the handler,  *)
(* and the handler runs under that guard.                                  *)
(*                                                                         *)
(* set_error_handler() walks through logger_map_ under error_handler_mutex_*)
(* only; new_logger() reads error_handler_ under logger_map_mutex_ only.   *)
(* What either finds when they overlap is chosen freely among what an      *)
(* unordered_map and a std::function may show to an unsynchronised reader. *)
(***************************************************************************)
EXTENDS Naturals, FiniteSets, SequencesExt

CONSTANTS
    Threads,        \* user threads and workers that report a failed task
    LoggerNames, SinkNames,
    Loggers, Sinks, \* the objects that may ever be created
    MaxObjects,     \* bound: how many loggers and sinks are created
    Handlers,       \* the error handlers the user installs
    Torn,           \* what a read of error_handler_ during its assignment may give
    None,           \* an empty std::function, a missing entry, an unlocked mutex
    MapMutex, HandlerMutex, PoolMutex

\* A logger stands for its own error_handler_mutex_ as well.
Mutexes == {MapMutex, HandlerMutex, PoolMutex} \cup Loggers

ASSUME NoneAssumption ==
    None \notin Threads \cup LoggerNames \cup SinkNames \cup Loggers \cup Sinks \cup Handlers \cup {Torn}
ASSUME BoundAssumption == MaxObjects \in Nat
ASSUME MutexAssumption ==
    /\ MapMutex # HandlerMutex /\ MapMutex # PoolMutex /\ HandlerMutex # PoolMutex
    /\ {MapMutex, HandlerMutex, PoolMutex} \cap Loggers = {}

VARIABLES
    loggerMap,      \* logger_map_: the logger registered under each name
    loggerName,     \* name_ of each logger, None before it is created
    marked,         \* the loggers with mark_as_destroy_ set
    links,          \* sinks_ of each logger
    sinkMap,        \* sink_map_: the sink registered under each name
    sinkName,       \* name_ of each sink, None before it is created
    retired,        \* history: the sinks the manager has deleted
    handler,        \* error_handler_ of the manager
    poolHandler,    \* error_handler_ of the thread pool
    handlerOf,      \* error_handler_ of each logger
    own,            \* history: loggers whose handler was set by the user since
    owner,          \* the thread that holds each mutex
    pc,             \* where each thread is
    obj,            \* the logger each thread is about, or None
    fn,             \* the handler each thread carries or runs
    visited,        \* the loggers set_error_handler() has walked through
    raced           \* history: the map changed, or was being changed, during
                    \* the last set_error_handler()

vars == <<loggerMap, loggerName, marked, links, sinkMap, sinkName, retired,
          handler, poolHandler, handlerOf, own, owner, pc, obj, fn, visited, raced>>

FnValues == Handlers \cup {None, Torn}

TypeOK ==
    /\ loggerMap \in [LoggerNames -> Loggers \cup {None}]
    /\ loggerName \in [Loggers -> LoggerNames \cup {None}]
    /\ marked \subseteq Loggers
    /\ links \in [Loggers -> Seq(Sinks)]
    /\ sinkMap \in [SinkNames -> Sinks \cup {None}]
    /\ sinkName \in [Sinks -> SinkNames \cup {None}]
    /\ retired \subseteq Sinks
    /\ handler \in Handlers \cup {None}
    /\ poolHandler \in Handlers \cup {None}
    /\ handlerOf \in [Loggers -> FnValues]
    /\ own \subseteq Loggers
    /\ owner \in [Mutexes -> Threads \cup {None}]
    /\ pc \in [Threads -> {"user", "copy", "give", "assign", "setPool", "walk",
                           "failed", "handler", "lookup"}]
    /\ obj \in [Threads -> Loggers \cup {None}]
    /\ fn \in [Threads -> FnValues]
    /\ visited \subseteq Loggers
    /\ raced \in BOOLEAN

\* An empty manager: its maps and error_handler_ are default-initialised.
Init ==
    /\ loggerMap = [n \in LoggerNames |-> None]
    /\ loggerName = [l \in Loggers |-> None]
    /\ marked = {}
    /\ links = [l \in Loggers |-> <<>>]
    /\ sinkMap = [n \in SinkNames |-> None]
    /\ sinkName = [s \in Sinks |-> None]
    /\ retired = {}
    /\ handler = None
    /\ poolHandler = None
    /\ handlerOf = [l \in Loggers |-> None]
    /\ own = {}
    /\ owner = [m \in Mutexes |-> None]
    /\ pc = [t \in Threads |-> "user"]
    /\ obj = [t \in Threads |-> None]
    /\ fn = [t \in Threads |-> None]
    /\ visited = {}
    /\ raced = FALSE

loggerVars == <<loggerMap, loggerName, marked>>
sinkVars == <<links, sinkMap, sinkName, retired>>
handlerVars == <<handler, poolHandler, handlerOf, own, visited, raced>>
threadVars == <<owner, pc, obj, fn>>

-----------------------------------------------------------------------------

Registered == {loggerMap[n] : n \in LoggerNames} \ {None}
Created == {l \in Loggers : loggerName[l] # None}
MayCreate ==
    Cardinality(Created) + Cardinality({s \in Sinks : sinkName[s] # None}) < MaxObjects

\* new_logger() has registered a logger and not yet returned it.
Creating(t) == pc[t] \in {"copy", "give"}
\* set_error_handler() has begun and not yet returned.
Setting(t) == pc[t] \in {"assign", "setPool", "walk"}

Walking == \E t \in Threads : Setting(t)

\* The user has got the logger from new_logger() or find_logger().
Reachable(l) == l \in Created /\ \A t \in Threads : Creating(t) => obj[t] # l

Goto(t, place) == pc' = [pc EXCEPT ![t] = place]
Free(m) == owner[m] = None
Acquire(m, t) == owner' = [owner EXCEPT ![m] = t]
Unlock(m) == owner' = [owner EXCEPT ![m] = None]

-----------------------------------------------------------------------------
(* Loggers: new_logger(), delete_logger(), find_logger().                  *)

\* A name in use makes new_logger() throw, with nothing changed.
RegisterLogger(t, n, l) ==
    /\ pc[t] = "user"
    /\ Free(MapMutex)
    /\ l \notin Created /\ MayCreate
    /\ loggerMap[n] = None
    /\ loggerMap' = [loggerMap EXCEPT ![n] = l]
    /\ loggerName' = [loggerName EXCEPT ![l] = n]
    /\ raced' = (raced \/ Walking)
    /\ Acquire(MapMutex, t)
    /\ obj' = [obj EXCEPT ![t] = l]
    /\ Goto(t, "copy")
    /\ UNCHANGED <<marked, handler, poolHandler, handlerOf, own, visited, fn, sinkVars>>

\* The values an unsynchronised reader of error_handler_ may find.
HandlerReads ==
    {handler} \cup UNION {{fn[t], Torn} : t \in {u \in Threads : pc[u] = "assign"}}

\* if (error_handler_), and the copy that is passed to the logger.
ReadHandler(t) ==
    /\ pc[t] = "copy"
    /\ \E h \in HandlerReads :
          /\ fn' = [fn EXCEPT ![t] = h]
          /\ IF h = None
             THEN Goto(t, "user") /\ Unlock(MapMutex) /\ obj' = [obj EXCEPT ![t] = None]
             ELSE Goto(t, "give") /\ UNCHANGED <<owner, obj>>
    /\ UNCHANGED <<loggerVars, sinkVars, handlerVars>>

\* The new logger is returned without a handler.
FaultyGiveHandler(t) ==
    /\ pc[t] = "give"
    /\ Free(obj[t])
    /\ Unlock(MapMutex)
    /\ obj' = [obj EXCEPT ![t] = None]
    /\ fn' = [fn EXCEPT ![t] = None]
    /\ Goto(t, "user")
    /\ UNCHANGED <<handler, poolHandler, handlerOf, own, visited, raced, loggerVars, sinkVars>>

\* logger::set_error_handler() on the new logger, and the return.
GiveHandler(t) ==
    /\ pc[t] = "give"
    /\ Free(obj[t])
    /\ handlerOf' = [handlerOf EXCEPT ![obj[t]] = fn[t]]
    /\ Unlock(MapMutex)
    /\ obj' = [obj EXCEPT ![t] = None]
    /\ fn' = [fn EXCEPT ![t] = None]
    /\ Goto(t, "user")
    /\ UNCHANGED <<handler, poolHandler, own, visited, raced, loggerVars, sinkVars>>

\* The deleted logger goes on logging.
FaultyRemoveLogger(n) ==
    /\ Free(MapMutex)
    /\ loggerMap[n] # None
    /\ loggerMap' = [loggerMap EXCEPT ![n] = None]
    /\ raced' = (raced \/ Walking)
    /\ UNCHANGED <<marked, loggerName, handler, poolHandler, handlerOf, own, visited, owner, obj, fn, sinkVars>>

\* A name that is not there is not rejected.
FaultyRemoveMissing(n) ==
    /\ Free(MapMutex)
    /\ marked' = marked \cup {loggerMap[n]}
    /\ loggerMap' = [loggerMap EXCEPT ![n] = None]
    /\ raced' = (raced \/ Walking)
    /\ UNCHANGED <<loggerName, handler, poolHandler, handlerOf, own, visited, owner, obj, fn, sinkVars>>

\* Whoever still has the logger gets an exception from log() from now on.
RemoveLogger(n) ==
    /\ Free(MapMutex)
    /\ loggerMap[n] # None
    /\ marked' = marked \cup {loggerMap[n]}
    /\ loggerMap' = [loggerMap EXCEPT ![n] = None]
    /\ raced' = (raced \/ Walking)
    /\ UNCHANGED <<loggerName, handler, poolHandler, handlerOf, own, visited, owner, obj, fn, sinkVars>>

DeleteLogger(t, n) ==
    /\ pc[t] = "user"
    /\ RemoveLogger(n)
    /\ UNCHANGED pc

-----------------------------------------------------------------------------
(* Sinks: new_sink(), delete_sink(), and the logger's add_sink(),          *)
(* find_sink() and delete_sink() by name.  Each is one critical section.   *)

\* A name in use is given to the new sink.
FaultyNewSink(n, s) ==
    /\ sinkName[s] = None /\ MayCreate
    /\ sinkMap' = [sinkMap EXCEPT ![n] = s]
    /\ sinkName' = [sinkName EXCEPT ![s] = n]
    /\ UNCHANGED <<links, retired, loggerVars, handlerVars, threadVars>>

NewSink(n, s) ==
    /\ sinkName[s] = None /\ MayCreate
    /\ sinkMap[n] = None
    /\ sinkMap' = [sinkMap EXCEPT ![n] = s]
    /\ sinkName' = [sinkName EXCEPT ![s] = n]
    /\ UNCHANGED <<links, retired, loggerVars, handlerVars, threadVars>>

\* Loggers connected to the sink keep it, and its name.
DeleteSink(n) ==
    /\ sinkMap[n] # None
    /\ retired' = retired \cup {sinkMap[n]}
    /\ sinkMap' = [sinkMap EXCEPT ![n] = None]
    /\ UNCHANGED <<links, sinkName, loggerVars, handlerVars, threadVars>>

Connect(l, s) ==
    /\ Reachable(l)
    /\ sinkName[s] # None
    /\ s \notin ToSet(links[l])
    /\ links' = [links EXCEPT ![l] = Append(@, s)]
    /\ UNCHANGED <<sinkMap, sinkName, retired, loggerVars, handlerVars, threadVars>>

\* The first sink of the name is the one find_sink() returns.
FindSinkLocation(l, n) == SelectInSeq(links[l], LAMBDA s : sinkName[s] = n)

Disconnect(l, n) ==
    /\ Reachable(l)
    /\ FindSinkLocation(l, n) # 0
    /\ links' = [links EXCEPT ![l] = RemoveAt(@, FindSinkLocation(l, n))]
    /\ UNCHANGED <<sinkMap, sinkName, retired, loggerVars, handlerVars, threadVars>>

-----------------------------------------------------------------------------
(* Error handlers: manager::set_error_handler(), logger::                  *)
(* set_error_handler(), and the handler that runs in logger::log() or in a *)
(* worker of the pool.                                                     *)

\* logger_map_mutex_ is held during the walk, as it would be to repair it.
FaultyBeginSetHandler(t, h) ==
    /\ pc[t] = "user"
    /\ Free(HandlerMutex) /\ Free(MapMutex)
    /\ owner' = [owner EXCEPT ![HandlerMutex] = t, ![MapMutex] = t]
    /\ fn' = [fn EXCEPT ![t] = h]
    /\ raced' = \E u \in Threads : Creating(u)
    /\ Goto(t, "assign")
    /\ UNCHANGED <<obj, handler, poolHandler, handlerOf, own, visited, loggerVars, sinkVars>>

BeginSetHandler(t, h) ==
    /\ pc[t] = "user"
    /\ Free(HandlerMutex)
    /\ Acquire(HandlerMutex, t)
    /\ fn' = [fn EXCEPT ![t] = h]
    /\ raced' = \E u \in Threads : Creating(u)
    /\ Goto(t, "assign")
    /\ UNCHANGED <<obj, handler, poolHandler, handlerOf, own, visited, loggerVars, sinkVars>>

AssignHandler(t) ==
    /\ pc[t] = "assign"
    /\ handler' = fn[t]
    /\ Goto(t, "setPool")
    /\ UNCHANGED <<poolHandler, handlerOf, own, visited, raced, owner, obj, fn, loggerVars, sinkVars>>

\* thread_pool::set_error_handler(), then begin() of the walk.
SetPoolHandler(t) ==
    /\ pc[t] = "setPool"
    /\ Free(PoolMutex)
    /\ poolHandler' = handler
    /\ visited' = {}
    /\ Goto(t, "walk")
    /\ UNCHANGED <<handler, handlerOf, own, raced, owner, obj, fn, loggerVars, sinkVars>>

\* The walk comes to any registered logger it has not visited.
VisitLogger(t, l) ==
    /\ pc[t] = "walk"
    /\ l \in Registered \ visited
    /\ Free(l)
    /\ handlerOf' = [handlerOf EXCEPT ![l] = handler]
    /\ own' = own \ {l}
    /\ visited' = visited \cup {l}
    /\ UNCHANGED <<handler, poolHandler, raced, threadVars, loggerVars, sinkVars>>

\* The walk stops before its last logger.
FaultyEndWalk(t) ==
    /\ pc[t] = "walk"
    /\ Cardinality(Registered \ visited) <= 1
    /\ Unlock(HandlerMutex)
    /\ fn' = [fn EXCEPT ![t] = None]
    /\ Goto(t, "user")
    /\ UNCHANGED <<obj, handlerVars, loggerVars, sinkVars>>

\* A map that changed underneath may lead the iterator to its end early.
EndWalk(t) ==
    /\ pc[t] = "walk"
    /\ raced \/ Registered \subseteq visited
    /\ Unlock(HandlerMutex)
    /\ fn' = [fn EXCEPT ![t] = None]
    /\ Goto(t, "user")
    /\ UNCHANGED <<obj, handlerVars, loggerVars, sinkVars>>

\* error_handler_mutex_ of the logger is not taken.
FaultySetLoggerHandler(t, l, h) ==
    /\ pc[t] = "user"
    /\ Reachable(l)
    /\ handlerOf' = [handlerOf EXCEPT ![l] = h]
    /\ own' = own \cup {l}
    /\ UNCHANGED <<handler, poolHandler, visited, raced, threadVars, loggerVars, sinkVars>>

\* The user gives a logger a handler of its own.
SetLoggerHandler(t, l, h) ==
    /\ pc[t] = "user"
    /\ Reachable(l)
    /\ Free(l)
    /\ handlerOf' = [handlerOf EXCEPT ![l] = h]
    /\ own' = own \cup {l}
    /\ UNCHANGED <<handler, poolHandler, visited, raced, threadVars, loggerVars, sinkVars>>

\* log_inner() has thrown: the logger is marked, or its filter or the
\* message's constructor throws.
LogFails(t, l) ==
    /\ pc[t] = "user"
    /\ Reachable(l)
    /\ obj' = [obj EXCEPT ![t] = l]
    /\ Goto(t, "failed")
    /\ UNCHANGED <<owner, fn, handlerVars, loggerVars, sinkVars>>

\* The catch clause of log(): the handler runs, or the exception goes on.
CatchError(t) ==
    /\ pc[t] = "failed"
    /\ Free(obj[t])
    /\ IF handlerOf[obj[t]] = None
       THEN Goto(t, "user") /\ obj' = [obj EXCEPT ![t] = None] /\ UNCHANGED <<owner, fn>>
       ELSE /\ Goto(t, "handler")
            /\ Acquire(obj[t], t)
            /\ fn' = [fn EXCEPT ![t] = handlerOf[obj[t]]]
            /\ UNCHANGED obj
    /\ UNCHANGED <<handlerVars, loggerVars, sinkVars>>

\* The catch clause of operate_thread(): without a handler it does nothing.
TaskFails(t) ==
    /\ pc[t] = "user"
    /\ Free(PoolMutex)
    /\ poolHandler # None
    /\ Acquire(PoolMutex, t)
    /\ fn' = [fn EXCEPT ![t] = poolHandler]
    /\ Goto(t, "handler")
    /\ UNCHANGED <<obj, handlerVars, loggerVars, sinkVars>>

\* The handler looks a logger up in the manager, or deletes one.
CallManager(t) ==
    /\ pc[t] = "handler"
    /\ Goto(t, "lookup")
    /\ UNCHANGED <<owner, obj, fn, handlerVars, loggerVars, sinkVars>>

FindLogger(t) ==
    /\ pc[t] = "lookup"
    /\ Free(MapMutex)
    /\ Goto(t, "handler")
    /\ UNCHANGED <<owner, obj, fn, handlerVars, loggerVars, sinkVars>>

DeleteInHandler(t, n) ==
    /\ pc[t] = "lookup"
    /\ RemoveLogger(n)
    /\ Goto(t, "handler")

HandlerReturns(t) ==
    /\ pc[t] = "handler"
    /\ Unlock(IF obj[t] = None THEN PoolMutex ELSE obj[t])
    /\ obj' = [obj EXCEPT ![t] = None]
    /\ fn' = [fn EXCEPT ![t] = None]
    /\ Goto(t, "user")
    /\ UNCHANGED <<handlerVars, loggerVars, sinkVars>>

-----------------------------------------------------------------------------

LoggerStep(t) ==
    \/ \E n \in LoggerNames, l \in Loggers : RegisterLogger(t, n, l)
    \/ ReadHandler(t)
    \/ GiveHandler(t)
    \/ \E n \in LoggerNames : DeleteLogger(t, n)

SetHandlerStep(t) ==
    \/ \E h \in Handlers \cup {None} : BeginSetHandler(t, h)
    \/ AssignHandler(t)
    \/ SetPoolHandler(t)
    \/ \E l \in Loggers : VisitLogger(t, l)
    \/ EndWalk(t)
    \/ \E l \in Loggers, h \in Handlers \cup {None} : SetLoggerHandler(t, l, h)

ErrorStep(t) ==
    \/ \E l \in Loggers : LogFails(t, l)
    \/ CatchError(t)
    \/ TaskFails(t)
    \/ CallManager(t)
    \/ FindLogger(t)
    \/ \E n \in LoggerNames : DeleteInHandler(t, n)
    \/ HandlerReturns(t)

SinkStep ==
    \/ \E n \in SinkNames, s \in Sinks : NewSink(n, s)
    \/ \E n \in SinkNames : DeleteSink(n)
    \/ \E l \in Loggers, s \in Sinks : Connect(l, s)
    \/ \E l \in Loggers, n \in SinkNames : Disconnect(l, n)

Next ==
    \/ \E t \in Threads : LoggerStep(t) \/ SetHandlerStep(t) \/ ErrorStep(t)
    \/ SinkStep

Spec == Init /\ [][Next]_vars

-----------------------------------------------------------------------------
(* Properties.                                                             *)

\* The loggers that can still log are exactly those the manager has under
\* their names: no two share one, none is lost without being marked.
UnmarkedAreRegistered ==
    \A l \in Created : l \notin marked <=> loggerMap[loggerName[l]] = l

\* While no handler is being set, the pool and every logger that can log, has
\* been returned and was not given a handler of its own have the manager's,
\* unless the map changed during the last set_error_handler().
HandlerPropagatedUnlessRaced ==
    ~raced /\ ~Walking =>
        /\ poolHandler = handler
        /\ \A l \in Registered \ own : Reachable(l) => handlerOf[l] = handler

\* The same without the exception, as doc/manager.md:125 has it.
HandlerPropagated ==
    ~Walking =>
        \A l \in Registered \ own : Reachable(l) => handlerOf[l] = handler

\* A handler is not replaced while it runs: set_error_handler() waits for it.
RunsCurrentHandler ==
    \A t \in Threads : pc[t] \in {"handler", "lookup"} =>
        fn[t] = IF obj[t] = None THEN poolHandler ELSE handlerOf[obj[t]]

\* The mutex a thread is waiting for while it holds others.
Wanted(t) ==
    CASE pc[t] = "give" -> {obj[t]}
      [] pc[t] = "setPool" -> {PoolMutex}
      [] pc[t] = "walk" -> Registered \ visited
      [] pc[t] = "failed" -> {obj[t]}
      [] pc[t] = "lookup" -> {MapMutex}
      [] OTHER -> {}

WaitsFor(t, u) == \E m \in Wanted(t) : owner[m] = u

\* No threads wait for each other in a circle, although handlers that use the
\* manager's tables run under the mutexes set_error_handler() takes.
NoCircularWait ==
    \A S \in SUBSET Threads :
        S # {} => \E t \in S : \A u \in S : ~WaitsFor(t, u)

\* A logger finds the manager's sink under its name, unless it still has a
\* sink of that name which the manager has deleted.
FindsTheManagersSink ==
    \A l \in Loggers, n \in SinkNames :
        /\ sinkMap[n] \in ToSet(links[l])
        /\ ~ \E s \in ToSet(links[l]) \cap retired : sinkName[s] = n
        => links[l][FindSinkLocation(l, n)] = sinkMap[n]
=============================================================================
