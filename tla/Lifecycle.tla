----------------------------- MODULE Lifecycle -----------------------------
(***************************************************************************)
(* The end of a manager: ~manager() waits until the pool is idle, marks    *)
(* its logger, drops its logger and its sink, then its dispatcher and its  *)
(* pool, while users may still be in log() with a logger of their own.     *)
(* The objects live as long as someone has a shared_ptr: the manager, a    *)
(* call in progress, a token.  The dispatcher and the sink have only weak  *)
(* pointers to the pool and lock them to post a token; whoever drops the   *)
(* last shared_ptr to the pool runs its destructor.                        *)
(*                                                                         *)
(* One logger and one sink; what filters and modules may throw is in       *)
(* Pipeline, how the pool waits and wakes in ThreadPool.                   *)
(***************************************************************************)
EXTENDS Naturals, FiniteSets, SequencesExt

CONSTANTS
    Users,          \* threads with a shared_ptr to the logger
    Workers,
    Manager,        \* the thread that destroys the manager
    Messages,
    Author,         \* the user that logs each message
    Nobody

Threads == Users \cup Workers \cup {Manager}
Tokens == {"dispatcher", "sink"}

ASSUME LifecycleAssumption ==
    /\ IsFiniteSet(Users) /\ IsFiniteSet(Workers) /\ Workers # {}
    /\ Users \cap Workers = {} /\ Manager \notin Users \cup Workers
    /\ Nobody \notin Threads /\ Nobody \notin Messages /\ Nobody \notin Tokens
    /\ Author \in [Messages -> Users]

VARIABLES
    mpc,        \* how far ~manager() has come
    marked,     \* mark_as_destroy_ of the logger
    upc,        \* where each user is in log()
    msg,        \* the message it logs
    logged,     \* the messages whose log() has begun
    queue,      \* the queues of the dispatcher and of the sink
    tray,       \* the tray of the sink
    owner,      \* the worker that operates each of them
    tokens,     \* the task queue of the pool
    token,      \* the token each worker holds
    wpc,        \* where each worker is
    poolRefs,   \* the threads with a shared_ptr to the pool, Manager for the member
    closer,     \* the thread in ~thread_pool()
    selfJoin,   \* a worker has joined itself: std::terminate()
    accepted,   \* history: the messages in the order they were enqueued
    written,    \* history: the messages the module has written
    reported,   \* history: an exception says that there is no pool any longer
    overlap     \* history: a log() got past the mark during ~manager()

vars == <<mpc, marked, upc, msg, logged, queue, tray, owner, tokens, token, wpc,
          poolRefs, closer, selfJoin, accepted, written, reported, overlap>>

TypeOK ==
    /\ mpc \in {"alive", "waiting", "idle", "cleared", "closing", "gone"}
    /\ marked \in BOOLEAN
    /\ upc \in [Users -> {"user", "checked", "notify", "post", "closing", "done"}]
    /\ msg \in [Users -> Messages \cup {Nobody}]
    /\ logged \subseteq Messages
    /\ queue \in [Tokens -> Seq(Messages)]
    /\ tray \in Seq(Messages)
    /\ owner \in [Tokens -> Workers \cup {Nobody}]
    /\ tokens \in Seq(Tokens)
    /\ token \in [Workers -> Tokens \cup {Nobody}]
    /\ wpc \in [Workers -> {"ready", "lock", "operate", "write", "notify", "post", "exited"}]
    /\ poolRefs \subseteq Threads
    /\ closer \in Threads \cup {Nobody}
    /\ selfJoin \in BOOLEAN
    /\ accepted \in Seq(Messages)
    /\ written \in Seq(Messages)
    /\ reported \in BOOLEAN
    /\ overlap \in BOOLEAN

Init ==
    /\ mpc = "alive"
    /\ marked = FALSE
    /\ upc = [u \in Users |-> "user"]
    /\ msg = [u \in Users |-> Nobody]
    /\ logged = {}
    /\ queue = [k \in Tokens |-> <<>>]
    /\ tray = <<>>
    /\ owner = [k \in Tokens |-> Nobody]
    /\ tokens = <<>>
    /\ token = [w \in Workers |-> Nobody]
    /\ wpc = [w \in Workers |-> "ready"]
    /\ poolRefs = {Manager}
    /\ closer = Nobody
    /\ selfJoin = FALSE
    /\ accepted = <<>>
    /\ written = <<>>
    /\ reported = FALSE
    /\ overlap = FALSE

managerVars == <<mpc, marked>>
userVars == <<upc, msg, logged, accepted>>
stationVars == <<queue, tray, owner, written>>
workerVars == <<token, wpc>>
poolVars == <<poolRefs, closer, selfJoin>>

-----------------------------------------------------------------------------
(* The shared pointers.                                                    *)

InLog(u) == upc[u] \in {"checked", "notify", "post"}

\* A shared_ptr to the dispatcher: the manager's, of a log() in progress, of
\* a token.
DispatcherAlive ==
    \/ mpc \in {"alive", "waiting", "idle", "cleared"}
    \/ \E u \in Users : InLog(u)
    \/ "dispatcher" \in ToSet(tokens)
    \/ \E w \in Workers : token[w] = "dispatcher"

PoolAlive == poolRefs # {}

LockPool(t) == poolRefs' = poolRefs \cup {t}

\* The last shared_ptr to the pool runs ~thread_pool(); a worker that does so
\* joins the other threads and then itself, which throws in a destructor.
ReleasePool(t) ==
    /\ poolRefs' = poolRefs \ {t}
    /\ closer' = IF poolRefs \subseteq {t} THEN t ELSE closer
    /\ selfJoin' = (poolRefs \subseteq {t} /\ t \in Workers)

-----------------------------------------------------------------------------
(* Users: log_inner() and dispatcher::enqueue().                           *)

GotoUser(u, place) == upc' = [upc EXCEPT ![u] = place]

\* The message is enqueued although log_inner() gave it up.
FaultyCallLog(u, m) ==
    /\ upc[u] = "user"
    /\ Author[m] = u /\ m \notin logged
    /\ logged' = logged \cup {m}
    /\ GotoUser(u, "checked")
    /\ IF marked \/ ~DispatcherAlive
       THEN UNCHANGED <<msg, overlap>>
       ELSE /\ msg' = [msg EXCEPT ![u] = m]
            /\ overlap' = (overlap \/ mpc # "alive")
    /\ UNCHANGED <<managerVars, stationVars, workerVars, poolVars, tokens, accepted, reported>>

\* log() throws if the logger is marked or the dispatcher has gone.
CallLog(u, m) ==
    /\ upc[u] = "user"
    /\ Author[m] = u /\ m \notin logged
    /\ logged' = logged \cup {m}
    /\ IF marked \/ ~DispatcherAlive
       THEN UNCHANGED <<upc, msg, overlap>>
       ELSE /\ GotoUser(u, "checked")
            /\ msg' = [msg EXCEPT ![u] = m]
            /\ overlap' = (overlap \/ mpc # "alive")
    /\ UNCHANGED <<managerVars, stationVars, workerVars, poolVars, tokens, accepted, reported>>

Enqueue(u) ==
    /\ upc[u] = "checked"
    /\ queue' = [queue EXCEPT !["dispatcher"] = Append(@, msg[u])]
    /\ accepted' = Append(accepted, msg[u])
    /\ msg' = [msg EXCEPT ![u] = Nobody]
    /\ GotoUser(u, IF queue["dispatcher"] = <<>> THEN "notify" ELSE "user")
    /\ UNCHANGED <<managerVars, workerVars, poolVars, tokens, logged, tray, owner,
                   written, reported, overlap>>

\* notify_thread_pool(): thread_pool_.lock(), or the exception.
UserLocksPool(u) ==
    /\ upc[u] = "notify"
    /\ IF PoolAlive
       THEN LockPool(u) /\ GotoUser(u, "post") /\ UNCHANGED reported
       ELSE UNCHANGED poolRefs /\ GotoUser(u, "user") /\ reported' = TRUE
    /\ UNCHANGED <<managerVars, stationVars, workerVars, closer, selfJoin, tokens,
                   msg, logged, accepted, overlap>>

\* The shared_ptr to the pool is kept.
FaultyUserPosts(u) ==
    /\ upc[u] = "post"
    /\ tokens' = Append(tokens, "dispatcher")
    /\ GotoUser(u, "user")
    /\ UNCHANGED <<managerVars, stationVars, workerVars, poolVars, msg, logged, accepted,
                   reported, overlap>>

UserPosts(u) ==
    /\ upc[u] = "post"
    /\ tokens' = Append(tokens, "dispatcher")
    /\ ReleasePool(u)
    /\ GotoUser(u, IF closer' = u THEN "closing" ELSE "user")
    /\ UNCHANGED <<managerVars, stationVars, workerVars, msg, logged, accepted,
                   reported, overlap>>

\* The user gives up its logger.
DropLogger(u) ==
    /\ upc[u] = "user"
    /\ GotoUser(u, "done")
    /\ UNCHANGED <<managerVars, stationVars, workerVars, poolVars, tokens, msg,
                   logged, accepted, reported, overlap>>

-----------------------------------------------------------------------------
(* Workers: the tokens of the dispatcher and of the sink.                  *)

GotoWorker(w, place) == wpc' = [wpc EXCEPT ![w] = place]

TakeToken(w) ==
    /\ wpc[w] = "ready"
    /\ tokens # <<>>
    /\ token' = [token EXCEPT ![w] = Head(tokens)]
    /\ tokens' = Tail(tokens)
    /\ GotoWorker(w, "lock")
    /\ UNCHANGED <<managerVars, userVars, stationVars, poolVars, reported, overlap>>

Lock(w) ==
    /\ wpc[w] = "lock"
    /\ owner[token[w]] = Nobody
    /\ owner' = [owner EXCEPT ![token[w]] = w]
    /\ GotoWorker(w, "operate")
    /\ UNCHANGED <<managerVars, userVars, poolVars, tokens, token, queue, tray,
                   written, reported, overlap>>

\* The token is destroyed, and the station's mutex has been released.
Done(w) ==
    /\ owner' = [owner EXCEPT ![token[w]] = Nobody]
    /\ token' = [token EXCEPT ![w] = Nobody]
    /\ GotoWorker(w, "ready")

\* dispatch(): all messages are of one logger and go to its sink at once.
Dispatch(w) ==
    /\ wpc[w] = "operate" /\ token[w] = "dispatcher"
    /\ queue' = [queue EXCEPT !["dispatcher"] = <<>>,
                              !["sink"] = @ \o queue["dispatcher"]]
    /\ IF queue["dispatcher"] # <<>> /\ queue["sink"] = <<>>
       THEN GotoWorker(w, "notify") /\ UNCHANGED <<owner, token>>
       ELSE Done(w)
    /\ UNCHANGED <<managerVars, userVars, poolVars, tokens, tray, written, reported, overlap>>

\* sink::notify_thread_pool().  Without a pool it throws; the dispatcher's
\* catch clause drops the messages and fails to notify in turn.
WorkerLocksPool(w) ==
    /\ wpc[w] = "notify"
    /\ IF PoolAlive
       THEN LockPool(w) /\ GotoWorker(w, "post") /\ UNCHANGED <<owner, token, reported>>
       ELSE UNCHANGED poolRefs /\ Done(w) /\ reported' = TRUE
    /\ UNCHANGED <<managerVars, userVars, closer, selfJoin, tokens, queue, tray,
                   written, overlap>>

WorkerPosts(w) ==
    /\ wpc[w] = "post"
    /\ tokens' = Append(tokens, "sink")
    /\ ReleasePool(w)
    /\ Done(w)
    /\ UNCHANGED <<managerVars, userVars, queue, tray, written, reported, overlap>>

\* sink_message(): the queue is swapped with the empty tray.
StartSink(w) ==
    /\ wpc[w] = "operate" /\ token[w] = "sink"
    /\ tray' = queue["sink"]
    /\ queue' = [queue EXCEPT !["sink"] = <<>>]
    /\ GotoWorker(w, "write")
    /\ UNCHANGED <<managerVars, userVars, poolVars, tokens, token, owner, written,
                   reported, overlap>>

Write(w) ==
    /\ wpc[w] = "write"
    /\ IF tray = <<>>
       THEN Done(w) /\ UNCHANGED <<tray, written>>
       ELSE /\ written' = Append(written, Head(tray))
            /\ tray' = Tail(tray)
            /\ UNCHANGED <<owner, token, wpc>>
    /\ UNCHANGED <<managerVars, userVars, poolVars, tokens, queue, reported, overlap>>

\* The pool is being destroyed, whatever is queued.
FaultyExit(w) ==
    /\ wpc[w] = "ready"
    /\ closer # Nobody
    /\ GotoWorker(w, "exited")
    /\ UNCHANGED <<managerVars, userVars, stationVars, poolVars, tokens, token,
                   reported, overlap>>

\* The pool is being destroyed and has nothing left to do.
Exit(w) ==
    /\ wpc[w] = "ready"
    /\ closer # Nobody
    /\ tokens = <<>>
    /\ GotoWorker(w, "exited")
    /\ UNCHANGED <<managerVars, userVars, stationVars, poolVars, tokens, token,
                   reported, overlap>>

-----------------------------------------------------------------------------
(* ~manager().                                                             *)

PoolIdle == tokens = <<>> /\ \A w \in Workers : wpc[w] = "ready"

BeginDestructor ==
    /\ mpc = "alive"
    /\ mpc' = "waiting"
    /\ overlap' = \E u \in Users : InLog(u)
    /\ UNCHANGED <<marked, userVars, stationVars, workerVars, poolVars, tokens, reported>>

\* The destructor does not wait.
FaultyWaitUntilIdle ==
    /\ mpc = "waiting"
    /\ mpc' = "idle"
    /\ UNCHANGED <<marked, userVars, stationVars, workerVars, poolVars, tokens,
                   reported, overlap>>

WaitUntilIdle ==
    /\ mpc = "waiting"
    /\ PoolIdle
    /\ mpc' = "idle"
    /\ UNCHANGED <<marked, userVars, stationVars, workerVars, poolVars, tokens,
                   reported, overlap>>

\* mark_as_destroy() of every logger, and the maps are cleared.
MarkLoggers ==
    /\ mpc = "idle"
    /\ marked' = TRUE
    /\ mpc' = "cleared"
    /\ UNCHANGED <<userVars, stationVars, workerVars, poolVars, tokens, reported, overlap>>

\* The members dispatcher_ and thread_pool_ are destroyed, in this order.
ReleaseMembers ==
    /\ mpc = "cleared"
    /\ ReleasePool(Manager)
    /\ mpc' = IF closer' = Manager THEN "closing" ELSE "gone"
    /\ UNCHANGED <<marked, userVars, stationVars, workerVars, tokens, reported, overlap>>

AllExited == \A w \in Workers : wpc[w] = "exited"

\* ~thread_pool() has joined every worker.
JoinWorkers ==
    /\ closer # Nobody /\ AllExited
    /\ \/ mpc = "closing" /\ mpc' = "gone" /\ UNCHANGED upc
       \/ \E u \in Users : upc[u] = "closing" /\ GotoUser(u, "user") /\ UNCHANGED mpc
    /\ UNCHANGED <<marked, msg, logged, accepted, stationVars, workerVars, poolVars,
                   tokens, reported, overlap>>

-----------------------------------------------------------------------------

UserStep(u) == Enqueue(u) \/ UserLocksPool(u) \/ UserPosts(u)

WorkerStep(w) ==
    \/ TakeToken(w)
    \/ Lock(w)
    \/ Dispatch(w)
    \/ WorkerLocksPool(w)
    \/ WorkerPosts(w)
    \/ StartSink(w)
    \/ Write(w)
    \/ Exit(w)

DestructorStep == WaitUntilIdle \/ MarkLoggers \/ ReleaseMembers \/ JoinWorkers

\* std::terminate() ends the program.
Next ==
    /\ ~selfJoin
    /\ \/ \E u \in Users :
             UserStep(u) \/ DropLogger(u) \/ \E m \in Messages : CallLog(u, m)
       \/ \E w \in Workers : WorkerStep(w)
       \/ BeginDestructor
       \/ DestructorStep

Spec == Init /\ [][Next]_vars

\* A call once begun goes on, a worker never sleeps with a token to take (see
\* ThreadPool), and the mutexes are granted in the end.
FairSpec ==
    /\ Spec
    /\ \A u \in Users : WF_vars(~selfJoin /\ UserStep(u))
    /\ \A w \in Workers :
          /\ WF_vars(~selfJoin /\ WorkerStep(w))
          /\ SF_vars(~selfJoin /\ Lock(w))
    /\ WF_vars(~selfJoin /\ DestructorStep)

-----------------------------------------------------------------------------
(* Properties.                                                             *)

\* Unless a log() overlaps ~manager(), no worker runs ~thread_pool(): it would
\* join itself.
NoWorkerClosesPool == selfJoin => overlap

\* Unless a log() overlaps ~manager(), every message whose log() has returned is
\* written before the manager drops its loggers and sinks.
WrittenBeforeDestruction ==
    mpc \in {"idle", "cleared", "closing", "gone"} /\ ~overlap => written = accepted

\* With or without such a log(), a message that never will be written is not
\* lost without an exception from log() or in a worker.
LossReported ==
    AllExited /\ ToSet(written) # ToSet(accepted) =>
        reported \/ \E u \in Users : upc[u] = "notify"

\* Once ~manager() has begun, the workers end, whoever it is that joins them.
WorkersEnd == mpc = "waiting" ~> AllExited \/ selfJoin
=============================================================================
