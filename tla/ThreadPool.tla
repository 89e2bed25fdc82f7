----------------------------- MODULE ThreadPool -----------------------------
(***************************************************************************)
(* logency::detail::thread::thread_pool: a fixed set of worker threads     *)
(* that take tasks from one FIFO queue.  One mutex protects the queue and  *)
(* the number of running workers; task_variable_ wakes the workers and     *)
(* pending_variable_ wakes the callers of wait_until_queue_empty().        *)
(*                                                                         *)
(* A step is a critical section, or a piece of code between two accesses   *)
(* to shared state.  The destroy flag is raised and its notify_all() is    *)
(* sent WITHOUT the mutex, so the workers' test of the wait predicate and  *)
(* their blocking on the condition variable are two steps.                 *)
(***************************************************************************)
EXTENDS Naturals, FiniteSets, SequencesExt

CONSTANTS
    Workers,       \* the threads of threads_
    Clients,       \* the threads that call the pool's member functions
    Tasks,         \* the tasks ever enqueued, each of them once
    FailingTasks,  \* the tasks whose operate_by_thread() throws
    Handlers,      \* the error handlers given to set_error_handler()
    NoHandler,     \* the empty std::function of a new pool
    NoTask,        \* the null task pointer of an unoccupied worker
    NoThread       \* the owner of a free mutex

Threads == Workers \cup Clients

\* is_thread_number_valid() refuses a pool of no threads.
ASSUME WorkersAssumption == IsFiniteSet(Workers) /\ Workers # {}
ASSUME ThreadsAssumption == Workers \cap Clients = {} /\ NoThread \notin Threads
ASSUME TasksAssumption == FailingTasks \subseteq Tasks /\ NoTask \notin Tasks
ASSUME HandlersAssumption == NoHandler \notin Handlers

VARIABLES
    phase,            \* what the pool's owner is doing with it
    mutex,            \* the thread that holds mutex_
    task_queue,       \* task_queue_
    running_counter,  \* running_counter_
    mark_as_destroy,  \* mark_as_destroy_
    error_handler,    \* error_handler_
    task_waiters,     \* the workers blocked on task_variable_
    pending_waiters,  \* the clients blocked on pending_variable_
    notifying,        \* the threads between push() and notify_one() in enqueue()
    pc,               \* where each thread is
    task,             \* the task each worker is busy with
    finished,         \* the tasks operated on, their error reported if any
    awaited           \* the tasks enqueued before a client called wait

vars == <<phase, mutex, task_queue, running_counter, mark_as_destroy,
          error_handler, task_waiters, pending_waiters, notifying, pc, task,
          finished, awaited>>

-----------------------------------------------------------------------------
Phases == {"constructing", "open", "marked", "joining", "gone"}

\* Where a worker is in thread_loop() and stand_by().
WorkerPC == {"unborn",    \* its std::thread is not created yet
             "loop",      \* about to lock mutex_ at the top of the loop
             "evaluate",  \* owns mutex_, about to evaluate the wait predicate
             "block",     \* owns mutex_, the predicate was false
             "blocked",   \* in wait(): on the wait set, or notified
             "operate",   \* in operate_by_thread(), mutex_ released
             "catch",     \* caught an exception, about to lock mutex_
             "handle",    \* owns mutex_, the error handler runs
             "exited"}

\* Where a client is: in the user's code or in wait_until_queue_empty().
ClientPC == {"user", "wait", "waiting"}

TypeOK ==
    /\ phase \in Phases
    /\ mutex \in Threads \cup {NoThread}
    /\ task_queue \in Seq(Tasks)
    /\ running_counter \in 0 .. Cardinality(Workers)
    /\ mark_as_destroy \in BOOLEAN
    /\ error_handler \in Handlers \cup {NoHandler}
    /\ task_waiters \subseteq Workers
    /\ pending_waiters \subseteq Clients
    /\ notifying \subseteq Threads
    /\ pc \in [Threads -> WorkerPC \cup ClientPC]
    /\ \A w \in Workers : pc[w] \in WorkerPC
    /\ \A c \in Clients : pc[c] \in ClientPC
    /\ task \in [Workers -> Tasks \cup {NoTask}]
    /\ finished \subseteq Tasks
    /\ awaited \in [Clients -> SUBSET Tasks]

Queued == ToSet(task_queue)

Busy == {task[w] : w \in Workers} \ {NoTask}

\* Every task some enqueue() has pushed so far.
Enqueued == Queued \cup Busy \cup finished

\* Operators named Faulty... are edits of the definition they precede; no
\* specification uses them, they show what the properties detect.
FaultyIsPending == task_queue = <<>>

\* is_pending()
IsPending == running_counter = 0 /\ task_queue = <<>>

FaultyWaitPredicate == task_queue # <<>>

\* The predicate of task_variable_.wait().
WaitPredicate == task_queue # <<>> \/ mark_as_destroy

\* The condition of the break in thread_loop().
MayExit == task_queue = <<>> /\ mark_as_destroy

Init ==
    /\ phase = "constructing"
    /\ mutex = NoThread
    /\ task_queue = <<>>
    /\ running_counter = Cardinality(Workers)
    /\ mark_as_destroy = FALSE
    /\ error_handler = NoHandler
    /\ task_waiters = {}
    /\ pending_waiters = {}
    /\ notifying = {}
    /\ pc = [t \in Threads |-> IF t \in Workers THEN "unborn" ELSE "user"]
    /\ task = [w \in Workers |-> NoTask]
    /\ finished = {}
    /\ awaited = [c \in Clients |-> {}]

-----------------------------------------------------------------------------
(* The owner: thread_pool(), ~thread_pool(), tidy(), tidy_threads().       *)

CreateThread(w) ==
    /\ phase = "constructing"
    /\ pc[w] = "unborn"
    /\ pc' = [pc EXCEPT ![w] = "loop"]
    /\ phase' = IF \A v \in Workers \ {w} : pc[v] # "unborn"
                THEN "open" ELSE "constructing"
    /\ UNCHANGED <<mutex, task_queue, running_counter, mark_as_destroy,
                   error_handler, task_waiters, pending_waiters, notifying,
                   task, finished, awaited>>

\* tidy() raises the flag, without mutex_.
MarkAsDestroy ==
    /\ mark_as_destroy' = TRUE
    /\ phase' = "marked"
    /\ UNCHANGED <<mutex, task_queue, running_counter, error_handler,
                   task_waiters, pending_waiters, notifying, pc, task,
                   finished, awaited>>

\* std::thread cannot start a thread: the constructor tidies up and throws.
CreateThreadFails ==
    /\ phase = "constructing"
    /\ MarkAsDestroy

\* The last std::shared_ptr is released, so no other thread is inside a
\* member function of the pool.
Destroy ==
    /\ phase = "open"
    /\ notifying = {}
    /\ \A c \in Clients : pc[c] = "user"
    /\ MarkAsDestroy

\* task_variable_.notify_all() of tidy_threads(), without mutex_.
NotifyWorkers ==
    /\ phase = "marked"
    /\ task_waiters' = {}
    /\ phase' = "joining"
    /\ UNCHANGED <<mutex, task_queue, running_counter, mark_as_destroy,
                   error_handler, pending_waiters, notifying, pc, task,
                   finished, awaited>>

JoinThreads ==
    /\ phase = "joining"
    /\ \A w \in Workers : pc[w] \in {"unborn", "exited"}
    /\ phase' = "gone"
    /\ UNCHANGED <<mutex, task_queue, running_counter, mark_as_destroy,
                   error_handler, task_waiters, pending_waiters, notifying,
                   pc, task, finished, awaited>>

-----------------------------------------------------------------------------
(* The callers: enqueue(), set_error_handler(), wait_until_queue_empty().  *)

\* A client between two calls, or a task that runs on a worker, may call.
CanCall(t) ==
    /\ phase = "open"
    /\ t \notin notifying
    /\ pc[t] \in {"user", "operate"}

Push(t, k) ==
    /\ CanCall(t)
    /\ k \notin Enqueued
    /\ mutex = NoThread
    /\ task_queue' = Append(task_queue, k)
    /\ notifying' = notifying \cup {t}
    /\ UNCHANGED <<phase, mutex, running_counter, mark_as_destroy,
                   error_handler, task_waiters, pending_waiters, pc, task,
                   finished, awaited>>

\* The notification is forgotten.
FaultyNotifyOne(t) ==
    /\ t \in notifying
    /\ notifying' = notifying \ {t}
    /\ UNCHANGED <<phase, mutex, task_queue, running_counter, mark_as_destroy,
                   error_handler, task_waiters, pending_waiters, pc, task,
                   finished, awaited>>

\* task_variable_.notify_one(), after mutex_ is released: it wakes one of the
\* blocked workers and is lost when there is none.
NotifyOne(t) ==
    /\ t \in notifying
    /\ notifying' = notifying \ {t}
    /\ \/ \E w \in task_waiters : task_waiters' = task_waiters \ {w}
       \/ task_waiters = {} /\ UNCHANGED task_waiters
    /\ UNCHANGED <<phase, mutex, task_queue, running_counter, mark_as_destroy,
                   error_handler, pending_waiters, pc, task, finished,
                   awaited>>

SetErrorHandler(c, h) ==
    /\ CanCall(c)
    /\ mutex = NoThread
    /\ error_handler' = h
    /\ UNCHANGED <<phase, mutex, task_queue, running_counter, mark_as_destroy,
                   task_waiters, pending_waiters, notifying, pc, task,
                   finished, awaited>>

WaitUntilQueueEmpty(c) ==
    /\ CanCall(c)
    /\ pc' = [pc EXCEPT ![c] = "wait"]
    /\ awaited' = [awaited EXCEPT ![c] = Enqueued]
    /\ UNCHANGED <<phase, mutex, task_queue, running_counter, mark_as_destroy,
                   error_handler, task_waiters, pending_waiters, notifying,
                   task, finished>>

\* The client locks mutex_ to evaluate is_pending(), for the first time or
\* once it is off the wait set.
CanEvaluate(c) ==
    /\ pc[c] \in {"wait", "waiting"}
    /\ c \notin pending_waiters
    /\ mutex = NoThread

WaitReturns(c) ==
    /\ CanEvaluate(c)
    /\ IsPending
    /\ pc' = [pc EXCEPT ![c] = "user"]
    /\ awaited' = [awaited EXCEPT ![c] = {}]
    /\ UNCHANGED <<phase, mutex, task_queue, running_counter, mark_as_destroy,
                   error_handler, task_waiters, pending_waiters, notifying,
                   task, finished>>

WaitBlocks(c) ==
    /\ CanEvaluate(c)
    /\ ~IsPending
    /\ pc' = [pc EXCEPT ![c] = "waiting"]
    /\ pending_waiters' = pending_waiters \cup {c}
    /\ UNCHANGED <<phase, mutex, task_queue, running_counter, mark_as_destroy,
                   error_handler, task_waiters, notifying, task, finished,
                   awaited>>

-----------------------------------------------------------------------------
(* The workers: thread_loop() and stand_by().                              *)

\* is_pending() is evaluated before the decrement.
FaultyStandBy(w) ==
    /\ pc[w] = "loop"
    /\ mutex = NoThread
    /\ mutex' = w
    /\ running_counter' = running_counter - 1
    /\ pending_waiters' = IF IsPending THEN {} ELSE pending_waiters
    /\ pc' = [pc EXCEPT ![w] = "evaluate"]
    /\ UNCHANGED <<phase, task_queue, mark_as_destroy, error_handler,
                   task_waiters, notifying, task, finished, awaited>>

\* lock(mutex_); --running_counter_; the last running worker of an empty
\* queue wakes the clients.
StandBy(w) ==
    /\ pc[w] = "loop"
    /\ mutex = NoThread
    /\ mutex' = w
    /\ running_counter' = running_counter - 1
    /\ pending_waiters' = IF running_counter - 1 = 0 /\ task_queue = <<>>
                          THEN {} ELSE pending_waiters
    /\ pc' = [pc EXCEPT ![w] = "evaluate"]
    /\ UNCHANGED <<phase, task_queue, mark_as_destroy, error_handler,
                   task_waiters, notifying, task, finished, awaited>>

\* The mutex is released before the wait set is entered.
FaultyEvaluateFalse(w) ==
    /\ pc[w] = "evaluate"
    /\ ~WaitPredicate
    /\ mutex' = NoThread
    /\ pc' = [pc EXCEPT ![w] = "block"]
    /\ UNCHANGED <<phase, task_queue, running_counter, mark_as_destroy,
                   error_handler, task_waiters, pending_waiters, notifying,
                   task, finished, awaited>>

\* The predicate of task_variable_.wait() is false.  The mutex is still
\* owned; only Block releases it.
EvaluateFalse(w) ==
    /\ pc[w] = "evaluate"
    /\ ~WaitPredicate
    /\ pc' = [pc EXCEPT ![w] = "block"]
    /\ UNCHANGED <<phase, mutex, task_queue, running_counter, mark_as_destroy,
                   error_handler, task_waiters, pending_waiters, notifying,
                   task, finished, awaited>>

\* wait() releases the mutex and enters the wait set in one step.
Block(w) ==
    /\ pc[w] = "block"
    /\ mutex' = NoThread
    /\ task_waiters' = task_waiters \cup {w}
    /\ pc' = [pc EXCEPT ![w] = "blocked"]
    /\ UNCHANGED <<phase, task_queue, running_counter, mark_as_destroy,
                   error_handler, pending_waiters, notifying, task, finished,
                   awaited>>

\* A wakeup that finds no task goes through stand_by() again.
FaultyRelock(w) ==
    /\ pc[w] = "blocked"
    /\ w \notin task_waiters
    /\ mutex = NoThread
    /\ pc' = [pc EXCEPT ![w] = "loop"]
    /\ UNCHANGED <<phase, mutex, task_queue, running_counter, mark_as_destroy,
                   error_handler, task_waiters, pending_waiters, notifying,
                   task, finished, awaited>>

Relock(w) ==
    /\ pc[w] = "blocked"
    /\ w \notin task_waiters
    /\ mutex = NoThread
    /\ mutex' = w
    /\ pc' = [pc EXCEPT ![w] = "evaluate"]
    /\ UNCHANGED <<phase, task_queue, running_counter, mark_as_destroy,
                   error_handler, task_waiters, pending_waiters, notifying,
                   task, finished, awaited>>

\* front() without pop().
FaultyTakeTask(w) ==
    /\ pc[w] = "evaluate"
    /\ WaitPredicate /\ ~MayExit
    /\ mutex' = NoThread
    /\ running_counter' = running_counter + 1
    /\ task' = [task EXCEPT ![w] = Head(task_queue)]
    /\ pc' = [pc EXCEPT ![w] = "operate"]
    /\ UNCHANGED <<phase, task_queue, mark_as_destroy, error_handler,
                   task_waiters, pending_waiters, notifying, finished, awaited>>

\* The predicate is true: ++running_counter_; take the front task; unlock.
TakeTask(w) ==
    /\ pc[w] = "evaluate"
    /\ WaitPredicate /\ ~MayExit
    /\ mutex' = NoThread
    /\ running_counter' = running_counter + 1
    /\ task' = [task EXCEPT ![w] = Head(task_queue)]
    /\ task_queue' = Tail(task_queue)
    /\ pc' = [pc EXCEPT ![w] = "operate"]
    /\ UNCHANGED <<phase, mark_as_destroy, error_handler, task_waiters,
                   pending_waiters, notifying, finished, awaited>>

\* The predicate is true and the queue is empty: leave the loop.
Exit(w) ==
    /\ pc[w] = "evaluate"
    /\ WaitPredicate /\ MayExit
    /\ mutex' = NoThread
    /\ running_counter' = running_counter + 1
    /\ pc' = [pc EXCEPT ![w] = "exited"]
    /\ UNCHANGED <<phase, task_queue, mark_as_destroy, error_handler,
                   task_waiters, pending_waiters, notifying, task, finished,
                   awaited>>

Finish(w) ==
    /\ finished' = finished \cup {task[w]}
    /\ task' = [task EXCEPT ![w] = NoTask]
    /\ pc' = [pc EXCEPT ![w] = "loop"]

OperateReturns(w) ==
    /\ pc[w] = "operate"
    /\ w \notin notifying
    /\ task[w] \notin FailingTasks
    /\ Finish(w)
    /\ UNCHANGED <<phase, mutex, task_queue, running_counter, mark_as_destroy,
                   error_handler, task_waiters, pending_waiters, notifying,
                   awaited>>

OperateThrows(w) ==
    /\ pc[w] = "operate"
    /\ w \notin notifying
    /\ task[w] \in FailingTasks
    /\ pc' = [pc EXCEPT ![w] = "catch"]
    /\ UNCHANGED <<phase, mutex, task_queue, running_counter, mark_as_destroy,
                   error_handler, task_waiters, pending_waiters, notifying,
                   task, finished, awaited>>

\* The handler is copied under mutex_ and called after the unlock.
FaultyCallHandler(w) ==
    /\ pc[w] = "catch"
    /\ mutex = NoThread
    /\ error_handler # NoHandler
    /\ pc' = [pc EXCEPT ![w] = "handle"]
    /\ UNCHANGED <<phase, mutex, task_queue, running_counter, mark_as_destroy,
                   error_handler, task_waiters, pending_waiters, notifying,
                   task, finished, awaited>>

\* The catch block runs the handler while it owns mutex_.
CallHandler(w) ==
    /\ pc[w] = "catch"
    /\ mutex = NoThread
    /\ error_handler # NoHandler
    /\ mutex' = w
    /\ pc' = [pc EXCEPT ![w] = "handle"]
    /\ UNCHANGED <<phase, task_queue, running_counter, mark_as_destroy,
                   error_handler, task_waiters, pending_waiters, notifying,
                   task, finished, awaited>>

SkipHandler(w) ==
    /\ pc[w] = "catch"
    /\ mutex = NoThread
    /\ error_handler = NoHandler
    /\ Finish(w)
    /\ UNCHANGED <<phase, mutex, task_queue, running_counter, mark_as_destroy,
                   error_handler, task_waiters, pending_waiters, notifying,
                   awaited>>

HandlerReturns(w) ==
    /\ pc[w] = "handle"
    /\ mutex' = NoThread
    /\ Finish(w)
    /\ UNCHANGED <<phase, task_queue, running_counter, mark_as_destroy,
                   error_handler, task_waiters, pending_waiters, notifying,
                   awaited>>

-----------------------------------------------------------------------------
\* A condition variable may wake a waiting thread that nobody notified.
SpuriousWakeup ==
    /\ \/ /\ \E w \in task_waiters : task_waiters' = task_waiters \ {w}
          /\ UNCHANGED pending_waiters
       \/ /\ \E c \in pending_waiters :
                pending_waiters' = pending_waiters \ {c}
          /\ UNCHANGED task_waiters
    /\ UNCHANGED <<phase, mutex, task_queue, running_counter, mark_as_destroy,
                   error_handler, notifying, pc, task, finished, awaited>>

\* The pool is destroyed and every member function has returned.
Terminated == phase = "gone" /\ UNCHANGED vars

OwnerStep ==
    \/ \E w \in Workers : CreateThread(w)
    \/ CreateThreadFails
    \/ Destroy
    \/ NotifyWorkers
    \/ JoinThreads

ClientStep(c) ==
    \/ \E k \in Tasks : Push(c, k)
    \/ NotifyOne(c)
    \/ \E h \in Handlers : SetErrorHandler(c, h)
    \/ WaitUntilQueueEmpty(c)
    \/ WaitReturns(c)
    \/ WaitBlocks(c)

\* A step of a worker in thread_loop(), or of the task it runs.
LoopStep(w) ==
    \/ StandBy(w)
    \/ EvaluateFalse(w)
    \/ Block(w)
    \/ Relock(w)
    \/ TakeTask(w)
    \/ Exit(w)
    \/ NotifyOne(w)
    \/ OperateReturns(w)
    \/ OperateThrows(w)
    \/ CallHandler(w)
    \/ SkipHandler(w)
    \/ HandlerReturns(w)

WorkerStep(w) ==
    \/ LoopStep(w)
    \/ \E k \in Tasks : Push(w, k)

Next ==
    \/ OwnerStep
    \/ \E c \in Clients : ClientStep(c)
    \/ \E w \in Workers : WorkerStep(w)
    \/ SpuriousWakeup
    \/ Terminated

Spec == Init /\ [][Next]_vars

-----------------------------------------------------------------------------
(* Safety.                                                                 *)

\* The workers inside stand_by(), which running_counter_ leaves out.
StandingBy == {w \in Workers : pc[w] \in {"evaluate", "block", "blocked"}}

\* The atomic running_counter_ is the exact number of workers outside
\* stand_by() in every state, in spite of exceptions and early exits, so that
\* is_pending() answers for the whole pool.
RunningExact == running_counter = Cardinality(Workers \ StandingBy)

\* enqueue() notifies after it unlocks and notify_one() may find nobody: even
\* so, while a task is queued some worker is awake, or will be notified.
NoLostTask ==
    task_queue # <<>> =>
        \/ notifying # {}
        \/ \E w \in Workers : w \notin task_waiters /\ pc[w] # "unborn"
                                                  /\ pc[w] # "exited"

\* No client sleeps in wait_until_queue_empty() while the pool is idle: the
\* worker that makes it idle notifies before it sleeps itself.
NoMissedIdle == IsPending => pending_waiters = {}

\* assert(task_queue_.empty()) at the end of thread_loop() and of tidy(): the
\* destructor drains the queue, a worker never leaves tasks behind.
DrainedAtExit ==
    (phase = "gone" \/ \E w \in Workers : pc[w] = "exited") => task_queue = <<>>

\* wait_until_queue_empty() returns only when each task enqueued before the
\* call is finished, its exception handled ("expect all tasks which were
\* enqueued before this function are finished", thread_pool_test.cpp), and
\* also those the tasks enqueued themselves meanwhile.
WaitCoversTasks ==
    [][\A c \in Clients :
          pc[c] # "user" /\ pc'[c] = "user" =>
              awaited[c] \cup Enqueued \subseteq finished]_vars

\* The error handler runs outside the pool's code for as long as it likes; it
\* is neither replaced nor run by a second worker meanwhile.
HandlerUndisturbed ==
    [][\A w \in Workers :
          pc[w] = "handle" /\ pc'[w] = "handle" =>
              /\ error_handler' = error_handler
              /\ \A v \in Workers \ {w} : pc'[v] # "handle"]_vars

\* thread_pool implements what its users rely on: tasks begin in the order of
\* enqueue(), once each, and neither a wait nor the destructor ends early.
Service == INSTANCE TaskService WITH
    status <- CASE phase \in {"constructing", "open"} -> "open"
                [] phase \in {"marked", "joining"} -> "closing"
                [] OTHER -> "closed",
    queue <- task_queue,
    active <- Busy,
    done <- finished,
    awaiting <- {c \in Clients : pc[c] # "user"}

ImplementsService == Service!SSpec

-----------------------------------------------------------------------------
(* Liveness.                                                               *)

\* Every started thread is scheduled, std::mutex does not starve one of its
\* contenders for ever (strong fairness), operate_by_thread() and the error
\* handler return, and threads get created or fail to.  Nobody is obliged to
\* call the pool, and no spurious wakeup ever needs to happen.
Fairness ==
    /\ \A w \in Workers : SF_vars(LoopStep(w))
    /\ \A c \in Clients :
          SF_vars(NotifyOne(c) \/ WaitReturns(c) \/ WaitBlocks(c))
    /\ WF_vars((\E w \in Workers : CreateThread(w)) \/ CreateThreadFails)
    /\ WF_vars(NotifyWorkers)
    /\ WF_vars(JoinThreads)

FairSpec == Spec /\ Fairness

\* Each enqueued task is finished, the ones still queued when the destructor
\* starts included: no notify_one() is lost for good.
TasksFinish == \A k \in Tasks : k \in Queued ~> k \in finished

\* wait_until_queue_empty() returns (there are finitely many tasks; an endless
\* stream of them may keep the pool busy for ever).
WaitsReturn == \A c \in Clients : pc[c] = "wait" ~> pc[c] = "user"

\* "thread_pool::~thread_pool(); destruct; expect success": once tidy() raised
\* the flag, the destructor joins every thread and returns.
DestructorReturns ==
    (phase = "marked" /\ \A w \in Workers : pc[w] # "unborn") ~> phase = "gone"

\* What the code does guarantee: the destructor returns when, as it starts to
\* join, no worker sits between a false predicate and its sleep.
DestructorReturnsOnceSeen ==
    (phase = "joining" /\ \A w \in Workers : pc[w] # "block" /\ w \notin task_waiters)
        ~> phase = "gone"

=============================================================================
