-------------------------- MODULE ThreadPoolProofs --------------------------
(***************************************************************************)
(* Proofs about ThreadPool for any set of workers, clients, tasks and      *)
(* handlers.  IInv is inductive; the safety properties follow from it.     *)
(***************************************************************************)
EXTENDS ThreadPool, FiniteSetTheorems, SequenceTheorems, TLAPS

Types ==
    /\ phase \in Phases
    /\ mutex \in Threads \cup {NoThread}
    /\ task_queue \in Seq(Tasks)
    /\ running_counter \in Nat
    /\ mark_as_destroy \in BOOLEAN
    /\ error_handler \in Handlers \cup {NoHandler}
    /\ task_waiters \subseteq Workers
    /\ pending_waiters \subseteq Clients
    /\ notifying \subseteq Threads
    /\ pc \in [Threads -> WorkerPC \cup ClientPC]
    /\ \A w \in Workers : pc[w] \in WorkerPC
    /\ \A c \in Clients : pc[c] \in ClientPC
    /\ task \in [Workers -> Tasks \cup {NoTask}]
    /\ finished \subseteq Tasks
    /\ awaited \in [Clients -> SUBSET Tasks]

\* mutex_ is owned between two steps exactly by a worker that evaluates the
\* predicate, is about to block, or runs the handler.
MutexInv ==
    /\ mutex # NoThread => mutex \in Workers
    /\ \A w \in Workers : pc[w] \in {"evaluate", "block", "handle"} <=> mutex = w

\* Only blocked threads are in a wait set, and nothing was queued since the
\* predicate of a worker about to block was false.
WaitInv ==
    /\ \A w \in task_waiters : pc[w] = "blocked"
    /\ \A c \in pending_waiters : pc[c] = "waiting"
    /\ \A w \in Workers : pc[w] = "block" => task_queue = <<>>

\* The flag follows the owner; nobody is inside a member function unless the
\* pool is open, and an open pool has neither unborn nor exited workers.
PhaseInv ==
    /\ mark_as_destroy <=> phase \in {"marked", "joining", "gone"}
    /\ notifying # {} => phase = "open"
    /\ phase # "open" => \A c \in Clients : pc[c] = "user"
    /\ \A w \in Workers :
          /\ pc[w] = "unborn" => phase # "open" /\ task_queue = <<>>
          /\ pc[w] = "exited" => mark_as_destroy /\ task_queue = <<>>
    /\ phase = "gone" => task_queue = <<>>

\* A worker is busy with a task from TakeTask to Finish.
BusyInv ==
    \A w \in Workers :
        task[w] = NoTask <=> pc[w] \notin {"operate", "catch", "handle"}

AwaitedInv == \A c \in Clients : awaited[c] \subseteq Enqueued

\* A task is queued once, or held by one worker, or finished.
PlaceInv ==
    /\ \A i, j \in 1 .. Len(task_queue) : task_queue[i] = task_queue[j] => i = j
    /\ \A v, w \in Workers : task[v] = task[w] /\ task[v] # NoTask => v = w
    /\ Queued \cap Busy = {}
    /\ (Queued \cup Busy) \cap finished = {}

IInv ==
    /\ Types
    /\ MutexInv
    /\ WaitInv
    /\ PhaseInv
    /\ BusyInv
    /\ AwaitedInv
    /\ PlaceInv
    /\ RunningExact
    /\ NoLostTask
    /\ NoMissedIdle

USE DEF Threads, WaitPredicate, MayExit


-----------------------------------------------------------------------------
(* Types.                                                                  *)

\* The elements of a queue of tasks are tasks.
LEMMA QueueElements ==
    ASSUME NEW q \in Seq(Tasks)
    PROVE  /\ ToSet(q) = {q[i] : i \in 1 .. Len(q)}
           /\ ToSet(q) \subseteq Tasks
           /\ q = <<>> => ToSet(q) = {}
<1>1. DOMAIN q = 1 .. Len(q)
  BY LenProperties
<1>2. \A i \in 1 .. Len(q) : q[i] \in Tasks
  BY ElementOfSeq
<1>3. q = <<>> => 1 .. Len(q) = {}
  BY EmptySeq
<1>4. QED
  BY <1>1, <1>2, <1>3 DEF ToSet

\* The first state is well typed.
LEMMA TypesInit == Init => Types
<1>1. Cardinality(Workers) \in Nat
  BY WorkersAssumption, FS_CardinalityType
<1>2. <<>> \in Seq(Tasks)
  BY EmptySeq
<1>3. QED
  BY <1>1, <1>2, ThreadsAssumption
     DEF Init, Types, Phases, WorkerPC, ClientPC

\* A worker that decrements running_counter_ is counted in it.
LEMMA CounterPositive ==
    ASSUME RunningExact, NEW w \in Workers, w \notin StandingBy
    PROVE  running_counter \in Nat \ {0}
<1>1. IsFiniteSet(Workers \ StandingBy)
  BY WorkersAssumption, FS_Difference
<1>2. Cardinality(Workers \ StandingBy) \in Nat
  BY <1>1, FS_CardinalityType
<1>3. Cardinality(Workers \ StandingBy) # 0
  BY <1>1, FS_EmptySet
<1>4. QED
  BY <1>2, <1>3 DEF RunningExact

\* Every step keeps the types.
LEMMA TypesNext ==
    ASSUME Types, RunningExact, BusyInv, [Next]_vars
    PROVE  Types'
<1> USE DEF Types
<1>1. ASSUME NEW w \in Workers, CreateThread(w) PROVE Types'
  BY <1>1, ThreadsAssumption DEF CreateThread, Phases, WorkerPC, ClientPC
<1>2. ASSUME MarkAsDestroy PROVE Types'
  BY <1>2 DEF MarkAsDestroy, Phases
<1>3. CASE NotifyWorkers
  BY <1>3 DEF NotifyWorkers, Phases
<1>4. CASE JoinThreads
  BY <1>4 DEF JoinThreads, Phases
<1>5. ASSUME NEW t \in Threads, NEW k \in Tasks, Push(t, k) PROVE Types'
  <2>1. Append(task_queue, k) \in Seq(Tasks)
    BY AppendProperties
  <2>2. QED
    BY <1>5, <2>1 DEF Push
<1>6. ASSUME NEW t \in Threads, NotifyOne(t) PROVE Types'
  BY <1>6 DEF NotifyOne
<1>7. ASSUME NEW c \in Clients, NEW h \in Handlers, SetErrorHandler(c, h)
      PROVE  Types'
  BY <1>7 DEF SetErrorHandler
<1>8. ASSUME NEW c \in Clients, WaitUntilQueueEmpty(c) PROVE Types'
  <2>1. Enqueued \subseteq Tasks
    BY QueueElements DEF Enqueued, Queued, Busy
  <2>2. QED
    BY <1>8, <2>1, ThreadsAssumption DEF WaitUntilQueueEmpty, WorkerPC, ClientPC
<1>9. ASSUME NEW c \in Clients, WaitReturns(c) PROVE Types'
  BY <1>9, ThreadsAssumption DEF WaitReturns, WorkerPC, ClientPC
<1>10. ASSUME NEW c \in Clients, WaitBlocks(c) PROVE Types'
  BY <1>10, ThreadsAssumption DEF WaitBlocks, WorkerPC, ClientPC
<1>11. ASSUME NEW w \in Workers, StandBy(w) PROVE Types'
  <2>1. running_counter \in Nat \ {0}
    BY <1>11, CounterPositive DEF StandBy, StandingBy
  <2>2. running_counter - 1 \in Nat
    BY <2>1
  <2>3. QED
    BY <1>11, <2>2, ThreadsAssumption DEF StandBy, WorkerPC, ClientPC
<1>12. ASSUME NEW w \in Workers, EvaluateFalse(w) PROVE Types'
  BY <1>12, ThreadsAssumption DEF EvaluateFalse, WorkerPC, ClientPC
<1>13. ASSUME NEW w \in Workers, Block(w) PROVE Types'
  BY <1>13, ThreadsAssumption DEF Block, WorkerPC, ClientPC
<1>14. ASSUME NEW w \in Workers, Relock(w) PROVE Types'
  BY <1>14, ThreadsAssumption DEF Relock, WorkerPC, ClientPC
<1>15. ASSUME NEW w \in Workers, TakeTask(w) PROVE Types'
  <2>1. Head(task_queue) \in Tasks /\ Tail(task_queue) \in Seq(Tasks)
    BY <1>15, HeadTailProperties DEF TakeTask
  <2>2. QED
    BY <1>15, <2>1, ThreadsAssumption DEF TakeTask, WorkerPC, ClientPC
<1>16. ASSUME NEW w \in Workers, Exit(w) PROVE Types'
  BY <1>16, ThreadsAssumption DEF Exit, WorkerPC, ClientPC
<1>17. ASSUME NEW w \in Workers, Finish(w), pc[w] \in {"operate", "catch", "handle"},
              mutex' \in {mutex, NoThread},
              UNCHANGED <<phase, task_queue, running_counter, mark_as_destroy,
                          error_handler, task_waiters, pending_waiters,
                          notifying, awaited>>
       PROVE  Types'
  <2>1. task[w] \in Tasks
    BY <1>17 DEF BusyInv
  <2>2. QED
    BY <1>17, <2>1, ThreadsAssumption DEF Finish, WorkerPC, ClientPC
<1>18. ASSUME NEW w \in Workers, OperateThrows(w) PROVE Types'
  BY <1>18, ThreadsAssumption DEF OperateThrows, WorkerPC, ClientPC
<1>19. ASSUME NEW w \in Workers, CallHandler(w) PROVE Types'
  BY <1>19, ThreadsAssumption DEF CallHandler, WorkerPC, ClientPC
<1>20. CASE SpuriousWakeup
  BY <1>20 DEF SpuriousWakeup
<1>21. CASE UNCHANGED vars
  BY <1>21 DEF vars
<1>22. QED
  BY <1>1, <1>2, <1>3, <1>4, <1>5, <1>6, <1>7, <1>8, <1>9, <1>10, <1>11,
     <1>12, <1>13, <1>14, <1>15, <1>16, <1>17, <1>18, <1>19, <1>20, <1>21
     DEF Next, OwnerStep, ClientStep, WorkerStep, LoopStep, CreateThreadFails,
         Destroy, OperateReturns, SkipHandler, HandlerReturns, Terminated

-----------------------------------------------------------------------------
(* Control: the mutex, the wait sets, the owner's phase and the tasks held. *)

\* Mutex, wait sets, phase and tasks agree at first.
LEMMA ControlInit == Init => MutexInv /\ WaitInv /\ PhaseInv /\ BusyInv
BY ThreadsAssumption DEF Init, MutexInv, WaitInv, PhaseInv, BusyInv

\* Every step keeps mutex, wait sets, phase and tasks in agreement.
LEMMA ControlNext ==
    ASSUME Types, MutexInv, WaitInv, PhaseInv, BusyInv, [Next]_vars
    PROVE  (MutexInv /\ WaitInv /\ PhaseInv /\ BusyInv)'
<1> DEFINE Control == MutexInv /\ WaitInv /\ PhaseInv /\ BusyInv
<1> USE ThreadsAssumption DEF Types, MutexInv, WaitInv, PhaseInv, BusyInv, Phases
<1>1. ASSUME NEW w \in Workers, CreateThread(w) PROVE Control'
  BY <1>1 DEF CreateThread
<1>2. CASE CreateThreadFails \/ Destroy
  BY <1>2 DEF CreateThreadFails, Destroy, MarkAsDestroy
<1>3. CASE NotifyWorkers
  BY <1>3 DEF NotifyWorkers
<1>4. CASE JoinThreads
  BY <1>4, WorkersAssumption DEF JoinThreads
<1>5. ASSUME NEW t \in Threads, NEW k \in Tasks, Push(t, k) PROVE Control'
  BY <1>5 DEF Push, CanCall
<1>6. ASSUME NEW t \in Threads, NotifyOne(t) PROVE Control'
  BY <1>6 DEF NotifyOne
<1>7. ASSUME NEW c \in Clients, NEW h \in Handlers, SetErrorHandler(c, h) PROVE Control'
  BY <1>7 DEF SetErrorHandler, CanCall
<1>8. ASSUME NEW c \in Clients, WaitUntilQueueEmpty(c) PROVE Control'
  BY <1>8 DEF WaitUntilQueueEmpty, CanCall
<1>9. ASSUME NEW c \in Clients, WaitReturns(c) PROVE Control'
  BY <1>9 DEF WaitReturns, CanEvaluate
<1>10. ASSUME NEW c \in Clients, WaitBlocks(c) PROVE Control'
  BY <1>10 DEF WaitBlocks, CanEvaluate
<1>11. ASSUME NEW w \in Workers, StandBy(w) PROVE Control'
  BY <1>11 DEF StandBy
<1>12. ASSUME NEW w \in Workers, EvaluateFalse(w) PROVE Control'
  BY <1>12 DEF EvaluateFalse
<1>13. ASSUME NEW w \in Workers, Block(w) PROVE Control'
  BY <1>13 DEF Block
<1>14. ASSUME NEW w \in Workers, Relock(w) PROVE Control'
  BY <1>14 DEF Relock
<1>15. ASSUME NEW w \in Workers, TakeTask(w) PROVE Control'
  <2>1. Head(task_queue) # NoTask
    BY <1>15, HeadTailProperties, TasksAssumption DEF TakeTask
  <2>2. QED
    BY <1>15, <2>1 DEF TakeTask
<1>16. ASSUME NEW w \in Workers, Exit(w) PROVE Control'
  BY <1>16 DEF Exit
<1>17. ASSUME NEW w \in Workers, OperateReturns(w) PROVE Control'
  BY <1>17 DEF OperateReturns, Finish
<1>18. ASSUME NEW w \in Workers, OperateThrows(w) PROVE Control'
  BY <1>18 DEF OperateThrows
<1>19. ASSUME NEW w \in Workers, CallHandler(w) PROVE Control'
  BY <1>19 DEF CallHandler
<1>20. ASSUME NEW w \in Workers, SkipHandler(w) PROVE Control'
  BY <1>20 DEF SkipHandler, Finish
<1>21. ASSUME NEW w \in Workers, HandlerReturns(w) PROVE Control'
  BY <1>21 DEF HandlerReturns, Finish
<1>22. CASE SpuriousWakeup
  BY <1>22 DEF SpuriousWakeup
<1>23. CASE UNCHANGED vars
  BY <1>23 DEF vars
<1>24. QED
  BY <1>1, <1>2, <1>3, <1>4, <1>5, <1>6, <1>7, <1>8, <1>9, <1>10, <1>11,
     <1>12, <1>13, <1>14, <1>15, <1>16, <1>17, <1>18, <1>19, <1>20, <1>21,
     <1>22, <1>23
     DEF Next, OwnerStep, ClientStep, WorkerStep, LoopStep, Terminated

-----------------------------------------------------------------------------
(* The counter: only StandBy, TakeTask and Exit move a worker into or out   *)
(* of stand_by(), and they count it.                                        *)

\* The counter is exact at first.
LEMMA CounterInit == Init => RunningExact
<1>1. Init => StandingBy = {}
  BY ThreadsAssumption DEF Init, StandingBy
<1>2. Workers \ {} = Workers
  OBVIOUS
<1>3. QED
  BY <1>1, <1>2 DEF Init, RunningExact

\* A worker that enters stand_by() leaves one running worker less.
LEMMA EnterStandBy ==
    ASSUME Types, RunningExact, NEW w \in Workers, w \notin StandingBy,
           running_counter' = running_counter - 1,
           StandingBy' = StandingBy \cup {w}
    PROVE  RunningExact'
<1>1. Workers \ StandingBy' = (Workers \ StandingBy) \ {w}
  OBVIOUS
<1>2. IsFiniteSet(Workers \ StandingBy)
  BY WorkersAssumption, FS_Difference
<1>3. Cardinality((Workers \ StandingBy) \ {w}) = Cardinality(Workers \ StandingBy) - 1
  BY <1>2, FS_RemoveElement
<1>4. QED
  BY <1>1, <1>3 DEF RunningExact

\* A worker that leaves stand_by() makes one running worker more.
LEMMA LeaveStandBy ==
    ASSUME Types, RunningExact, NEW w \in Workers, w \in StandingBy,
           running_counter' = running_counter + 1,
           StandingBy' = StandingBy \ {w}
    PROVE  RunningExact'
<1>1. Workers \ StandingBy' = (Workers \ StandingBy) \cup {w}
  OBVIOUS
<1>2. IsFiniteSet(Workers \ StandingBy)
  BY WorkersAssumption, FS_Difference
<1>3. Cardinality((Workers \ StandingBy) \cup {w}) = Cardinality(Workers \ StandingBy) + 1
  BY <1>2, FS_AddElement
<1>4. QED
  BY <1>1, <1>3 DEF RunningExact

\* Every step keeps the counter exact.
LEMMA CounterNext ==
    ASSUME Types, RunningExact, [Next]_vars
    PROVE  RunningExact'
<1> USE ThreadsAssumption DEF Types
<1>1. ASSUME running_counter' = running_counter, StandingBy' = StandingBy
      PROVE  RunningExact'
  BY <1>1 DEF RunningExact
<1>2. ASSUME NEW w \in Workers, StandBy(w) PROVE RunningExact'
  <2>1. w \notin StandingBy /\ StandingBy' = StandingBy \cup {w}
    BY <1>2 DEF StandBy, StandingBy
  <2>2. QED
    BY <1>2, <2>1, EnterStandBy DEF StandBy
<1>3. ASSUME NEW w \in Workers, TakeTask(w) \/ Exit(w) PROVE RunningExact'
  <2>1. w \in StandingBy /\ StandingBy' = StandingBy \ {w}
    BY <1>3 DEF TakeTask, Exit, StandingBy
  <2>2. QED
    BY <1>3, <2>1, LeaveStandBy DEF TakeTask, Exit
<1>4. CASE OwnerStep \/ SpuriousWakeup \/ UNCHANGED vars
  <2>1. running_counter' = running_counter /\ StandingBy' = StandingBy
    BY <1>4 DEF OwnerStep, CreateThread, CreateThreadFails, Destroy,
                MarkAsDestroy, NotifyWorkers, JoinThreads, SpuriousWakeup, vars,
                StandingBy
  <2>2. QED
    BY <2>1, <1>1
<1>5. ASSUME NEW t \in Threads,
             NotifyOne(t) \/ \E k \in Tasks : Push(t, k)
      PROVE  RunningExact'
  BY <1>5, <1>1 DEF NotifyOne, Push, StandingBy
<1>6. ASSUME NEW c \in Clients, ClientStep(c) PROVE RunningExact'
  <2>1. running_counter' = running_counter
    BY <1>6 DEF ClientStep, Push, NotifyOne, SetErrorHandler,
                WaitUntilQueueEmpty, WaitReturns, WaitBlocks
  <2>2. \A w \in Workers : pc'[w] = pc[w]
    BY <1>6 DEF ClientStep, Push, NotifyOne, SetErrorHandler,
                WaitUntilQueueEmpty, WaitReturns, WaitBlocks
  <2>3. QED
    BY <2>1, <2>2, <1>1 DEF StandingBy
<1>7. ASSUME NEW w \in Workers,
             \/ EvaluateFalse(w) \/ Block(w) \/ Relock(w) \/ OperateReturns(w)
             \/ OperateThrows(w) \/ CallHandler(w) \/ SkipHandler(w)
             \/ HandlerReturns(w)
      PROVE  RunningExact'
  <2>1. running_counter' = running_counter
    BY <1>7 DEF EvaluateFalse, Block, Relock, OperateReturns, OperateThrows,
                CallHandler, SkipHandler, HandlerReturns
  <2>2. StandingBy' = StandingBy
    BY <1>7 DEF EvaluateFalse, Block, Relock, OperateReturns, OperateThrows,
                CallHandler, SkipHandler, HandlerReturns, Finish, StandingBy
  <2>3. QED
    BY <2>1, <2>2, <1>1
<1>8. QED
  BY <1>2, <1>3, <1>4, <1>5, <1>6, <1>7
     DEF Next, WorkerStep, LoopStep, Terminated

-----------------------------------------------------------------------------
(* Wakeups.                                                                *)

\* No wakeup is missing at first.
LEMMA WakeupInit == Init => NoLostTask /\ NoMissedIdle
BY DEF Init, NoLostTask, NoMissedIdle

\* No step leaves a task in the queue with all workers asleep.
LEMMA NoLostTaskNext ==
    ASSUME Types, MutexInv, WaitInv, PhaseInv, PhaseInv', NoLostTask, [Next]_vars
    PROVE  NoLostTask'
<1> USE ThreadsAssumption, WorkersAssumption
    DEF Types, MutexInv, WaitInv, PhaseInv, NoLostTask
<1>1. CASE OwnerStep
  BY <1>1 DEF OwnerStep, CreateThread, CreateThreadFails, Destroy,
              MarkAsDestroy, NotifyWorkers, JoinThreads
<1>2. ASSUME NEW t \in Threads, NEW k \in Tasks, Push(t, k) PROVE NoLostTask'
  BY <1>2 DEF Push
<1>3. ASSUME NEW t \in Threads, NotifyOne(t) PROVE NoLostTask'
  <2>1. phase' = "open" /\ pc' = pc
    BY <1>3 DEF NotifyOne
  <2>2. \E w \in Workers : w \notin task_waiters'
    BY <1>3 DEF NotifyOne
  <2>3. QED
    BY <2>1, <2>2
<1>4. ASSUME NEW c \in Clients,
             \/ \E h \in Handlers : SetErrorHandler(c, h)
             \/ WaitUntilQueueEmpty(c) \/ WaitReturns(c) \/ WaitBlocks(c)
      PROVE  NoLostTask'
  BY <1>4 DEF SetErrorHandler, WaitUntilQueueEmpty, WaitReturns, WaitBlocks
<1>5. ASSUME NEW w \in Workers,
             \/ StandBy(w) \/ EvaluateFalse(w) \/ Relock(w) \/ OperateReturns(w)
             \/ OperateThrows(w) \/ CallHandler(w) \/ SkipHandler(w)
             \/ HandlerReturns(w)
      PROVE  NoLostTask'
  BY <1>5 DEF StandBy, EvaluateFalse, Relock, OperateReturns, OperateThrows,
              CallHandler, SkipHandler, HandlerReturns, Finish
<1>6. ASSUME NEW w \in Workers, Block(w) \/ Exit(w) PROVE NoLostTask'
  BY <1>6 DEF Block, Exit
<1>7. ASSUME NEW w \in Workers, TakeTask(w) PROVE NoLostTask'
  BY <1>7 DEF TakeTask
<1>8. CASE SpuriousWakeup
  BY <1>8 DEF SpuriousWakeup
<1>9. CASE UNCHANGED vars
  BY <1>9 DEF vars
<1>10. QED
  BY <1>1, <1>2, <1>3, <1>4, <1>5, <1>6, <1>7, <1>8, <1>9
     DEF Next, ClientStep, WorkerStep, LoopStep, Terminated

\* No step leaves a client asleep on an idle pool.
LEMMA NoMissedIdleNext ==
    ASSUME Types, NoMissedIdle, [Next]_vars
    PROVE  NoMissedIdle'
<1> USE DEF Types, NoMissedIdle, IsPending
<1>1. CASE OwnerStep
  BY <1>1 DEF OwnerStep, CreateThread, CreateThreadFails, Destroy,
              MarkAsDestroy, NotifyWorkers, JoinThreads
<1>2. ASSUME NEW t \in Threads, NEW k \in Tasks, Push(t, k) PROVE NoMissedIdle'
  <2>1. task_queue' # <<>>
    BY <1>2, AppendProperties DEF Push
  <2>2. QED
    BY <2>1
<1>3. ASSUME NEW t \in Threads, NotifyOne(t) PROVE NoMissedIdle'
  BY <1>3 DEF NotifyOne
<1>4. ASSUME NEW c \in Clients,
             \/ \E h \in Handlers : SetErrorHandler(c, h)
             \/ WaitUntilQueueEmpty(c) \/ WaitReturns(c) \/ WaitBlocks(c)
      PROVE  NoMissedIdle'
  BY <1>4 DEF SetErrorHandler, WaitUntilQueueEmpty, WaitReturns, WaitBlocks
<1>5. ASSUME NEW w \in Workers, StandBy(w) PROVE NoMissedIdle'
  BY <1>5 DEF StandBy
<1>6. ASSUME NEW w \in Workers, TakeTask(w) \/ Exit(w) PROVE NoMissedIdle'
  BY <1>6 DEF TakeTask, Exit
<1>7. ASSUME NEW w \in Workers,
             \/ EvaluateFalse(w) \/ Block(w) \/ Relock(w) \/ OperateReturns(w)
             \/ OperateThrows(w) \/ CallHandler(w) \/ SkipHandler(w)
             \/ HandlerReturns(w)
      PROVE  NoMissedIdle'
  BY <1>7 DEF EvaluateFalse, Block, Relock, OperateReturns, OperateThrows,
              CallHandler, SkipHandler, HandlerReturns
<1>8. CASE SpuriousWakeup
  BY <1>8 DEF SpuriousWakeup
<1>9. CASE UNCHANGED vars
  BY <1>9 DEF vars
<1>10. QED
  BY <1>1, <1>2, <1>3, <1>4, <1>5, <1>6, <1>7, <1>8, <1>9
     DEF Next, ClientStep, WorkerStep, LoopStep, Terminated

-----------------------------------------------------------------------------
(* The tasks: where each one is, and that none is forgotten.                *)

\* A pushed task is queued.
LEMMA QueuedAppend ==
    ASSUME NEW q \in Seq(Tasks), NEW k \in Tasks
    PROVE  ToSet(Append(q, k)) = ToSet(q) \cup {k}
<1>1. Len(q) \in Nat /\ Len(Append(q, k)) = Len(q) + 1
  BY AppendProperties, LenProperties
<1>2. \A i \in 1 .. Len(q) : Append(q, k)[i] = q[i]
  BY AppendProperties
<1>3. Append(q, k)[Len(q) + 1] = k
  BY AppendProperties
<1>4. 1 .. (Len(q) + 1) = (1 .. Len(q)) \cup {Len(q) + 1}
  BY <1>1
<1>5. Append(q, k) \in Seq(Tasks)
  BY AppendProperties
<1>6. DOMAIN q = 1 .. Len(q) /\ DOMAIN Append(q, k) = 1 .. Len(Append(q, k))
  BY <1>5, LenProperties
<1>7. QED
  BY <1>1, <1>2, <1>3, <1>4, <1>6 DEF ToSet

\* A popped task was queued, the others still are.
LEMMA QueuedTail ==
    ASSUME NEW q \in Seq(Tasks), q # <<>>
    PROVE  ToSet(q) = {Head(q)} \cup ToSet(Tail(q))
<1>1. Len(q) \in Nat \ {0} /\ Len(Tail(q)) = Len(q) - 1
  BY HeadTailProperties, EmptySeq
<1>2. \A i \in 1 .. Len(Tail(q)) : Tail(q)[i] = q[i + 1]
  BY HeadTailProperties
<1>3. Head(q) = q[1]
  OBVIOUS
<1>8. DOMAIN q = 1 .. Len(q) /\ DOMAIN Tail(q) = 1 .. Len(Tail(q))
  BY HeadTailProperties, LenProperties
<1>4. ToSet(q) \subseteq {Head(q)} \cup ToSet(Tail(q))
  <2>1. SUFFICES ASSUME NEW i \in 1 .. Len(q), i # 1
                 PROVE  \E j \in 1 .. Len(Tail(q)) : Tail(q)[j] = q[i]
    BY <1>3, <1>8 DEF ToSet
  <2>2. i - 1 \in 1 .. Len(Tail(q)) /\ (i - 1) + 1 = i
    BY <1>1, <2>1
  <2>3. QED
    BY <1>2, <2>2
<1>5. \A i \in 1 .. Len(Tail(q)) : i + 1 \in 1 .. Len(q)
  BY <1>1
<1>6. 1 \in 1 .. Len(q)
  BY <1>1
<1>7. QED
  BY <1>2, <1>3, <1>4, <1>5, <1>6, <1>8 DEF ToSet

\* The steps that move a task, in terms of the sets Queued, Busy, finished.
LEMMA PushMoves ==
    ASSUME Types, NEW t \in Threads, NEW k \in Tasks, Push(t, k)
    PROVE  /\ Queued' = Queued \cup {k}
           /\ Busy' = Busy
           /\ finished' = finished
BY QueuedAppend DEF Types, Push, Queued, Busy

\* Taking a task moves it from the queue to its worker.
LEMMA TakeMoves ==
    ASSUME Types, BusyInv, NEW w \in Workers, TakeTask(w)
    PROVE  /\ Head(task_queue) \in Tasks
           /\ Queued = {Head(task_queue)} \cup Queued'
           /\ Busy' = Busy \cup {Head(task_queue)}
           /\ finished' = finished
<1>1. Head(task_queue) \in Tasks
  BY HeadTailProperties DEF Types, TakeTask
<1>2. Queued = {Head(task_queue)} \cup Queued'
  BY QueuedTail DEF Types, TakeTask, Queued
<1>3. task[w] = NoTask
  BY DEF BusyInv, TakeTask
<1>4. QED
  BY <1>1, <1>2, <1>3, TasksAssumption DEF Types, TakeTask, Busy

\* The three ways a worker is done with its task.
Done(w) == OperateReturns(w) \/ SkipHandler(w) \/ HandlerReturns(w)

\* Finishing a task moves it from its worker to the finished ones.
LEMMA FinishMoves ==
    ASSUME Types, BusyInv, PlaceInv, NEW w \in Workers, Done(w)
    PROVE  /\ task[w] \in Busy
           /\ Queued' = Queued
           /\ Busy' = Busy \ {task[w]}
           /\ finished' = finished \cup {task[w]}
<1>1. task[w] # NoTask
  BY DEF BusyInv, Done, OperateReturns, SkipHandler, HandlerReturns
<1>2. Queued' = Queued
  BY DEF Done, OperateReturns, SkipHandler, HandlerReturns, Queued
<1>3. task' = [task EXCEPT ![w] = NoTask] /\ finished' = finished \cup {task[w]}
  BY DEF Done, OperateReturns, SkipHandler, HandlerReturns, Finish
<1>4. QED
  BY <1>1, <1>2, <1>3 DEF Types, PlaceInv, Busy

\* Every other step leaves the tasks where they are.
LEMMA TasksStay ==
    ASSUME [Next]_vars,
           ~ \E t \in Threads, k \in Tasks : Push(t, k),
           ~ \E w \in Workers : TakeTask(w) \/ Done(w)
    PROVE  UNCHANGED <<task_queue, task, finished>>
BY DEF Next, OwnerStep, ClientStep, WorkerStep, LoopStep, Terminated, CreateThread,
       CreateThreadFails, Destroy, MarkAsDestroy, NotifyWorkers, JoinThreads,
       NotifyOne, SetErrorHandler, WaitUntilQueueEmpty, WaitReturns,
       WaitBlocks, StandBy, EvaluateFalse, Block, Relock, Exit, OperateThrows,
       CallHandler, SpuriousWakeup, Done, vars

\* No step forgets a task that was enqueued.
LEMMA EnqueuedGrows ==
    ASSUME Types, BusyInv, PlaceInv, [Next]_vars
    PROVE  Enqueued \subseteq Enqueued'
<1>1. ASSUME NEW t \in Threads, NEW k \in Tasks, Push(t, k)
      PROVE  Enqueued \subseteq Enqueued'
  BY <1>1, PushMoves DEF Enqueued
<1>2. ASSUME NEW w \in Workers, TakeTask(w) PROVE Enqueued \subseteq Enqueued'
  BY <1>2, TakeMoves DEF Enqueued
<1>3. ASSUME NEW w \in Workers, Done(w) PROVE Enqueued \subseteq Enqueued'
  BY <1>3, FinishMoves DEF Enqueued
<1>4. CASE UNCHANGED <<task_queue, task, finished>>
  BY <1>4 DEF Enqueued, Queued, Busy
<1>5. QED
  BY <1>1, <1>2, <1>3, <1>4, TasksStay

\* Every step keeps the awaited tasks enqueued.
LEMMA AwaitedNext ==
    ASSUME Types, BusyInv, PlaceInv, AwaitedInv, [Next]_vars
    PROVE  AwaitedInv'
<1>1. Enqueued \subseteq Enqueued'
  BY EnqueuedGrows
<1>2. \A c \in Clients : awaited'[c] = awaited[c] \/ awaited'[c] \subseteq Enqueued
  BY DEF Types, Next, OwnerStep, ClientStep, WorkerStep, LoopStep, Terminated,
         CreateThread, CreateThreadFails, Destroy, MarkAsDestroy,
         NotifyWorkers, JoinThreads, Push, NotifyOne, SetErrorHandler,
         WaitUntilQueueEmpty, WaitReturns, WaitBlocks, StandBy, EvaluateFalse,
         Block, Relock, TakeTask, Exit, OperateReturns, OperateThrows,
         CallHandler, SkipHandler, HandlerReturns, SpuriousWakeup, vars
<1>3. QED
  BY <1>1, <1>2 DEF AwaitedInv

\* Every step keeps each task in one place.
LEMMA PlaceNext ==
    ASSUME Types, BusyInv, PlaceInv, [Next]_vars
    PROVE  PlaceInv'
<1>1. ASSUME NEW t \in Threads, NEW k \in Tasks, Push(t, k) PROVE PlaceInv'
  <2>1. k \notin Queued \cup Busy \cup finished /\ task' = task
    BY <1>1 DEF Push, Enqueued
  <2>2. \A i, j \in 1 .. Len(task_queue') : task_queue'[i] = task_queue'[j] => i = j
    <3>1. /\ Len(task_queue) \in Nat
          /\ Len(task_queue') = Len(task_queue) + 1
          /\ \A i \in 1 .. Len(task_queue) : task_queue'[i] = task_queue[i]
          /\ task_queue'[Len(task_queue) + 1] = k
      BY <1>1, AppendProperties, LenProperties DEF Push, Types
    <3>2. \A i \in 1 .. Len(task_queue) : task_queue[i] # k
      BY <2>1, QueueElements DEF Types, Queued
    <3>3. \A i \in 1 .. Len(task_queue') :
             i \in 1 .. Len(task_queue) \/ i = Len(task_queue) + 1
      BY <3>1
    <3>4. QED
      BY <3>1, <3>2, <3>3 DEF PlaceInv
  <2>3. QED
    BY <1>1, <2>1, <2>2, PushMoves DEF PlaceInv
<1>2. ASSUME NEW w \in Workers, TakeTask(w) PROVE PlaceInv'
  <2> DEFINE h == Head(task_queue)
  <2>1. task' = [task EXCEPT ![w] = h]
    BY <1>2 DEF TakeTask
  <2>2. /\ Len(task_queue) \in Nat \ {0}
        /\ Len(task_queue') = Len(task_queue) - 1
        /\ \A i \in 1 .. Len(task_queue') : task_queue'[i] = task_queue[i + 1]
        /\ h = task_queue[1]
    BY <1>2, HeadTailProperties, EmptySeq DEF TakeTask, Types
  <2>3. \A i \in 1 .. Len(task_queue') :
           i + 1 \in 1 .. Len(task_queue) /\ i + 1 # 1
    BY <2>2
  <2>4. \A i, j \in 1 .. Len(task_queue') : task_queue'[i] = task_queue'[j] => i = j
    <3>1. \A i, j \in 1 .. Len(task_queue') : i + 1 = j + 1 => i = j
      BY <2>2
    <3>2. QED
      BY <2>2, <2>3, <3>1 DEF PlaceInv
  <2>5. h \notin Queued'
    <3>1. 1 \in 1 .. Len(task_queue)
      BY <2>2
    <3>2. \A i \in 1 .. Len(task_queue') : task_queue'[i] # h
      BY <2>2, <2>3, <3>1 DEF PlaceInv
    <3>3. task_queue' \in Seq(Tasks)
      BY <1>2, HeadTailProperties DEF TakeTask, Types
    <3>4. QED
      BY <3>2, <3>3, QueueElements DEF Queued
  <2>6. h \in Queued
    BY <1>2, TakeMoves
  <2>7. \A v \in Workers : task[v] # h
    BY <1>2, <2>6, TakeMoves, TasksAssumption DEF PlaceInv, Busy
  <2>8. \A u, v \in Workers : task'[u] = task'[v] /\ task'[u] # NoTask => u = v
    BY <2>1, <2>7 DEF Types, PlaceInv
  <2>9. QED
    BY <1>2, <2>4, <2>5, <2>8, TakeMoves DEF PlaceInv
<1>3. ASSUME NEW w \in Workers, Done(w) PROVE PlaceInv'
  <2>1. task_queue' = task_queue
    BY <1>3 DEF Done, OperateReturns, SkipHandler, HandlerReturns
  <2>2. task' = [task EXCEPT ![w] = NoTask]
    BY <1>3 DEF Done, OperateReturns, SkipHandler, HandlerReturns, Finish
  <2>3. \A u, v \in Workers : task'[u] = task'[v] /\ task'[u] # NoTask => u = v
    BY <2>2 DEF Types, PlaceInv
  <2>4. QED
    BY <1>3, <2>1, <2>3, FinishMoves DEF PlaceInv
<1>4. CASE UNCHANGED <<task_queue, task, finished>>
  BY <1>4 DEF PlaceInv, Queued, Busy
<1>5. QED
  BY <1>1, <1>2, <1>3, <1>4, TasksStay

-----------------------------------------------------------------------------
(* The inductive invariant and what follows from it.                        *)

\* The invariant holds at first.
LEMMA InvInit == Init => IInv
<1> SUFFICES ASSUME Init PROVE IInv
  OBVIOUS
<1>1. AwaitedInv
  BY DEF Init, AwaitedInv
<1>2. Queued = {} /\ Busy = {}
  BY QueueElements, EmptySeq DEF Init, Queued, Busy
<1>3. PlaceInv
  BY <1>2 DEF Init, PlaceInv
<1>4. QED
  BY <1>1, <1>3, TypesInit, ControlInit, CounterInit, WakeupInit DEF IInv

\* Every step keeps the invariant.
LEMMA InvNext == IInv /\ [Next]_vars => IInv'
BY TypesNext, ControlNext, CounterNext, NoLostTaskNext, NoMissedIdleNext,
   AwaitedNext, PlaceNext DEF IInv

\* IInv holds in every state of the pool.
THEOREM Invariance == Spec => []IInv
BY InvInit, InvNext, PTL DEF Spec

\* Type correctness; in particular running_counter_ never leaves
\* 0 .. thread_number, whatever tasks throw.
THEOREM TypeCorrect == Spec => []TypeOK
<1>1. IInv => TypeOK
  <2>1. IInv => running_counter \in Nat /\ running_counter <= Cardinality(Workers)
    BY WorkersAssumption, FS_Subset, FS_CardinalityType
       DEF IInv, Types, RunningExact
  <2>2. Cardinality(Workers) \in Nat
    BY WorkersAssumption, FS_CardinalityType
  <2>3. IInv => running_counter \in 0 .. Cardinality(Workers)
    BY <2>1, <2>2
  <2>4. QED
    BY <2>3 DEF IInv, Types, TypeOK
<1>2. QED
  BY <1>1, Invariance, PTL

\* running_counter_ counts exactly the workers outside stand_by().
THEOREM CounterCorrect == Spec => []RunningExact
<1>1. IInv => RunningExact
  BY DEF IInv
<1>2. QED
  BY <1>1, Invariance, PTL

\* A queued task always has an awake worker, or a notify_one() on its way.
THEOREM TaskWakeup == Spec => []NoLostTask
<1>1. IInv => NoLostTask
  BY DEF IInv
<1>2. QED
  BY <1>1, Invariance, PTL

\* An idle pool has no client asleep in wait_until_queue_empty().
THEOREM IdleWakeup == Spec => []NoMissedIdle
<1>1. IInv => NoMissedIdle
  BY DEF IInv
<1>2. QED
  BY <1>1, Invariance, PTL

\* The assertions at the end of thread_loop() and tidy() never fail.
THEOREM Drained == Spec => []DrainedAtExit
<1>1. IInv => DrainedAtExit
  BY DEF IInv, PhaseInv, DrainedAtExit
<1>2. QED
  BY <1>1, Invariance, PTL

\* A pool with running_counter_ = 0 has no busy worker.
LEMMA IdleMeansUnoccupied ==
    ASSUME IInv, running_counter = 0
    PROVE  Busy = {}
<1>1. IsFiniteSet(Workers \ StandingBy)
  BY WorkersAssumption, FS_Difference
<1>2. Workers \ StandingBy = {}
  BY <1>1, FS_EmptySet DEF IInv, RunningExact
<1>3. QED
  BY <1>2 DEF IInv, BusyInv, StandingBy, Busy

\* wait_until_queue_empty() returns only after everything enqueued before the
\* call is finished.
THEOREM WaitCorrect == Spec => WaitCoversTasks
<1> DEFINE A == \A c \in Clients :
                   pc[c] # "user" /\ pc'[c] = "user" =>
                       awaited[c] \cup Enqueued \subseteq finished
<1>1. ASSUME IInv, [Next]_vars, NEW c \in Clients, pc[c] # "user", pc'[c] = "user"
      PROVE  awaited[c] \cup Enqueued \subseteq finished
  <2>1. WaitReturns(c)
    BY <1>1, ThreadsAssumption
       DEF IInv, Types, Next, OwnerStep, ClientStep, WorkerStep, LoopStep,
           Terminated, CreateThread, CreateThreadFails, Destroy,
           MarkAsDestroy, NotifyWorkers, JoinThreads, Push, NotifyOne,
           SetErrorHandler, WaitUntilQueueEmpty, WaitReturns, WaitBlocks,
           StandBy, EvaluateFalse, Block, Relock, TakeTask, Exit,
           OperateReturns, OperateThrows, CallHandler, SkipHandler,
           HandlerReturns, Finish, SpuriousWakeup, vars
  <2>2. running_counter = 0 /\ task_queue = <<>>
    BY <2>1 DEF WaitReturns, IsPending
  <2>3. Busy = {} /\ Queued = {}
    BY <1>1, <2>2, IdleMeansUnoccupied, QueueElements DEF IInv, Types, Queued
  <2>4. QED
    BY <1>1, <2>3 DEF IInv, AwaitedInv, Enqueued
<1>2. IInv /\ [Next]_vars => [A]_vars
  BY <1>1
<1>3. QED
  BY <1>2, Invariance, PTL DEF Spec, WaitCoversTasks

\* The error handler is neither replaced nor run twice at a time.
THEOREM HandlerCorrect == Spec => HandlerUndisturbed
<1> DEFINE A == \A w \in Workers :
                   pc[w] = "handle" /\ pc'[w] = "handle" =>
                       /\ error_handler' = error_handler
                       /\ \A v \in Workers \ {w} : pc'[v] # "handle"
<1>1. ASSUME IInv, IInv', [Next]_vars, NEW w \in Workers,
             pc[w] = "handle", pc'[w] = "handle"
      PROVE  /\ error_handler' = error_handler
             /\ \A v \in Workers \ {w} : pc'[v] # "handle"
  <2>1. mutex = w /\ mutex' = w
    BY <1>1 DEF IInv, MutexInv
  <2>2. \A v \in Workers \ {w} : pc'[v] # "handle"
    BY <1>1, <2>1 DEF IInv, MutexInv
  <2>3. mutex # NoThread
    BY <2>1, ThreadsAssumption
  <2>4. error_handler' = error_handler
    BY <1>1, <2>3
       DEF Next, OwnerStep, ClientStep, WorkerStep, LoopStep, Terminated,
           CreateThread, CreateThreadFails, Destroy, MarkAsDestroy,
           NotifyWorkers, JoinThreads, Push, NotifyOne, SetErrorHandler,
           WaitUntilQueueEmpty, WaitReturns, WaitBlocks, StandBy,
           EvaluateFalse, Block, Relock, TakeTask, Exit, OperateReturns,
           OperateThrows, CallHandler, SkipHandler, HandlerReturns,
           SpuriousWakeup, vars
  <2>5. QED
    BY <2>2, <2>4
<1>2. IInv /\ IInv' /\ [Next]_vars => [A]_vars
  BY <1>1
<1>3. QED
  BY <1>2, Invariance, PTL DEF Spec, HandlerUndisturbed

-----------------------------------------------------------------------------
(* The pool implements TaskService.                                         *)

\* The clients inside wait_until_queue_empty().
Awaiting == {c \in Clients : pc[c] # "user"}

\* The first state is one of TaskService.
LEMMA ServiceInit == Init => Service!SInit
BY ThreadsAssumption DEF Init, Service!SInit, Busy

\* A step that moves no task, no client and not the owner's phase is a stutter.
LEMMA ServiceStutter ==
    ASSUME UNCHANGED <<phase, task_queue, task, finished>>, Awaiting' = Awaiting
    PROVE  UNCHANGED Service!svars
BY DEF Service!svars, Busy, Awaiting

\* Every step is a step of TaskService or a stutter.
LEMMA ServiceNext ==
    ASSUME IInv, IInv', [Next]_vars
    PROVE  [Service!SNext]_(Service!svars)
<1> USE ThreadsAssumption
<1>1. ASSUME NEW w \in Workers, CreateThread(w) PROVE UNCHANGED Service!svars
  <2>1. Awaiting' = Awaiting
    BY <1>1 DEF IInv, Types, CreateThread, Awaiting
  <2>2. QED
    BY <1>1, <2>1 DEF CreateThread, Service!svars, Busy, Awaiting
<1>2. CASE CreateThreadFails \/ Destroy
  <2>1. Awaiting = {}
    <3>1. CASE Destroy
      BY <3>1 DEF Destroy, Awaiting
    <3>2. CASE CreateThreadFails
      BY <3>2 DEF CreateThreadFails, Awaiting, IInv, PhaseInv
    <3>3. QED
      BY <1>2, <3>1, <3>2
  <2>2. Service!SClose
    BY <1>2, <2>1
       DEF Service!SClose, CreateThreadFails, Destroy, MarkAsDestroy,
           Awaiting, Busy
  <2>3. QED
    BY <2>2 DEF Service!SNext
<1>3. CASE NotifyWorkers
  BY <1>3 DEF NotifyWorkers, Service!svars, Busy
<1>4. CASE JoinThreads
  <2>1. task_queue = <<>>
    BY <1>4 DEF JoinThreads, IInv, PhaseInv
  <2>2. Busy = {}
    BY <1>4 DEF JoinThreads, IInv, BusyInv, Busy
  <2>3. Service!SClosed
    BY <1>4, <2>1, <2>2 DEF JoinThreads, Service!SClosed, Busy
  <2>4. QED
    BY <2>3 DEF Service!SNext
<1>5. ASSUME NEW t \in Threads, NEW k \in Tasks, Push(t, k)
      PROVE  Service!SNext
  <2>1. Service!SEnqueue(k)
    BY <1>5
       DEF Push, CanCall, Enqueued, Queued, ToSet, Service!ToSet,
           Service!SEnqueue, Busy
  <2>2. QED
    BY <2>1 DEF Service!SNext
<1>6. ASSUME NEW w \in Workers, TakeTask(w) PROVE Service!SNext
  <2>1. Busy' = Busy \cup {Head(task_queue)}
    BY <1>6, TakeMoves DEF IInv
  <2>2. Awaiting' = Awaiting
    BY <1>6 DEF IInv, Types, TakeTask, Awaiting
  <2>3. Service!SBegin
    BY <1>6, <2>1, <2>2 DEF TakeTask, Service!SBegin, Awaiting
  <2>4. QED
    BY <2>3 DEF Service!SNext
<1>7. ASSUME NEW w \in Workers, Done(w) PROVE Service!SNext
  <2>1. /\ task[w] \in Busy
        /\ Busy' = Busy \ {task[w]}
        /\ finished' = finished \cup {task[w]}
    BY <1>7, FinishMoves DEF IInv
  <2>2. Awaiting' = Awaiting
    BY <1>7 DEF IInv, Types, Done, OperateReturns, SkipHandler,
                HandlerReturns, Finish, Awaiting
  <2>3. UNCHANGED <<phase, task_queue>>
    BY <1>7 DEF Done, OperateReturns, SkipHandler, HandlerReturns
  <2>4. task[w] \in Tasks
    BY <2>1 DEF IInv, Types, Busy
  <2>5. Service!SFinish(task[w])
    BY <2>1, <2>2, <2>3 DEF Service!SFinish, Awaiting
  <2>6. QED
    BY <2>4, <2>5 DEF Service!SNext
<1>8. ASSUME NEW c \in Clients, WaitUntilQueueEmpty(c) PROVE [Service!SNext]_(Service!svars)
  <2>1. Awaiting' = Awaiting \cup {c} /\ c \notin Awaiting
    BY <1>8 DEF IInv, Types, ClientPC, WaitUntilQueueEmpty, CanCall, Awaiting
  <2>2. Service!SCallWait(c)
    BY <1>8, <2>1
       DEF WaitUntilQueueEmpty, CanCall, Service!SCallWait, Awaiting, Busy
  <2>3. QED
    BY <2>2 DEF Service!SNext
<1>9. ASSUME NEW c \in Clients, WaitReturns(c) PROVE Service!SNext
  <2>1. Awaiting' = Awaiting \ {c} /\ c \in Awaiting
    BY <1>9 DEF IInv, Types, WaitReturns, CanEvaluate, Awaiting
  <2>2. task_queue = <<>> /\ Busy = {}
    BY <1>9, IdleMeansUnoccupied DEF WaitReturns, IsPending
  <2>3. Service!SReturnFromWait(c)
    BY <1>9, <2>1, <2>2
       DEF WaitReturns, Service!SReturnFromWait, Awaiting, Busy
  <2>4. QED
    BY <2>3 DEF Service!SNext
<1>10. ASSUME NEW c \in Clients, WaitBlocks(c) PROVE UNCHANGED Service!svars
  <2>1. Awaiting' = Awaiting
    BY <1>10 DEF IInv, Types, WaitBlocks, CanEvaluate, Awaiting
  <2>2. QED
    BY <1>10, <2>1, ServiceStutter DEF WaitBlocks
<1>11. ASSUME NEW w \in Workers,
              \/ StandBy(w) \/ EvaluateFalse(w) \/ Block(w) \/ Relock(w)
              \/ Exit(w) \/ OperateThrows(w) \/ CallHandler(w)
       PROVE  UNCHANGED Service!svars
  <2>1. Awaiting' = Awaiting
    BY <1>11 DEF IInv, Types, StandBy, EvaluateFalse, Block, Relock, Exit,
                 OperateThrows, CallHandler, Awaiting
  <2>2. QED
    BY <1>11, <2>1, ServiceStutter
       DEF StandBy, EvaluateFalse, Block, Relock, Exit, OperateThrows,
           CallHandler
<1>12. ASSUME NEW t \in Threads,
              NotifyOne(t) \/ \E h \in Handlers : SetErrorHandler(t, h)
       PROVE  UNCHANGED Service!svars
  BY <1>12, ServiceStutter DEF NotifyOne, SetErrorHandler, Awaiting
<1>13. CASE SpuriousWakeup \/ UNCHANGED vars
  BY <1>13, ServiceStutter DEF SpuriousWakeup, vars, Awaiting
<1>14. QED
  BY <1>1, <1>2, <1>3, <1>4, <1>5, <1>6, <1>7, <1>8, <1>9, <1>10, <1>11,
     <1>12, <1>13
     DEF Next, OwnerStep, ClientStep, WorkerStep, LoopStep, Done, Terminated

\* thread_pool refines TaskService: tasks begin in FIFO order, exactly once,
\* and neither wait_until_queue_empty() nor the destructor ends early.
THEOREM ServiceImplemented == Spec => ImplementsService
BY ServiceInit, ServiceNext, Invariance, PTL
   DEF Spec, ImplementsService, Service!SSpec

=============================================================================
