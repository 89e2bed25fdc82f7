# Verification of logency

TLA+ models, TLC runs and TLAPS proofs about
[logency](../src/readme.md), an asynchronous C++17 logging library. Paths such as
`logger.hpp:168` are relative to `src/include/logency/`; `doc/` and `test/` are
the repository's.

## 1. The system

A user creates a `manager`, connects loggers to sinks and calls `log()`. The
message travels through three hands:

    log() on the user's thread
      -> dispatcher queue --token in the thread pool--> dispatcher::dispatch() on a worker
      -> sink queue       --token in the thread pool--> sink::sink_message()   on a worker
      -> sink module (file, console, stream)

| Component (source) | State it keeps | Operations | What makes it correct |
|---|---|---|---|
| `thread_pool` (`detail/thread/thread_pool.hpp`) | task queue, count of running workers, destroy flag, error handler, one mutex, two condition variables | `enqueue`, `set_error_handler`, `wait_until_queue_empty`, worker loop, constructor, destructor | tasks begin in FIFO order and once; no wakeup is lost; a wait ends only when all before it is done; the destructor drains and returns |
| `blocking_queue`, `blocking_pair_queue` | buffer, mutex | `enqueue`, `enqueue_bulk`, `try_swap_bulk`, `reserve` | each operation is one critical section and reports whether the buffer was empty |
| `dispatcher` (`dispatcher.hpp`) | pair queue, two trays, operate mutex, weak pointer to the pool | `enqueue`, `dispatch` | no message is left without a token; groups of one logger stay in order; a failure costs one group |
| `logger` (`logger.hpp`) | connected sinks, filter, error handler, destroy flag | `log`, `add_sink`, `delete_sink`, `dispatch_message_to_sinks`, `mark_as_destroy` | messages go to the sinks connected at dispatch; a deleted logger accepts nothing more but what it accepted arrives |
| `sink` (`sink.hpp`) | queue, tray, tray mutex, filter, flusher, module | `log`, `sink_message` | accepted messages reach the module once, in order, in spite of exceptions |
| `manager` (`manager.hpp`) | two name tables, error handler, three mutexes, the shared pointers to pool and dispatcher | `new_*`, `find_*`, `delete_*`, `set_error_handler`, `wait_until_idle`, destructor | names are unique; every logger has the current error handler; no two mutexes are waited for in a circle; the destructor processes what was logged |
| rotating file module (`sink_module/rotation_file_module.hpp`) | open file, its size, the names on disk | `log_message`, `flush`, constructor | at most `file_count` files, bounded by `file_size` in code units; nothing but the oldest file is ever overwritten |
| file module, `basic_file` | an `fstream` | open, write, flush, close | what was written reaches the file, or an exception says that it did not |
| console modules (`console_module.hpp`, `color_console_module_base.hpp`, `ansi_color_console_module.hpp`, `win32_color_console_module.hpp`) | stream, the console's attribute and mode, the colours set last, a global console mutex | `log_message`, `flush`, `set_color_mode`, constructor, destructor | a message is shown whole and in its colours whatever other modules write; the console is given back as it was; both on conditions that the code leaves to its user |
| ostream and null modules | a stream | `log_message`, `flush` | - |
| message types and formatting (`message/`) | level, content, time of a message | `format`, `format_to_first/second/third` | the parts a coloured module writes are the text a plain one writes |
| exceptions, platform headers | none | - | - |

They interact by calls (manager to all, logger to dispatcher and sink), by the
tokens in the pool, which hold a `shared_ptr` to the dispatcher or the sink, and
by the `weak_ptr` from dispatcher and sinks back to the pool.

What is hard here: notifications sent after an unlock (`thread_pool.hpp:107`) or
without the mutex at all (`thread_pool.hpp:196-208`); tokens posted only by
the message that finds a queue empty, and posted late (`dispatcher.hpp:190-195`,
`sink.hpp:217-219`); exceptions of filters, modules and flushers, which leave a
half processed tray (`dispatcher.hpp:166-180`, `sink.hpp:330-342`);
reconfiguration and deletion while messages are under way; an idle test that
asks the pool and not the queues; handlers that run under a mutex and call back;
copies of a handler kept under different mutexes; teardown with threads still at
work; one terminal that several modules change and restore. The
hazards in `PROJECT.json` list these places one by one with the properties that
watch them, or the reason why none does.

## 2. The modules

| Module | Role |
|---|---|
| `ThreadPool` | `thread_pool` at the grain of its mutex, condition variables and unlocked flag |
| `TaskService` | abstract: a FIFO of tasks, a wait that ends at an idle instant, a destructor that drains |
| `MCThreadPool` | instances for TLC |
| `ThreadPoolProofs` | the inductive invariant and the theorems about `ThreadPool` |
| `Pipeline` | producers, loggers, dispatcher and sinks over the pool that `TaskService` promises |
| `MessageOrder` | abstract: one order of accepted messages, of which each sink writes a subsequence |
| `MCPipeline` | instances for TLC |
| `PipelineProofs` | the token invariant of `Pipeline` and the theorems that follow |
| `PipelineOrderProofs` | what becomes of each message: order, losses, the refinement of `MessageOrder` |
| `RotationFile` | `rotation_file_module` over `basic_file`, with failing calls, crashes and restarts |
| `LogWindow` | abstract: a log that grows at its newest end and loses messages at its ends only |
| `MCRotationFile` | instances for TLC |
| `RotationFileProofs` | size and overwriting of the rotated files, the refinement of `LogWindow` |
| `Registry` | the manager's tables, the error handlers and the mutexes around both |
| `MCRegistry` | an instance for TLC |
| `RegistryProofs` | names, handlers and freedom from circular waiting |
| `Lifecycle` | `~manager()` while users log: shared and weak pointers, tokens, the end of the workers |
| `MCLifecycle` | an instance for TLC |
| `LifecycleProofs` | what is written before the end, and that the rest is reported |
| `MessageText` | the text of a message, whole and in parts |
| `Colors` | `console_color`, escape codes and attribute words |
| `Console` | the modules that write to one console |
| `MCConsole` | instances for TLC |
| `ConsoleProofs` | colours, whole lines, no raw codes, and the console given back |
| `SequenceLemmas` | facts about sequences that several proofs use |

### ThreadPool

A step is one critical section or one piece of code between two accesses to
shared state. `pc` says where a thread is: a worker in `thread_loop()` and
`stand_by()`, a client in the user's code or in `wait_until_queue_empty()`. A
condition variable is its wait set (`task_waiters`, `pending_waiters`):
`notify_all` empties it, `notify_one` removes any one member, and a thread that
is off the set has to take the mutex and test the predicate again.
`SpuriousWakeup` removes a member at any time.

Most critical sections are a single step that needs a free mutex. The worker's
is not: the flag and the `notify_all` of the destructor do not take the mutex, so
`StandBy`, `EvaluateFalse` and `Block` are separate steps that keep `mutex` owned
in between. `CallHandler` also keeps it, because the user's error handler may
take its time there. `Push` and `NotifyOne` are separate since `enqueue()`
notifies after the unlock; a task that runs may itself call `enqueue()`, as the
dispatcher's does. `finished` and `awaited` are history variables.
`CreateThreadFails` is the constructor's `catch`. A `Destroy` needs all member
functions to have returned, as destruction through the last `shared_ptr` does.

### Pipeline

The dispatcher and the sinks follow one protocol: a blocking queue, a tray that
is swapped with it, a mutex that a worker holds while it operates, and a token
posted when the queue was empty. The model calls them *stations* and has the
token, lock, swap and release steps once; what differs is how a tray is
processed:

* the dispatcher hands each leading group of messages of one logger
  (`StartGroup`, `EndGroup`) to the sinks of the logger in turn (`NextSink`), in
  runs that the sink's filter accepts (`LogRun`); the sink's token is posted in a
  step of its own (`NotifySink`). A throwing filter is `DispatchThrows`;
* a sink writes message after message (`WriteMessage`); a throwing module or
  flusher is `WriteThrows`.

The code keeps a fully processed tray until the end and erases a prefix after a
failure; the model's tray is the part not processed yet, which is the same to
every reader, because all of them hold the station's mutex. The two buffers of
the pair queue are one sequence of messages, each with its logger (`Via`). The
pool is reduced to its FIFO of tokens and its idle test, which is what
`ThreadPool` is proved to implement (`ServiceImplemented`).
`accepted`, `received` and `written` are history variables.

### RotationFile

A step is one call that reaches the file system, because each may fail and the
process may end between any two: the first opening and closing
(`Construct`, `StartRotation`), each turn of the loop in `rotate_file()`
(`Rename`), the reopening (`OpenFile`), the write and the flush. `disk` maps the
number of a name (0 is the file, 1 and up its archives) to its messages and its
two sizes.
`buffer` is what the `fstream` holds back: `Spill` may hand it to the system at
any time, a crash loses it, and `AfterClose` lets a close fail silently, as
the destructor of a stream does. A stream that went bad stays bad. `Failing`
names the calls that may fail. `WriteNull` is the undefined dereference of a
null `file_`; the outcome modelled is the end of the process. Asserts are
compiled out. A write that fails leaves its message in the buffer completely or
not at all; torn messages are left out.

The code has two measures of size and adds them up: `log_message()` counts code
units (`SizeOf`, `formatted_message.size()`), `get_file_size()` the bytes of the
file (`BytesOf`). The stream is opened in text mode, which turns each line end
into two bytes on Windows, and a `wchar_t` may take several. The model keeps both;
a message has at least one byte and at most `BytesPerUnit` bytes for each unit.

### Registry

The manager's tables, with one action per critical section and `owner` for the
mutexes that are held across several: `logger_map_mutex_` during `new_logger()`,
`error_handler_mutex_` of the manager during `set_error_handler()`, and the
logger's and the pool's own one while a handler runs. `new_logger()` is
`RegisterLogger`, `ReadHandler`, `GiveHandler`; `set_error_handler()` is
`BeginSetHandler`, `AssignHandler`, `SetPoolHandler`, a `VisitLogger` for each
logger, `EndWalk`. Nothing keeps the two apart. What each reads of the other's
data is a data race; the outcomes modelled are the old handler, the new one, or a
torn one (`HandlerReads`), and a walk that ends early (`EndWalk`). The history
variable `raced` marks a `set_error_handler()` during which the table changed or
a logger was being created; `HandlerPropagatedUnlessRaced` states what holds
otherwise, `HandlerPropagated` what the documentation says.

A handler runs after an exception in `log()` (`LogFails`, `CatchError`) or in a
task (`TaskFails`), under the mutex of the logger or of the pool, and may look up
or delete a logger meanwhile (`FindLogger`, `DeleteInHandler`), which takes
`logger_map_mutex_`. It does not log and does not set handlers: both take
the mutex under which it runs. `MaxObjects` bounds how many loggers and sinks
are created. The sinks' operations are one critical section each; a logger keeps
a sink the manager has deleted, so two of its sinks may have one name
(`FindSinkLocation` is the first).

### Lifecycle

The end of a manager with one logger and one sink. `poolRefs` is the set of
threads with a `shared_ptr` to the pool; the thread that takes the last away
(`ReleasePool`) becomes `closer` and runs `~thread_pool()`. For a worker that is
`join()` on itself, which throws in a destructor (`selfJoin`; the program ends).
`DispatcherAlive` follows from who has a pointer to the dispatcher: the manager, a
`log()` in progress, a token. `UserLocksPool` and `WorkerLocksPool` are
`weak_ptr::lock()` with the exception when the pool has gone. `overlap` marks
that a `log()` was in progress when `~manager()` began, or got past the mark
afterwards.

What a station does is in `Pipeline`, how the pool waits and wakes in
`ThreadPool`; here a dispatch hands over its batch in one step, filters and
modules do not throw.

### MessageText, Colors, Console

`MessageText` has the three ready-made message types as sequences of pieces
(literals, names and numbers); each type writes its text once as a whole and once
in three parts, by different code. `Colors` has the two ways to set a colour: the
escape codes of the ANSI module, computed from the colours it set last, and the
attribute word of the win32 module, computed from the one it found. `Interpret` is
what a terminal makes of a code (external).

`Console` is one console of Windows with a stream and any modules. A coloured
module writes under the global mutex, part by part (`BeforeLog`, then
`SetPartColor` and `WritePart` three times, `AfterLog`); `console_module` writes
under the mutex in one go, `ostream_module` without it, `flush()` of the coloured
modules without it, too. `buffer` is what the stream holds back: the win32 module
changes the console at once, the text and the ANSI codes wait in the buffer. The constructors
read the console's mode or attribute in one step (`Probe`) and write it back in
another (`Instantiate`), with no mutex; `set_color_mode()` is not synchronised with
`log_message()`. `disturbed` and `disorder` mark the uses for which the code
offers no protection: parsing is turned on or off amid a message, an attribute
changes while a constructor probes, ANSI modules are constructed at the same
time or not destroyed in reverse order. `terminal` keeps the attribute, the last
line and whether a text was ever shown in a wrong colour or a code as text.
`ShowAll` shows the terminal what the stream passes on, item by item.
These uses are ordinary ones: `~manager()` destroys its sinks in the order of an
`unordered_map`, `set_color_mode()` may be called at any time, and a stream has a
buffer unless the user takes it away. `ColorsAsFormatted`, `AutomaticIsClean` and
`ConsoleRestored` say what holds apart from them; they do not show that such a use
does no harm, and it does: a colour or a mode is left behind, codes appear as text,
or a text has the colour of a later one.
`LinesWhole` needs none of these conditions, but says nothing of a console on which
an `ostream_module` writes, which takes no mutex.

## 3. The runs

| Run | Instance | States | Shows |
|---|---|---|---|
| `pool` | 2 workers, 2 clients, 2 tasks (1 throws), 2 handlers | 79,019 | wakeup, wait and handler properties, refinement of `TaskService`; tasks finish, waits return, the destructor returns unless a worker is caught between predicate and sleep |
| `pool_destructor` | 2 workers, 1 client, 2 tasks | violation | the destructor can hang (finding 1) |
| `pipeline_failures` | 2 workers, 2 producers, 2 loggers that share a sink, 4 messages, a throwing filter, two throwing modules, a rejecting filter, a logger deleted meanwhile | 2,194,446 | nothing stranded, lost beyond what failed, duplicated or reordered |
| `pipeline_liveness` | 2 loggers that share a sink, 3 messages; one logger is disconnected, connected again and deleted meanwhile; a throwing filter, a throwing module | 172,060 | sinks receive only over a connection; every accepted message leaves the system |
| `pipeline_wait_two` | two producers | violation | `wait_until_idle` can return early (finding 2) |
| `pipeline_filter` | two workers | violation | a filter is evaluated while another worker occupies the sink (finding 3) |
| `rotation_safety` | 3 files of 4 units, messages of 1, 1, 2, 2 and 4 units and 2, 2, 3, 3 and 4 bytes, 2 starts, failing opens, renames and writes | 349,012 | size limit, overwriting, refinement of `LogWindow` |
| `rotation_null` | the same | violation | a write through a null `file_` (finding 4) |
| `registry_tables` | 2 threads, 2 logger names and 1 sink name, 2 loggers, 2 sinks, 3 of the four created, 1 handler | 1,081,844 | unique names, propagation and stability of handlers, no circular waiting, sinks found by name |
| `registry_race` | the same | violation | a new logger misses the handler that is being set (finding 5) |
| `lifecycle_destruction` | 2 users, 2 workers, 3 messages | 92,158 | written before destruction, losses reported, no self-join without an overlap; the workers end |
| `console_output` | 2 modules, 2 messages, 8 installations | 1,740,810 | lines whole; colours as formatted, no raw codes in automatic mode and the console restored, each under the conditions of section 2 |

Why the bounds are enough. In the pool two workers contend for tasks, for the
mutex and for the handler, one of them can sleep or be between predicate and
sleep while the other runs, and a task can enqueue the other one; what
holds for more workers is proved (section 4). In the pipeline two workers are
the fewest that contend for a station and leave a third party at work in a sink;
four messages over two loggers give groups of two, a group boundary, a sink
shared by two loggers, and a message behind each failing one. `Reconfigured` and
`Deletable` bound which connections change and which loggers are deleted. Three
names are the fewest with an archive that is neither the newest nor the oldest;
two starts give a restart after each kind of crash; five messages can fill and
roll all three files, and `Earlier` puts a file of an earlier run there that is
too big. Four of them take more bytes than they count, so that a file within its limit
has more than `FileSize` bytes and is found too big at the next start. `MaxStarts` bounds the restarts. In the registry two threads are the
fewest that race; three objects allow two loggers under one name in turn with a
sink, or two sinks under one name with a logger. One handler
beside none is enough to tell the old from the new. In the lifecycle three messages of two users
let one be queued, one be on its way and one come late. The eight installations
of the console pair the kinds of modules, with stream buffers of none, two or
three items, with and without a console, with both formatters and all three
message types; the colours of the second formatter drop, keep and change the
foreground and the background between parts.

Workers are symmetric in `pipeline_failures`, threads and objects in the runs of
`Registry`; no symmetry is used in the runs with liveness. `CHECK_DEADLOCK FALSE`
stands where the system stops for good: after the last start of the rotating
file module, after the manager has gone, and when all modules are destroyed.

### Findings

1. **The destructor can hang** (`pool_destructor`). `tidy()` sets the flag and
   calls `notify_all()` without the mutex. A worker that has found the wait
   predicate false and is about to block misses both, and `join()` waits for
   ever. `DestructorReturnsOnceSeen` shows what does hold: the destructor
   returns if, when it starts to join, no worker is in that gap.
2. **`wait_until_idle()` can return early** (`pipeline_wait_two`). A thread that
   logs to a queue that is not empty posts no token; if the thread that found it
   empty has not posted its own yet, the pool is idle although both messages are
   queued. `doc/manager.md:142-143` promises that logging makes the pool busy. The
   manager's destructor starts with the same wait. `IdleMeansDrained` states
   the exact gap: only the dispatcher's queue can hold messages, and only while
   such a token is due. `WaitCoversSoleLogger` proves that it takes a second
   logging thread: with one producer, for any number of workers, loggers and
   sinks, the wait covers all that producer has logged.
3. **A sink's filter runs concurrently with the sink** (`pipeline_filter`).
   `doc/sink.md:62` says that no other thread can access the filter when one
   thread occupies the sink; the code evaluates it on the dispatching worker
   without the sink's mutex.

4. **A failed rotation leaves a null file behind** (`rotation_null`). When a
   rename or the reopening throws, `file_` is null and `current_size_` that of the
   closed file. The sink goes on with the next message; if it is smaller, no
   rotation is due and it is written through the null pointer. Related: when it
   was the reopening that failed, the assertion at
   `rotation_file_module.hpp:187` does not hold in the retry, which shifts the
   archives a second time and drops one of them for nothing.
   `OnlyOldestDropped` shows that it is never another one than the oldest.
   `OpenUnlessRotationFails` proves that nothing else can lead there: where renames
   and openings do not fail, no message is written through a null file, whichever
   other calls fail and whenever the process ends.

5. **A logger can miss the error handler** (`registry_race`). `set_error_handler()`
   walks through `logger_map_` under `error_handler_mutex_` only, `new_logger()`
   inserts into it and reads `error_handler_` under `logger_map_mutex_` only. A
   logger registered while a handler is being set may keep the old one, or none;
   `doc/manager.md:125` promises that every logger gets it, and `manager.hpp:26`
   that the class is thread safe. `HandlerPropagatedUnlessRaced` shows that
   nothing else goes wrong: the next undisturbed `set_error_handler()` repairs it.

Three more disagreements have no run of their own:

* the comment at `manager.hpp:128-129` says that deleting a name that is not found
  does nothing, the code throws, as `doc/manager.md` says;
* the POSIX branch of the colour modules does not compile (section 5);
* `file_size` is meant in bytes (`16_byte` in
  `test/sink_module/rotation_file_module_test.cpp:28`, for `char` and `wchar_t`
  alike; `get_file_size()`), but `rotation_file_module.hpp:255` adds code units to
  it. Where a unit takes more than a byte, files outgrow `file_size`: with
  `BytesPerUnit` 2 the instance of `rotation_safety` has files of three units and
  five bytes, whose limit is four. `SizeBound` states what is left of the limit.

### Fairness

`ThreadPool`: strong fairness of each worker's loop and of each waiting
client, because a mutex that is free again and again must not starve one of its
contenders for ever, which any scheduler-backed `std::mutex` provides in
practice; weak fairness of the owner's steps. A
task and an error handler return, as the library has to assume. Nothing is
assumed of calls to the pool, and spurious wakeups need not happen. `Pipeline`: strong fairness of each
worker, weak fairness of the rest of a `log()` that has begun; no producer has to
log, wait or reconfigure. `Lifecycle`: weak fairness of a `log()` that has begun, of
each worker and of `~manager()`, strong fairness of a worker's lock of a station;
it presumes that the pool wakes a worker for a token and at its end, which
`ThreadPool` shows except for the gap of finding 1. `WaitsReturn` holds because the set of tasks is finite;
an endless stream of tasks can keep the pool busy for ever.

## 4. The proofs

`ThreadPoolProofs` proves, for any finite non-empty set of workers and any
clients, tasks and handlers, from the four assumptions of `ThreadPool`
(`WorkersAssumption`, `ThreadsAssumption`, `TasksAssumption`,
`HandlersAssumption`):

| Theorem | States |
|---|---|
| `Invariance` | `Spec => []IInv` |
| `TypeCorrect`, `TaskWakeup`, `IdleWakeup` | the invariants of `pool` |
| `CounterCorrect`, `Drained` | the counter is exact; a worker leaves only a drained queue |
| `WaitCorrect`, `HandlerCorrect` | the two action properties of `pool` |
| `ServiceImplemented` | `Spec => ImplementsService`, the refinement |

No listed safety property is inductive by itself. `IInv` adds: who owns the
mutex at which `pc` (`MutexInv`); that only blocked threads are in wait sets and
that a worker about to block has seen an empty queue, which stays empty because
it owns the mutex (`WaitInv`); how the flag, the phase and the threads'
life cycle go together (`PhaseInv`); when a worker holds a task (`BusyInv`); and
that every task is in one place (`PlaceInv`). `NoLostTask` then needs `WaitInv`:
a task pushed while all are asleep has its notification under way, and a
notified worker can only sleep again after it has seen an empty queue. The
counter argument counts the workers outside `stand_by()`: each step moves at
most one of them over the border and changes the counter with it
(`EnterStandBy`, `LeaveStandBy`). For the refinement each step is mapped to a
step of `TaskService` or a stutter, with `PlaceInv` giving that a task begins and
finishes once.

`PipelineProofs` proves, for any workers, producers, loggers, sinks and
messages and any behaviour of filters and modules, from the assumptions of
`Pipeline`:

| Theorem | States |
|---|---|
| `PipelineInvariance` | `Spec => []PInv` |
| `PipelineTypes`, `NothingStranded`, `IdleDrained` | invariants of the pipeline runs |
| `ReceivedConnected` | the action property of `pipeline_liveness` |
| `WaitCoversSoleLogger` | with one producer, the property that `pipeline_wait_two` refutes for two |

`PInv` adds to `NoStranded` and the types: a worker has a token unless it is idle
and owns a station's mutex exactly while it operates it (`OwnerInv`); a dispatch in
progress belongs to the owner of the dispatcher and its group is still in the
tray (`RouteInv`); the sinks still to be served are connected to the logger of
the group (`LinkInv`). A step can strand a message only by taking the last token,
worker or announcement from a station: the swap empties the queue it takes
responsibility for, a worker that finishes has an empty tray and, if it never
swapped, saw an empty queue, and a worker that fails posts a token
(`FailureKeeps`). `IdleDrained` follows because an idle pool has neither tokens
nor operating workers, hence no dispatch in progress that could announce one.
`WaitCoversSoleLogger` adds that a producer that waits is not in `log()`: without
another one, no token is due. `ReceivedConnected` needs what `LeadingGroup` and
`AcceptedRun` return (`LeadingGroupType`, `AcceptedRunType`).

`PipelineOrderProofs` proves, from the same assumptions, what becomes of each
message:

| Theorem | States |
|---|---|
| `DeliveryInvariance` | `Spec => []DeliveryInv` |
| `RemainingKept`, `FilterLossContained` | `SinkKeepsRemaining` and `LossContained`, invariants of `pipeline_failures` |
| `OrderImplemented` | `Spec => ImplementsOrder`, the refinement of `MessageOrder` |

`DeliveryInv` contains `PInv` and ties the histories to the queues and trays:

* what `log()` is about to enqueue has never been accepted (`AcceptedInv`), so no
  message is accepted twice;
* the dispatcher's tray and queue, one after the other, are the end of `accepted`;
  those of a sink are the end of `received`, and what it has written lies before
  that end (`QueueInv`);
* the group of a dispatch is the front of the dispatcher's tray, and what the
  current sink has not seen of it is its end (`GroupInv`);
* a logger has no sink twice, and one it had at first is gone only if it was
  disconnected (`LinksInv`). This rests on `LinksAssumption`, that the initial
  connections name no sink twice: `logger::add_sink` refuses a sink whose name it
  has (`logger.hpp:123-134`);
* what sink `s` has received runs along the first `Reached(s)` accepted messages
  (`OrderInv`), where `Reached` counts the erased ones and, while a group is
  handed out, as much of it as this sink has been offered;
* of those, each one that is meant for the sink was received, or was rejected by
  its filter, or its connection changed, or a filter threw in its group (`LossInv`);
* `SinkKeepsRemaining`, which is inductive with the above.

A step moves `Reached` of at most one sink forward, over messages it then
receives or rejects; a throwing filter gives up the whole group for all sinks that
have not seen it, which is what `SameRun` allows for. `LossContained` is `LossInv`
for the messages that left the dispatcher, because `Reached` is all of them for
every sink. For the refinement, a write takes the first message of an inbox, which
by `QueueInv` and `OrderInv` comes later in `accepted` than all the sink wrote.

`RotationFileProofs` proves, for any messages and sizes, any `FileSize` and
`FileCount` the constructor accepts and any failing calls, from the assumptions
of `RotationFile`:

| Theorem | States |
|---|---|
| `RotationInvariance` | `Spec => []RInv` |
| `RotationTypes`, `RotationSize` | the invariants of `rotation_safety`; with `BytesPerUnit` 1 the size is a bound in bytes |
| `RotationDropsOldest` | its action property |
| `WindowImplemented` | `Spec => ImplementsWindow`, the refinement of `LogWindow` |
| `OpenUnlessRotationFails` | with renames and openings that do not fail, the property that `rotation_null` refutes |

`RInv` adds to the types: a file is open outside of rotations only, and exists
then (`PcInv`); the name that the next rename overwrites has been vacated by the
one before, unless it is the last (`GapInv`), which gives `OnlyOldestDropped`; the
file *together with its buffer* is bounded, and `current_size_` is at least the
code units of both while the stream is good, since it starts with the bytes of the
file, which are no fewer (`BoundInv`); the bytes of each content are between its
units and `BytesPerUnit` times as many (`SaneInv`). The buffer has to be part of the
bound because a message whose write threw may still reach the file at the
close; the bound survives because a bad stream takes no second one.
`SizeBound` assumes that the size of an opened file can be read: the code
counts an unreadable size as 0. In bytes the bound is `BytesPerUnit * FileSize`:
the promised `file_size` where `char` is written untranslated, twice that at most
with line ends of two bytes, and what the encoding makes of it with `wchar_t`.

For `WindowImplemented` `RInv` also says that the message being logged is not on
record yet, and that nothing in the buffer has been flushed (`FreshInv`). The log
is the texts of all names, from the last archive to the file, put one after the
other (`FlattenSeq`), followed by the buffer. A rename moves a text from one place
of that row to the next: by `GapInv` the text it replaces is either empty, and the
log stays as it is (`FlattenMove`), or that of the last archive, and the log loses
its oldest end (`WDropOldest` of `LogWindow`). A spill or a close moves the border between file and
buffer; a crash or a failed close drops the buffer, which was never flushed and is
the newest end (`WLoseNewest`). `KeptNext` shows that each step does one of these.

`RegistryProofs` proves, for any threads, names, loggers, sinks and handlers and
any `MaxObjects`, from the assumptions of `Registry`:

| Theorem | States |
|---|---|
| `RegistryInvariant` | `Spec => []RInv` |
| `RegistryTypes`, `NamesUnique`, `HandlersPropagated`, `RunningHandlersStay`, `NobodyWaitsInACircle`, `SinksAreFound` | the invariants of `registry_tables` |

`RInv` adds to them: each mutex is held by exactly the thread that is in its
section (`OwnerInv`); a logger that is being created is known to its creator only
(`ObjInv`); the walk carries a handler of the user (`FnInv`); the manager's table
and `name_` of the loggers and sinks agree (`NameInv`, `SinkInv`); and while
nothing raced, what a thread carries or has visited has the manager's handler
(`HandlerInv`), without which propagation could not be inferred at the end of the walk.
`RunsCurrentHandler` holds because a handler is replaced only under the mutex
that a running one holds. `NobodyWaitsInACircle` ranks the threads: who sets
handlers or has failed in `log()` waits only for running handlers, a handler only
for a thread in `new_logger()`, and that one for nobody, since the mutex it needs
belongs to a logger no other thread knows.

`LifecycleProofs` proves, for any users, workers and messages, from
`LifecycleAssumption`:

| Theorem | States |
|---|---|
| `LifecycleInvariant` | `Spec => []LInv` |
| `LifecycleTypes`, `OnlyOverlapJoinsItself`, `WrittenFirst`, `LossesAreReported` | the invariants of `lifecycle_destruction` |

`LInv` adds to the types: who operates a station holds its token (`TokenInv`); who
has a pointer to the pool, at which place, and that workers end only without one
and with no token left (`RefInv`); without an overlap nothing but the destructor
is left once it has waited (`QuietInv`); what was accepted is what was written,
then the tray, the sink's queue and the dispatcher's, in this order (`FlowInv`);
and every waiting message has a token or a thread that will come for it, unless an
exception was reported (`CoverInv`). `WrittenFirst` combines the last three: with
the pool idle and nobody in `log()`, all queues are empty, so `accepted = written`.

`ConsoleProofs` proves, for any modules of the four kinds, any messages and
colours, and any installation in `Setups`, from the assumptions of `Console`:

| Theorem | States |
|---|---|
| `Win32Shows`, `AnsiShows` | the word of the win32 module and the codes of the ANSI module do what `Shown` says, for all colours |
| `ConsoleInvariance` | `Spec => []CInv` |
| `ConsoleTypes`, `ColorsHeld`, `LinesKept`, `NoRawCode`, `ConsoleGivenBack` | the invariants of `console_output` |

The codes lead from what is shown for the colours set last to what is to be shown
for the new ones, also where they are skipped because nothing changes, and where a
reset has to come first because only it brings an original colour back.

What the console shows lags behind what the modules do, by what the stream holds
back until its buffer is full or flushed. `CInv` therefore
says what the console *will* show once it has been passed the buffer: the items
lead from the attribute it has to the one the module in progress has set
(`WordPath` to `Expected`, in `ColorInv`), and from the line it has to what has
been written of the message in progress (`LinePath` to `ExpectedLine`, in
`LineInv`). A step that writes adds items to the end of the path; one that passes
the buffer on walks along it. The rest says why the items are right: the mutex
is held exactly amid a coloured message (`MutexInv`); a module parses colours as
its mode and the stream say (`ModeInv`); the living ANSI modules keep the
console's mode on, the first one knows the mode to restore (`OrderedInv`,
`ModeKept`); there is a module to flush what is held back, and codes in it are
understood (`BufferInv`); a module knows the colours it has set (`CurrentInv`,
`WordInv`).

All theorems are about `Spec`; the runs with liveness check `FairSpec`, which
implies it.

Every safety invariant, action property and refinement that a passing run checks
is a theorem for all values of the constants. Only model-checked are:

* liveness, which is outside the provers' reach, as is `ENABLED`: `TasksFinish`, `WaitsReturn`,
  `DestructorReturnsOnceSeen`, `EverythingSettles`, `WorkersEnd`;
* the five properties that runs refute. For `WaitCoversOwnMessages`, `FileIsOpen`
  and `HandlerPropagated` a theorem says under which condition they hold
  (`WaitCoversSoleLogger`, `OpenUnlessRotationFails`, `HandlersPropagated`).

Three functions of the models are recursive over data of any length: the survivors
of a module's exceptions, what a row of items shows, and the files put one after
the other. They are recursive functions, and the library's induction theorem is
replaced by `NatInduct` and `UpTo` of `SequenceLemmas`: induction over a *set* of
naturals, from the well-foundedness of `<`. So `KeepsExists`, `FlattensExists` and
their like show for every length that the recursion defines a function, and the
lemmas after them how it grows and shrinks by one element.

## 5. Not modelled

* `reserve`, `shrink_to_fit`, capacities and getters: they change no message.
* The logger's own filter is a set of rejected messages; a filter that throws
  ends `log()` in the same state, the exception goes to the user or to the
  handler of the logger, as in `Registry`. No run rejects one in `log()`; a
  deleted logger takes the same way out.
* `sink::log` called by the user directly, `set_filter` and `set_flusher` while
  messages are under way (documented as not thread safe).
* An error handler that logs or sets handlers, and a module that calls back into
  the library: they take a mutex that their caller holds. Exceptions that
  are not `std::exception` (the process ends).
* An allocation that fails in the middle of an `enqueue`.
* `basic_file_module` and truncate mode: `basic_file` is modelled where it is
  hard, below the rotation. File names, directories, and other programs that
  rename or delete the files.
* The colour modules outside of Windows. Their POSIX branch does not compile:
  `detail/include_linux.hpp:38` compares a `basic_streambuf<wchar_t>*` with a
  `basic_streambuf<char>*`, and `ansi_color_console_module.hpp:230` needs it.
  `is_parsing_color()` (`color_console_module_base.hpp:85`) is declared and never
  defined.
* `null_module` has no action: called, it changes nothing.
* A console that lets its mode be set and not its attribute, or the reverse, and
  one that refuses a call only at times: it takes all calls (`attached`) or none
  (`ansi_color_console_module.hpp:348`, `win32_color_console_module.hpp:199`).
* Characters, field widths and time zones: pieces of `MessageText`. Other
  programs that write to the same console.
* Exception classes, platform headers, tests, benchmarks, examples.

## 6. Plan

Done: `ThreadPool`, `TaskService`, `ThreadPoolProofs`, `Pipeline`,
`MessageOrder`, `PipelineProofs`, `PipelineOrderProofs`, `RotationFile`,
`LogWindow`, `RotationFileProofs`, `Registry`, `RegistryProofs`, `Lifecycle`,
`LifecycleProofs`, `MessageText`, `Colors`, `Console`, `ConsoleProofs`,
`SequenceLemmas`. What could come next:

1. `Lifecycle` with several sinks and a throwing module.
2. `set_filter` and `set_flusher` at run time, once the library documents when
   they may be called.
