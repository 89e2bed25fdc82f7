------------------------------ MODULE Pipeline ------------------------------
(***************************************************************************)
(* The way of a message from logger::log() to the sink module.  log()      *)
(* enqueues it to the dispatcher; a token in the thread pool makes a       *)
(* worker run dispatcher::dispatch(), which hands each group of messages   *)
(* to the sinks of its logger; and a token of the sink makes a worker run  *)
(* sink::sink_message(), which writes them.                                *)
(*                                                                         *)
(* Dispatcher and sinks are "stations": each has a blocking queue, a tray  *)
(* swapped with it, a mutex held while a worker operates, and the same     *)
(* rule that enqueuing to an empty queue posts a token.  The thread pool   *)
(* is the one TaskService promises: FIFO tokens, each begun once.          *)
(***************************************************************************)
EXTENDS Naturals, FiniteSets, SequencesExt

CONSTANTS
    Workers,          \* the threads of the pool
    Producers,        \* the threads that call logger::log()
    Loggers, Sinks,
    Dispatcher,       \* the station of the dispatcher
    Nobody,           \* the owner of a free station mutex, a worker's lack of a token
    Messages,
    Author,           \* the producer that logs a message
    Via,              \* the logger it is logged to
    LoggerRejects,    \* messages the logger's filter rejects (or throws on)
    SinkRejects,      \* <<sink, message>>: the sink's filter returns false
    FilterThrows,     \* <<sink, message>>: the sink's filter throws
    ModuleThrows,     \* <<sink, message>>: the module or the flusher throws
    Links,            \* the sinks connected to each logger at first
    Reconfigured,     \* bound: <<logger, sink>> that get connected or disconnected
    Deletable         \* bound: the loggers that get deleted

Stations == Sinks \cup {Dispatcher}

ASSUME WorkersAssumption == IsFiniteSet(Workers) /\ Workers # {} /\ Nobody \notin Workers
ASSUME StationsAssumption == Dispatcher \notin Sinks /\ Nobody \notin Stations
ASSUME MessagesAssumption ==
    /\ Author \in [Messages -> Producers]
    /\ Via \in [Messages -> Loggers]
    /\ LoggerRejects \subseteq Messages
    /\ SinkRejects \subseteq Sinks \X Messages
    /\ FilterThrows \subseteq Sinks \X Messages
    /\ ModuleThrows \subseteq Sinks \X Messages
ASSUME LinksAssumption ==
    /\ Links \in [Loggers -> Seq(Sinks)]
    /\ \A l \in Loggers : IsInjective(Links[l])   \* add_sink() refuses a second time
    /\ Reconfigured \subseteq Loggers \X Sinks
    /\ Deletable \subseteq Loggers

VARIABLES
    ppc,        \* where each producer is in log()
    msg,        \* the message each producer is logging
    logged,     \* the messages whose log() has begun
    marked,     \* the loggers with mark_as_destroy_ set
    links,      \* sinks_ of each logger
    queue,      \* the blocking queue of each station
    tray,       \* its tray, without the messages already processed
    owner,      \* the worker that holds operate_mutex_ / queue_tray_mutex_
    tokens,     \* the tokens queued in the thread pool
    token,      \* the station each worker operates
    pc,         \* where each worker is
    group,      \* dispatch: the messages handed to one logger's sinks, or <<>>
    dests,      \* dispatch: the sinks of that logger still to be served
    rest,       \* dispatch: the messages of the group not yet seen by the first of dests
    alert,      \* dispatch: the first of dests was empty, its token is due
    accepted,   \* history: the messages enqueued to the dispatcher, in order
    received,   \* history: the messages enqueued to each sink, in order
    written     \* history: the messages each module has written, in order

vars == <<ppc, msg, logged, marked, links, queue, tray, owner, tokens, token,
          pc, group, dests, rest, alert, accepted, received, written>>

TypeOK ==
    /\ ppc \in [Producers -> {"user", "checked", "notify", "wait"}]
    /\ msg \in [Producers -> Messages \cup {Nobody}]
    /\ logged \subseteq Messages
    /\ marked \subseteq Loggers
    /\ links \in [Loggers -> Seq(Sinks)]
    /\ queue \in [Stations -> Seq(Messages)]
    /\ tray \in [Stations -> Seq(Messages)]
    /\ owner \in [Stations -> Workers \cup {Nobody}]
    /\ tokens \in Seq(Stations)
    /\ token \in [Workers -> Stations \cup {Nobody}]
    /\ pc \in [Workers -> {"idle", "lock", "leftover", "batch"}]
    /\ group \in Seq(Messages)
    /\ dests \in Seq(Sinks)
    /\ rest \in Seq(Messages)
    /\ alert \in BOOLEAN
    /\ accepted \in Seq(Messages)
    /\ received \in [Sinks -> Seq(Messages)]
    /\ written \in [Sinks -> Seq(Messages)]

Init ==
    /\ ppc = [p \in Producers |-> "user"]
    /\ msg = [p \in Producers |-> Nobody]
    /\ logged = {}
    /\ marked = {}
    /\ links = Links
    /\ queue = [x \in Stations |-> <<>>]
    /\ tray = [x \in Stations |-> <<>>]
    /\ owner = [x \in Stations |-> Nobody]
    /\ tokens = <<>>
    /\ token = [w \in Workers |-> Nobody]
    /\ pc = [w \in Workers |-> "idle"]
    /\ group = <<>>
    /\ dests = <<>>
    /\ rest = <<>>
    /\ alert = FALSE
    /\ accepted = <<>>
    /\ received = [s \in Sinks |-> <<>>]
    /\ written = [s \in Sinks |-> <<>>]

producerVars == <<ppc, msg, logged, accepted>>
loggerVars == <<marked, links>>
stationVars == <<queue, tray, owner, received, written>>
poolVars == <<tokens, token, pc>>
routeVars == <<group, dests, rest, alert>>

\* thread_pool::enqueue() of the token of station x.
PostToken(x) == tokens' = Append(tokens, x)

-----------------------------------------------------------------------------
(* The producers: logger::log() and manager::wait_until_idle().            *)

\* Operators named Faulty... are edits of the definition they precede; no
\* specification uses them, they show what the properties detect.

\* The message is enqueued although log_inner() gave it up.
FaultyCallLog(p, m) ==
    /\ ppc[p] = "user"
    /\ Author[m] = p /\ m \notin logged
    /\ logged' = logged \cup {m}
    /\ ppc' = [ppc EXCEPT ![p] = "checked"]
    /\ IF Via[m] \in marked \/ m \in LoggerRejects
       THEN UNCHANGED msg
       ELSE msg' = [msg EXCEPT ![p] = m]
    /\ UNCHANGED <<accepted, loggerVars, stationVars, poolVars, routeVars>>

\* log_inner() of a logger that is not marked as destroyed, up to the filter.
CallLog(p, m) ==
    /\ ppc[p] = "user"
    /\ Author[m] = p /\ m \notin logged
    /\ logged' = logged \cup {m}
    /\ IF Via[m] \in marked \/ m \in LoggerRejects
       THEN UNCHANGED <<ppc, msg>>
       ELSE /\ ppc' = [ppc EXCEPT ![p] = "checked"]
            /\ msg' = [msg EXCEPT ![p] = m]
    /\ UNCHANGED <<accepted, loggerVars, stationVars, poolVars, routeVars>>

\* dispatcher::enqueue(): only the first message of an empty queue has the
\* pool notified, in a step of its own.
Enqueue(p) ==
    /\ ppc[p] = "checked"
    /\ queue' = [queue EXCEPT ![Dispatcher] = Append(@, msg[p])]
    /\ accepted' = Append(accepted, msg[p])
    /\ ppc' = [ppc EXCEPT ![p] = IF queue[Dispatcher] = <<>> THEN "notify" ELSE "user"]
    /\ msg' = [msg EXCEPT ![p] = Nobody]
    /\ UNCHANGED <<logged, tray, owner, received, written, loggerVars,
                   poolVars, routeVars>>

NotifyPool(p) ==
    /\ ppc[p] = "notify"
    /\ PostToken(Dispatcher)
    /\ ppc' = [ppc EXCEPT ![p] = "user"]
    /\ UNCHANGED <<msg, logged, accepted, token, pc, loggerVars, stationVars,
                   routeVars>>

CallWait(p) ==
    /\ ppc[p] = "user"
    /\ ppc' = [ppc EXCEPT ![p] = "wait"]
    /\ UNCHANGED <<msg, logged, accepted, loggerVars, stationVars, poolVars,
                   routeVars>>

\* The pool is idle: thread_pool::is_pending().
PoolIdle == tokens = <<>> /\ \A w \in Workers : pc[w] = "idle"

WaitReturns(p) ==
    /\ ppc[p] = "wait"
    /\ PoolIdle
    /\ ppc' = [ppc EXCEPT ![p] = "user"]
    /\ UNCHANGED <<msg, logged, accepted, loggerVars, stationVars, poolVars,
                   routeVars>>

-----------------------------------------------------------------------------
(* Reconfiguration: logger::add_sink(), logger::delete_sink(),             *)
(* manager::delete_logger().                                               *)

\* sink_mutex_ is not taken by dispatch_message_to_sinks().
FaultySinksLocked(l) == FALSE

\* sink_mutex_ of a logger is held while its group is handed to the sinks.
SinksLocked(l) == group # <<>> /\ Via[Head(group)] = l

AddSink(l, s) ==
    /\ <<l, s>> \in Reconfigured
    /\ ~SinksLocked(l)
    /\ s \notin ToSet(links[l])
    /\ links' = [links EXCEPT ![l] = Append(@, s)]
    /\ UNCHANGED <<marked, producerVars, stationVars, poolVars, routeVars>>

DeleteSink(l, s) ==
    /\ <<l, s>> \in Reconfigured
    /\ ~SinksLocked(l)
    /\ s \in ToSet(links[l])
    /\ links' = [links EXCEPT ![l] = RemoveFirst(@, s)]
    /\ UNCHANGED <<marked, producerVars, stationVars, poolVars, routeVars>>

\* The shared_ptr in each queued message keeps the deleted logger alive.
DeleteLogger(l) ==
    /\ l \in Deletable \ marked
    /\ marked' = marked \cup {l}
    /\ UNCHANGED <<links, producerVars, stationVars, poolVars, routeVars>>

-----------------------------------------------------------------------------
(* A worker operates a station: operate_by_thread() of either token.       *)

TakeToken(w) ==
    /\ pc[w] = "idle"
    /\ tokens # <<>>
    /\ token' = [token EXCEPT ![w] = Head(tokens)]
    /\ tokens' = Tail(tokens)
    /\ pc' = [pc EXCEPT ![w] = "lock"]
    /\ UNCHANGED <<producerVars, loggerVars, stationVars, routeVars>>

Lock(w) ==
    /\ pc[w] = "lock"
    /\ owner[token[w]] = Nobody
    /\ owner' = [owner EXCEPT ![token[w]] = w]
    /\ pc' = [pc EXCEPT ![w] = "leftover"]
    /\ UNCHANGED <<queue, tray, received, written, tokens, token,
                   producerVars, loggerVars, routeVars>>

\* The worker is inside ..._message_from_tray() for the tray of station x.
Operating(w, x) == token[w] = x /\ pc[w] \in {"leftover", "batch"}

Release(w) ==
    /\ owner' = [owner EXCEPT ![token[w]] = Nobody]
    /\ token' = [token EXCEPT ![w] = Nobody]
    /\ pc' = [pc EXCEPT ![w] = "idle"]

\* The remaining messages are not processed before the swap.
FaultySwap(w) ==
    /\ pc[w] = "leftover"
    /\ queue[token[w]] # <<>>
    /\ queue' = [queue EXCEPT ![token[w]] = tray[token[w]]]
    /\ tray' = [tray EXCEPT ![token[w]] = queue[token[w]]]
    /\ pc' = [pc EXCEPT ![w] = "batch"]
    /\ UNCHANGED <<owner, received, written, tokens, token, producerVars,
                   loggerVars, routeVars>>

\* try_swap_bulk() once the remaining messages of an earlier failure are done.
Swap(w) ==
    /\ pc[w] = "leftover"
    /\ tray[token[w]] = <<>>
    /\ queue[token[w]] # <<>>
    /\ queue' = [queue EXCEPT ![token[w]] = tray[token[w]]]
    /\ tray' = [tray EXCEPT ![token[w]] = queue[token[w]]]
    /\ pc' = [pc EXCEPT ![w] = "batch"]
    /\ UNCHANGED <<owner, received, written, tokens, token, producerVars,
                   loggerVars, routeVars>>

Finish(w) ==
    /\ \/ pc[w] = "batch"
       \/ pc[w] = "leftover" /\ queue[token[w]] = <<>>
    /\ tray[token[w]] = <<>>
    /\ Release(w)
    /\ UNCHANGED <<queue, tray, received, written, tokens, producerVars,
                   loggerVars, routeVars>>

-----------------------------------------------------------------------------
(* dispatcher::dispatch_message_from_tray(), logger::                      *)
(* dispatch_message_to_sinks(), sink::log(), sink::log_message().          *)

Drop(q, n) == SubSeq(q, n + 1, Len(q))

\* The messages before the first one on which Stop holds.
Until(q, Stop(_)) ==
    LET i == SelectInSeq(q, Stop) IN IF i = 0 THEN q ELSE SubSeq(q, 1, i - 1)

\* The leading messages of one logger.
LeadingGroup(q) == Until(q, LAMBDA m : Via[m] # Via[Head(q)])

StartGroup(w) ==
    /\ Operating(w, Dispatcher)
    /\ tray[Dispatcher] # <<>>
    /\ group = <<>>
    /\ group' = LeadingGroup(tray[Dispatcher])
    /\ dests' = links[Via[Head(tray[Dispatcher])]]
    /\ rest' = IF dests' = <<>> THEN <<>> ELSE group'
    /\ UNCHANGED <<alert, producerVars, loggerVars, stationVars, poolVars>>

\* The next run of messages the filter of sink s accepts.
AcceptedRun(s) == Until(rest, LAMBDA m : <<s, m>> \in SinkRejects \cup FilterThrows)

\* The filter throws on the message behind that run.
FilterFails(s) ==
    LET n == Len(AcceptedRun(s))
    IN  n < Len(rest) /\ <<s, rest[n + 1]>> \in FilterThrows

\* One enqueue_bulk() of sink::log(), and the rejected message that ends it.
LogRun(w) ==
    /\ Operating(w, Dispatcher)
    /\ rest # <<>> /\ ~alert
    /\ LET s == Head(dests)
           run == AcceptedRun(s)
       IN  /\ ~FilterFails(s)
           /\ queue' = [queue EXCEPT ![s] = @ \o run]
           /\ received' = [received EXCEPT ![s] = @ \o run]
           /\ alert' = (run # <<>> /\ queue[s] = <<>>)
           /\ rest' = Drop(rest, Len(run) + 1)
    /\ UNCHANGED <<group, dests, tray, owner, written, producerVars,
                   loggerVars, poolVars>>

NotifySink(w) ==
    /\ Operating(w, Dispatcher)
    /\ alert
    /\ PostToken(Head(dests))
    /\ alert' = FALSE
    /\ UNCHANGED <<group, dests, rest, token, pc, producerVars, loggerVars,
                   stationVars>>

NextSink(w) ==
    /\ Operating(w, Dispatcher)
    /\ dests # <<>> /\ rest = <<>> /\ ~alert
    /\ dests' = Tail(dests)
    /\ rest' = IF dests' = <<>> THEN <<>> ELSE group
    /\ UNCHANGED <<group, alert, producerVars, loggerVars, stationVars,
                   poolVars>>

EndGroup(w) ==
    /\ Operating(w, Dispatcher)
    /\ group # <<>> /\ dests = <<>>
    /\ tray' = [tray EXCEPT ![Dispatcher] = Drop(@, Len(group))]
    /\ group' = <<>>
    /\ UNCHANGED <<dests, rest, alert, queue, owner, received, written,
                   producerVars, loggerVars, poolVars>>

\* The group is kept to be tried again.
FaultyDispatchRetries(w) ==
    /\ Operating(w, Dispatcher)
    /\ rest # <<>> /\ ~alert
    /\ FilterFails(Head(dests))
    /\ group' = <<>> /\ dests' = <<>> /\ rest' = <<>>
    /\ PostToken(Dispatcher)
    /\ Release(w)
    /\ UNCHANGED <<alert, queue, tray, received, written, producerVars,
                   loggerVars>>

\* The whole tray is cleared.
FaultyDispatchClears(w) ==
    /\ Operating(w, Dispatcher)
    /\ rest # <<>> /\ ~alert
    /\ FilterFails(Head(dests))
    /\ tray' = [tray EXCEPT ![Dispatcher] = <<>>]
    /\ group' = <<>> /\ dests' = <<>> /\ rest' = <<>>
    /\ PostToken(Dispatcher)
    /\ Release(w)
    /\ UNCHANGED <<alert, queue, received, written, producerVars, loggerVars>>

\* No token is posted for the messages that remain in the tray.
FaultyDispatchThrows(w) ==
    /\ Operating(w, Dispatcher)
    /\ rest # <<>> /\ ~alert
    /\ FilterFails(Head(dests))
    /\ tray' = [tray EXCEPT ![Dispatcher] = Drop(@, Len(group))]
    /\ group' = <<>> /\ dests' = <<>> /\ rest' = <<>>
    /\ Release(w)
    /\ UNCHANGED <<alert, tokens, queue, received, written, producerVars,
                   loggerVars>>

\* A sink's filter throws: the group is erased from the tray, a new token is
\* posted for what remains, and the exception goes to the pool.
DispatchThrows(w) ==
    /\ Operating(w, Dispatcher)
    /\ rest # <<>> /\ ~alert
    /\ FilterFails(Head(dests))
    /\ tray' = [tray EXCEPT ![Dispatcher] = Drop(@, Len(group))]
    /\ group' = <<>> /\ dests' = <<>> /\ rest' = <<>>
    /\ PostToken(Dispatcher)
    /\ Release(w)
    /\ UNCHANGED <<alert, queue, received, written, producerVars, loggerVars>>

-----------------------------------------------------------------------------
(* sink::sink_message_from_tray().                                         *)

WriteMessage(w, s) ==
    /\ Operating(w, s)
    /\ tray[s] # <<>>
    /\ <<s, Head(tray[s])>> \notin ModuleThrows
    /\ written' = [written EXCEPT ![s] = Append(@, Head(tray[s]))]
    /\ tray' = [tray EXCEPT ![s] = Tail(@)]
    /\ UNCHANGED <<queue, owner, received, producerVars, loggerVars, poolVars,
                   routeVars>>

\* No token is posted for the messages that remain in the tray.
FaultyWriteThrows(w, s) ==
    /\ Operating(w, s)
    /\ tray[s] # <<>>
    /\ <<s, Head(tray[s])>> \in ModuleThrows
    /\ tray' = [tray EXCEPT ![s] = Tail(@)]
    /\ Release(w)
    /\ UNCHANGED <<tokens, queue, received, written, producerVars, loggerVars,
                   routeVars>>

\* The module throws: the message is erased, a token is posted for the rest.
WriteThrows(w, s) ==
    /\ Operating(w, s)
    /\ tray[s] # <<>>
    /\ <<s, Head(tray[s])>> \in ModuleThrows
    /\ tray' = [tray EXCEPT ![s] = Tail(@)]
    /\ PostToken(s)
    /\ Release(w)
    /\ UNCHANGED <<queue, received, written, producerVars, loggerVars,
                   routeVars>>

-----------------------------------------------------------------------------
ProducerStep(p) ==
    \/ \E m \in Messages : CallLog(p, m)
    \/ Enqueue(p)
    \/ NotifyPool(p)
    \/ CallWait(p)
    \/ WaitReturns(p)

ConfigStep ==
    \/ \E l \in Loggers, s \in Sinks : AddSink(l, s) \/ DeleteSink(l, s)
    \/ \E l \in Loggers : DeleteLogger(l)

WorkerStep(w) ==
    \/ TakeToken(w)
    \/ Lock(w)
    \/ Swap(w)
    \/ Finish(w)
    \/ StartGroup(w)
    \/ LogRun(w)
    \/ NotifySink(w)
    \/ NextSink(w)
    \/ EndGroup(w)
    \/ DispatchThrows(w)
    \/ \E s \in Sinks : WriteMessage(w, s) \/ WriteThrows(w, s)

Next ==
    \/ \E p \in Producers : ProducerStep(p)
    \/ ConfigStep
    \/ \E w \in Workers : WorkerStep(w)

Spec == Init /\ [][Next]_vars

-----------------------------------------------------------------------------
(* Safety.                                                                 *)

\* The token of station x will be operated from the start, by a worker that
\* has not yet swapped the queue.
Coming(x) ==
    \/ x \in ToSet(tokens)
    \/ \E w \in Workers : token[w] = x /\ pc[w] \in {"lock", "leftover"}

\* Somebody found the queue of x empty and is about to post its token.
Announced(x) ==
    IF x = Dispatcher THEN \E p \in Producers : ppc[p] = "notify"
                      ELSE alert /\ Head(dests) = x

\* Only the first message of an empty queue posts a token, tokens are posted
\* late and a worker that fails gives up its token: even so no message is ever
\* left in a queue or a tray without a worker that is going to process it.
NoStranded ==
    \A x \in Stations :
        /\ queue[x] # <<>> => Coming(x) \/ Announced(x)
        /\ tray[x] # <<>> => Coming(x) \/ \E w \in Workers : Operating(w, x)

\* When the pool is idle, what is left anywhere belongs to a log() that is
\* still between dispatcher::enqueue() and the notification of the pool.
IdleMeansDrained ==
    PoolIdle =>
        /\ \A x \in Stations : tray[x] = <<>>
        /\ \A s \in Sinks : queue[s] = <<>>
        /\ queue[Dispatcher] # <<>> => \E p \in Producers : ppc[p] = "notify"

\* The messages of q on which neither module nor flusher of sink s throws.
Survivors(s, q) ==
    LET kept[n \in 0 .. Len(q)] ==
            IF n = 0 THEN <<>>
            ELSE IF <<s, q[n]>> \in ModuleThrows THEN kept[n - 1]
            ELSE Append(kept[n - 1], q[n])
    IN  kept[Len(q)]

\* A module or a flusher that throws costs the sink that one message: the
\* others it received are written once each, in the order of their arrival, or
\* are still on their way ("Erase the sink message in tray and keep the
\* remaining one", sink.hpp).
SinkKeepsRemaining ==
    \A s \in Sinks :
        Survivors(s, received[s]) = written[s] \o Survivors(s, tray[s] \o queue[s])

\* A message is settled when no queue or tray holds it any more.
Settled(m) == \A x \in Stations : m \notin ToSet(queue[x]) \cup ToSet(tray[x])

\* The messages a and b were accepted with none of another logger in between,
\* so that dispatch may have handed them to the sinks as one group.
SameRun(a, b) ==
    \E i \in 1 .. Len(accepted) : \E j \in i .. Len(accepted) :
        /\ {accepted[i], accepted[j]} = {a, b}
        /\ \A k \in i .. j : Via[accepted[k]] = Via[a]

\* An exception in a sink's filter costs at most the group it occurs in: a
\* message not accepted next to the offending one reaches each connected sink
\* whose filter accepts it, although the dispatch was abandoned midway.
LossContained ==
    \A m \in ToSet(accepted) :
        Settled(m) =>
            \A s \in ToSet(Links[Via[m]]) :
                \/ m \in ToSet(received[s])
                \/ <<s, m>> \in SinkRejects
                \/ <<Via[m], s>> \in Reconfigured
                \/ \E f \in FilterThrows : SameRun(m, f[2])

\* logger::delete_sink() waits for the dispatch in progress: a sink never
\* receives a message over a logger it is not connected to.
ReceivedOnlyWhileConnected ==
    [][\A s \in Sinks :
          received'[s] # received[s] =>
              \A i \in Len(received[s]) + 1 .. Len(received'[s]) :
                  s \in ToSet(links[Via[received'[s][i]]])]_vars

\* "Multiple threads in thread pool while keeping the message ordering"
\* (readme.md): every sink writes a subsequence of the one order in which the
\* dispatcher accepted the messages, none of them twice.
Order == INSTANCE MessageOrder

ImplementsOrder == Order!OSpec

\* manager::wait_until_idle() returns when the messages this thread has logged
\* before are processed ("Once there is no other message inside the manager,
\* it will go back to idle state", doc/manager.md).
WaitCoversOwnMessages ==
    [][\A p \in Producers :
          ppc[p] = "wait" /\ ppc'[p] = "user" =>
              \A m \in ToSet(accepted) : Author[m] = p => Settled(m)]_vars

\* "there is no other thread can access the filter when one thread already
\* occupy the sink instance" (doc/sink.md): no worker is about to evaluate the
\* filter of a sink that another worker occupies.
FilterAlone ==
    \A s \in Sinks : owner[s] # Nobody => ~(rest # <<>> /\ ~alert /\ Head(dests) = s)

-----------------------------------------------------------------------------
(* Liveness.                                                               *)

\* Threads are scheduled, mutexes do not starve a worker for ever, and filters
\* and modules return.  Nobody has to call log() or wait_until_idle().
Fairness ==
    /\ \A w \in Workers : SF_vars(WorkerStep(w))
    /\ \A p \in Producers : WF_vars(Enqueue(p) \/ NotifyPool(p))

FairSpec == Spec /\ Fairness

\* Every message the dispatcher accepted is processed in the end, however many
\* filters and modules throw, and also when its logger is deleted or loses its
\* sink meanwhile.
EverythingSettles ==
    \A m \in Messages : m \in ToSet(queue[Dispatcher]) ~> Settled(m)

=============================================================================
