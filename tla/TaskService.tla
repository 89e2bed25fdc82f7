----------------------------- MODULE TaskService -----------------------------
(***************************************************************************)
(* What thread_pool promises to its users, without threads, mutex or       *)
(* condition variables: tasks begin in the order they are enqueued, each   *)
(* once; a wait ends at an instant when no task is queued or active; and   *)
(* the destructor ends only when every enqueued task has been finished.    *)
(***************************************************************************)
EXTENDS SequencesExt

CONSTANTS Clients, Tasks

VARIABLES
    status,    \* "open", "closing" (the destructor runs) or "closed"
    queue,     \* enqueued tasks in order
    active,    \* begun and not finished
    done,      \* finished
    awaiting   \* the clients inside wait_until_queue_empty()

svars == <<status, queue, active, done, awaiting>>

SInit ==
    /\ status = "open"
    /\ queue = <<>>
    /\ active = {}
    /\ done = {}
    /\ awaiting = {}

SEnqueue(k) ==
    /\ status = "open"
    /\ k \notin ToSet(queue) \cup active \cup done
    /\ queue' = Append(queue, k)
    /\ UNCHANGED <<status, active, done, awaiting>>

SBegin ==
    /\ queue # <<>>
    /\ queue' = Tail(queue)
    /\ active' = active \cup {Head(queue)}
    /\ UNCHANGED <<status, done, awaiting>>

SFinish(k) ==
    /\ k \in active
    /\ active' = active \ {k}
    /\ done' = done \cup {k}
    /\ UNCHANGED <<status, queue, awaiting>>

SCallWait(c) ==
    /\ status = "open"
    /\ c \notin awaiting
    /\ awaiting' = awaiting \cup {c}
    /\ UNCHANGED <<status, queue, active, done>>

SReturnFromWait(c) ==
    /\ c \in awaiting
    /\ queue = <<>>
    /\ active = {}
    /\ awaiting' = awaiting \ {c}
    /\ UNCHANGED <<status, queue, active, done>>

SClose ==
    /\ status = "open"
    /\ awaiting = {}
    /\ status' = "closing"
    /\ UNCHANGED <<queue, active, done, awaiting>>

SClosed ==
    /\ status = "closing"
    /\ queue = <<>>
    /\ active = {}
    /\ status' = "closed"
    /\ UNCHANGED <<queue, active, done, awaiting>>

SNext ==
    \/ \E k \in Tasks : SEnqueue(k) \/ SFinish(k)
    \/ SBegin
    \/ \E c \in Clients : SCallWait(c) \/ SReturnFromWait(c)
    \/ SClose
    \/ SClosed

SSpec == SInit /\ [][SNext]_svars

=============================================================================
