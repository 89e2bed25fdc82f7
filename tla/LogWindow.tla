----------------------------- MODULE LogWindow -----------------------------
(***************************************************************************)
(* What a rotating log promises, whatever fails: the log is a window onto  *)
(* the stream of messages.  It grows at its newest end and loses messages  *)
(* at its ends only: the oldest ones by rotation, the newest ones, unless  *)
(* they were flushed, by a crash or a failing device.                      *)
(***************************************************************************)
EXTENDS Naturals, SequencesExt

CONSTANT Messages

VARIABLES
    kept,      \* the messages in the log, the oldest first
    accepted,  \* the messages whose logging returned normally
    durable    \* the messages a successful flush has covered

wvars == <<kept, accepted, durable>>

WInit ==
    /\ kept \in {<<>>} \cup {<<m>> : m \in Messages}
    /\ accepted = ToSet(kept)
    /\ durable = ToSet(kept)

\* A message is logged: it is then the newest one of the log.
WLog(m) ==
    /\ m \notin accepted
    /\ kept' = Append(kept, m)
    /\ accepted' = accepted \cup {m}
    /\ UNCHANGED durable

\* Logging a message throws, and the message may reach the log all the same.
WReject(m) ==
    /\ m \notin accepted \cup ToSet(kept)
    /\ kept' = Append(kept, m)
    /\ UNCHANGED <<accepted, durable>>

WFlush ==
    /\ durable' = durable \cup ToSet(kept)
    /\ UNCHANGED <<kept, accepted>>

WDropOldest ==
    /\ \E n \in 1 .. Len(kept) : kept' = SubSeq(kept, n + 1, Len(kept))
    /\ UNCHANGED <<accepted, durable>>

WLoseNewest ==
    /\ \E n \in 1 .. Len(kept) :
        /\ \A k \in n .. Len(kept) : kept[k] \notin durable
        /\ kept' = SubSeq(kept, 1, n - 1)
    /\ UNCHANGED <<accepted, durable>>

WNext ==
    \/ \E m \in Messages : WLog(m) \/ WReject(m)
    \/ WFlush
    \/ WDropOldest
    \/ WLoseNewest

WSpec == WInit /\ [][WNext]_wvars
=============================================================================
