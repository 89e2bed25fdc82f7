---------------------------- MODULE MessageOrder ----------------------------
(***************************************************************************)
(* What the logging system promises about order: there is one order of all *)
(* accepted messages, and each sink writes some of them along that order,  *)
(* each at most once.                                                      *)
(***************************************************************************)
EXTENDS Naturals, SequencesExt

CONSTANTS Messages, Sinks

VARIABLES
    accepted,  \* the messages in the order of their acceptance
    written    \* what each sink has written

ovars == <<accepted, written>>

OInit ==
    /\ accepted = <<>>
    /\ written = [s \in Sinks |-> <<>>]

Accept(m) ==
    /\ m \notin ToSet(accepted)
    /\ accepted' = Append(accepted, m)
    /\ UNCHANGED written

\* The i-th accepted message comes after all that sink s wrote before.
Write(s, i) ==
    /\ ToSet(written[s]) \subseteq {accepted[j] : j \in 1 .. i - 1}
    /\ written' = [written EXCEPT ![s] = Append(@, accepted[i])]
    /\ UNCHANGED accepted

ONext ==
    \/ \E m \in Messages : Accept(m)
    \/ \E s \in Sinks : \E i \in 1 .. Len(accepted) : Write(s, i)

OSpec == OInit /\ [][ONext]_ovars

=============================================================================
