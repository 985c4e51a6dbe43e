---------------------------- MODULE MessageChannel ----------------------------
(***************************************************************************)
(* What an SCTP association promises the data channels above it: each end  *)
(* is handed the messages of the other one in the order they were sent in. *)
(* sctp/association.ts does more than RFC 8831 asks, one order over all    *)
(* streams and the unordered messages too, and less: a late INIT starts    *)
(* the delivery over (Restart).                                            *)
(***************************************************************************)
EXTENDS Naturals, Sequences

CONSTANTS
    Client, Server,
    Message,
    MayRestart      \* whether an end may start over

VARIABLES
    sent,           \* the messages each end has sent
    delivered       \* the messages each end was handed since it last started

End == {Client, Server}
Other(e) == IF e = Client THEN Server ELSE Client
vars == <<sent, delivered>>

Init ==
    /\ sent = [e \in End |-> <<>>]
    /\ delivered = [e \in End |-> <<>>]

Send(e) ==
    /\ \E m \in Message : sent' = [sent EXCEPT ![e] = Append(@, m)]
    /\ UNCHANGED delivered

\* The message that end e is handed next.
HasNext(e) == Len(delivered[e]) < Len(sent[Other(e)])
NextMessage(e) == sent[Other(e)][Len(delivered[e]) + 1]

Deliver(e) ==
    /\ HasNext(e)
    /\ delivered' = [delivered EXCEPT ![e] = Append(@, NextMessage(e))]
    /\ UNCHANGED sent

Restart(e) ==
    /\ MayRestart
    /\ delivered' = [delivered EXCEPT ![e] = <<>>]
    /\ UNCHANGED sent

Next == \E e \in End : Send(e) \/ Deliver(e) \/ Restart(e)

Spec == Init /\ [][Next]_vars
=============================================================================
