----------------------------- MODULE YMsgChannel -----------------------------
(***************************************************************************)
(* What the byte stream between a messenger and its session promises the   *)
(* handlers above it: the packets the messenger sent are dispatched whole, *)
(* once each and in the order they were sent, until the connection is gone.*)
(* What never arrives is a tail.                                           *)
(***************************************************************************)
EXTENDS Naturals, Sequences

CONSTANT Packet

VARIABLES
    sent,        \* the packets the messenger has sent
    dispatched,  \* the packets the session has dispatched
    connected    \* FALSE once the session takes nothing more from it

vars == <<sent, dispatched, connected>>

Init == sent = <<>> /\ dispatched = <<>> /\ connected = TRUE

Send ==
    /\ \E p \in Packet : sent' = Append(sent, p)
    /\ UNCHANGED <<dispatched, connected>>

\* The dispatch of a packet may be the last one, when its handler throws.
Dispatch ==
    /\ connected
    /\ Len(dispatched) < Len(sent)
    /\ dispatched' = Append(dispatched, sent[Len(dispatched) + 1])
    /\ connected' \in BOOLEAN
    /\ UNCHANGED sent

Disconnect == connected /\ connected' = FALSE /\ UNCHANGED <<sent, dispatched>>

Next == Send \/ Dispatch \/ Disconnect

Spec == Init /\ [][Next]_vars
=============================================================================
