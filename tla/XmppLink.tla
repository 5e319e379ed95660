------------------------------- MODULE XmppLink -------------------------------
(***************************************************************************)
(* What one XMPP client of the bridge promises the login that made it: it  *)
(* is up, the session begins on it at most once, and it ends in one of     *)
(* three ways.  "refused": an answer of the server leads nowhere, the      *)
(* client stays and no session will begin.  "dead": gloox has closed its   *)
(* socket, which the session's pump still polls.  "lost": the pump has     *)
(* dropped it.                                                             *)
(***************************************************************************)

EXTENDS Naturals

VARIABLES
    link,  \* "none", "up", "refused", "dead" or "lost"
    begun  \* how often the session has begun on it

vars == <<link, begun>>

Init == link = "none" /\ begun = 0

Connect == link = "none" /\ link' = "up" /\ UNCHANGED begun

\* The line may have broken by then, or break in the same step.
Begin ==
    /\ link \in {"up", "dead"}
    /\ begun = 0
    /\ begun' = 1
    /\ link' \in {link, "dead"}

Refuse == link = "up" /\ begun = 0 /\ link' = "refused" /\ UNCHANGED begun

HangUp == link \in {"up", "refused"} /\ link' = "dead" /\ UNCHANGED begun

Lose == link \in {"up", "refused", "dead"} /\ link' = "lost" /\ UNCHANGED begun

Next == Connect \/ Begin \/ Refuse \/ HangUp \/ Lose

Spec == Init /\ [][Next]_vars
=============================================================================
