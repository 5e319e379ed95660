----------------------------- MODULE FunctionCall -----------------------------
(***************************************************************************)
(* What a call of a function promises its caller, whether the function is  *)
(* hooked or not: the proxy may run first, and then the function's own     *)
(* instructions are executed, one after the other, with the targets they   *)
(* have in its code.  Only where the right to execute the code was lost    *)
(* may it crash instead.                                                   *)
(***************************************************************************)
EXTENDS MachineCode

CONSTANTS
    Functions, \* the functions there may be: instructions at their addresses
    Proc,      \* where a function begins
    Proxy,     \* where a thread is that is in the proxy
    Fault      \* a thread that has crashed

VARIABLES code, pc, did, lost

vars == <<code, pc, did, lost>>

Nothing == [op |-> "none", size |-> 0, target |-> External]

Init == code \in Functions /\ pc = Caller /\ did = Nothing /\ lost = FALSE

\* The right to execute some of the code is lost, before anybody calls.
Lose == pc = Caller /\ did = Nothing /\ lost' = TRUE /\ UNCHANGED <<code, pc, did>>

Call == pc = Caller /\ pc' \in {Proc, Proxy} /\ UNCHANGED <<code, did, lost>>

CallOriginal == pc = Proxy /\ pc' = Proc /\ UNCHANGED <<code, did, lost>>

Execute ==
    /\ pc \in DOMAIN code
    /\ pc' \in Successors(code[pc], pc)
    /\ did' = Effect(code[pc], pc)
    /\ UNCHANGED <<code, lost>>

Crash ==
    /\ lost
    /\ pc \in {Caller} \union DOMAIN code
    /\ pc' = Fault
    /\ UNCHANGED <<code, did, lost>>

Return == pc = External /\ pc' = Caller /\ UNCHANGED <<code, did, lost>>

Next == Lose \/ Call \/ CallOriginal \/ Execute \/ Crash \/ Return

Spec == Init /\ [][Next]_vars
=============================================================================
