------------------------------ MODULE MCCodeHook ------------------------------
(***************************************************************************)
(* An instance of CodeHook: every function of three instructions and a     *)
(* return that may be hooked.  A body names each instruction's kind, its   *)
(* size and, if it has a target, the number of the instruction it goes to; *)
(* Out is a target outside.  Misread is an AND of six bytes that the       *)
(* opcode tables take for one of three.                                    *)
(***************************************************************************)
EXTENDS CodeHook, Sequences, FiniteSets, TLC

Out == 5
Misread == <<"other", 6, Out>>

Shapes ==
    {Misread, <<"other", 1, Out>>, <<"other", 2, Out>>, <<"other", 5, Out>>, <<"call", 5, Out>>,
     <<"import", 6, Out>>, <<"return", 1, Out>>, <<"unknown", 1, Out>>}
    \union {<<"short", 2, n>> : n \in {2, 4}}
    \union {<<"branch", 6, n>> : n \in {1, 4, Out}}
    \union {<<"jump", 5, n>> : n \in {2, 4, Out}}

\* Where the instructions of a body begin, and where it ends.
Places(body) ==
    LET second == Proc + body[1][2]
        third == second + body[2][2]
        fourth == third + body[3][2]
    IN  <<Proc, second, third, fourth, fourth + body[4][2]>>

\* The instructions at their addresses.
Assemble(body) ==
    LET places == Places(body)
        operand(n) ==
            CASE body[n][1] = "short" -> (places[body[n][3]] - places[n + 1]) % 256
              [] body[n][1] \in {"branch", "call", "jump"} ->
                     ((IF body[n][3] = Out THEN External ELSE places[body[n][3]]) - places[n + 1]) % Word
              [] OTHER -> 0
        decoded(n) == IF body[n] = Misread THEN 3 ELSE body[n][2]
        at(n) == places[n] :> [op |-> body[n][1], size |-> body[n][2], decoded |-> decoded(n),
                               operand |-> operand(n)]
    IN  at(1) @@ at(2) @@ at(3) @@ at(4)

MCFunctions ==
    {f \in {Assemble(<<i, j, k, <<"return", 1, Out>>>>) : i \in Shapes, j \in Shapes, k \in Shapes} :
        Hookable(f)}
=============================================================================
