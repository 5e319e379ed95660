----------------------------- MODULE MachineCode -----------------------------
(***************************************************************************)
(* IA-32 instructions, as far as moving them matters: what they do (op),   *)
(* how long they are and, if they have one, their relative operand, from   *)
(* which the processor computes where they lead.  The opcode tables of the *)
(* patch have a length of their own for each (decoded), which for some is  *)
(* not the processor's.                                                    *)
(***************************************************************************)
EXTENDS Integers

CONSTANTS
    Word,     \* how many addresses there are
    External, \* where code of others is that is called or jumped to
    Caller    \* where a thread is that has not called, or has returned

Instruction ==
    [op : {"other", "unknown", "import", "return", "short", "branch", "call", "jump"},
     size : Nat \ {0}, decoded : Nat \ {0}, operand : Nat]

\* How much of an instruction is an address relative to its end, in bytes.
RelativeSize(i) ==
    CASE i.op = "short" -> 1
      [] i.op \in {"branch", "call", "jump"} -> 4
      [] OTHER -> 0

\* One byte is sign-extended, four wrap around.
Target(i, a) ==
    LET next == a + i.size
    IN  CASE RelativeSize(i) = 0 -> External
          [] i.op = "short" /\ i.operand >= 128 -> (next + i.operand - 256) % Word
          [] OTHER -> (next + i.operand) % Word

\* Where the thread is after the instruction i at a.  What is called returns.
Successors(i, a) ==
    CASE i.op \in {"short", "branch"} -> {a + i.size, Target(i, a)}
      [] i.op = "jump"                -> {Target(i, a)}
      [] i.op = "import"              -> {External}
      [] i.op = "return"              -> {Caller}
      [] OTHER                        -> {a + i.size}

\* What an instruction does, wherever it stands.
Effect(i, a) == [op |-> i.op, size |-> i.size, target |-> Target(i, a)]
=============================================================================
