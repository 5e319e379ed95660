------------------------------- MODULE CodeHook -------------------------------
(***************************************************************************)
(* src/CodeHook: how the patch redirects a function of Windows to a proxy. *)
(* InstallHook copies the function's first instructions, six bytes or      *)
(* more, into a buffer (the thunk), lets a jump back follow them and       *)
(* writes a jump to the proxy over them; the proxy calls the thunk for the *)
(* original.  The installer runs in DllMain while the messenger is         *)
(* suspended; the calls come after it.                                     *)
(*                                                                         *)
(* An instruction is what it does (op), how long it is, how long the       *)
(* opcode tables take it for (decoded) and its relative operand.  "other"  *)
(* stands for those that have none, "unknown" for what the opcode tables   *)
(* do not hold or end a stream with (int3).                                *)
(***************************************************************************)
EXTENDS MachineCode

CONSTANTS
    Functions, Proc, Proxy, Fault, \* as in FunctionCall
    PageEnd,          \* of the pages that the hook is written to
    Thunk,            \* where the code in the buffer begins, behind its pointers
    ThunkSize,        \* THUNK_BUFFER_SIZE
    Null              \* a pointer that is not set

VARIABLES
    original,         \* the function before it is hooked (history)
    memory,           \* the instructions at their addresses
    step,             \* where the installer is: its next step, "done" or "exited"
    status,           \* HOOK_ERROR
    total,            \* the bytes of the function that are in the thunk
    redirect,         \* the pointer the hook's jump goes through
    thunkFunction,    \* *thunkFunctionOut, what the proxy calls
    protection,       \* of the pages of the function and of the thunk
    unrestored,       \* those whose protection was never put back (history)
    pc, did           \* where a thread of the messenger is, and what it did last

installer == <<step, status, total, redirect, thunkFunction, protection, unrestored>>
vars == <<original, memory, installer, pc, did>>

\* Whether the messenger runs with pages that nobody may execute.
Lost == step = "done" /\ unrestored # {}

Code == INSTANCE FunctionCall WITH code <- original, lost <- Lost

HookSize == 6   \* of a jump through a pointer, and the least that is displaced

\* A function that may be hooked: the tables are right about the displaced
\* instructions they hold, none of which has an operand of one byte, which
\* Relocate would cut, and nothing jumps back among them.  The code tests
\* none of it; that the functions the patch names are such is what it relies
\* on.
Hookable(f) ==
    LET displaced == DOMAIN f \intersect (Proc .. Proc + HookSize - 1)
    IN  /\ \A a \in displaced :
               /\ f[a].op # "unknown" => f[a].decoded = f[a].size
               /\ RelativeSize(f[a]) # 1
        /\ \A a \in DOMAIN f :
               f[a].op \in {"short", "branch", "jump"} => Target(f[a], a) \notin displaced

\* Its instructions lie one behind the other and go on among themselves or
\* leave the function, which is not where the thunk is.
IsCode(f) ==
    /\ f \in [DOMAIN f -> Instruction]
    /\ Proc \in DOMAIN f
    /\ DOMAIN f \subseteq (Proc .. Word - 1) \ (Thunk .. Thunk + ThunkSize)
    /\ \A a \in DOMAIN f : External \notin a .. a + f[a].size
    /\ \A a, b \in DOMAIN f : a < b => a + f[a].size <= b
    /\ \A a \in DOMAIN f : Successors(f[a], a) \subseteq DOMAIN f \union {External, Caller}

ASSUME HookAssumption ==
    /\ \A f \in Functions : IsCode(f) /\ Hookable(f)
    /\ {Word, Proc, PageEnd, External, Thunk, ThunkSize} \subseteq Nat
    /\ PageEnd >= Proc + HookSize
    /\ ThunkSize > HookSize
    /\ ({External} \union (Proc .. Proc + HookSize - 1)) \intersect (Thunk .. Thunk + ThunkSize) = {}
    /\ Caller \notin Int /\ Proxy \notin Int /\ Fault \notin Int
    /\ Caller # Proxy /\ Caller # Fault /\ Proxy # Fault
    /\ Null # Thunk

-----------------------------------------------------------------------------
(* The instructions.                                                       *)

\* Whether Instruction::Decode finds the instruction at a in the tables.  What
\* lies behind the function is taken for int3.
Decodes(a) == a \in DOMAIN memory /\ memory[a].op # "unknown"

\* Slip: the instruction is copied as it is.
RelocateCopied(i, from, to) == i

\* Instruction::Relocate and Emit: the operand keeps its width and is cut to it.
Relocate(i, from, to) ==
    LET value == (from + i.decoded + i.operand) - (to + i.decoded)
    IN  CASE RelativeSize(i) = 1 -> [i EXCEPT !.operand = value % 256]
          [] RelativeSize(i) = 4 -> [i EXCEPT !.operand = value % Word]
          [] OTHER                    -> i

\* Assembler::Jump
JumpTo(target, at) == [op |-> "back", size |-> 5, operand |-> (target - (at + 5)) % Word]

\* Assembler::JumpIndirect over the begin of the function.
JumpIndirect ==
    [a \in {Proc} \union (DOMAIN memory \ (Proc .. Proc + HookSize - 1)) |->
        IF a = Proc THEN [op |-> "hook", size |-> HookSize, operand |-> 0] ELSE memory[a]]

\* The memory with the instruction i at a.
Store(i, a) == [x \in {a} \union DOMAIN memory |-> IF x = a THEN i ELSE memory[x]]

-----------------------------------------------------------------------------
(* InstallHook.                                                            *)

Init ==
    /\ original \in Functions
    /\ memory = original
    /\ step = "resolve"
    /\ status = "HOOK_SUCCESS"
    /\ total = 0
    /\ redirect = Null
    /\ thunkFunction = Null
    /\ protection = [proc |-> "execute_read", rest |-> "execute_read", thunk |-> "none"]
    /\ unrestored = {}
    /\ pc = Caller
    /\ did = Code!Nothing

Threads == <<original, pc, did>>

\* GetModuleHandle and GetProcAddress.  The caller ignores the result.
Resolve ==
    /\ step = "resolve"
    /\ \/ step' = "allocate" /\ UNCHANGED status
       \/ step' = "done" /\ status' \in {"HOOK_NOMODULE", "HOOK_NOFUNC"}
    /\ UNCHANGED <<memory, total, redirect, thunkFunction, protection, unrestored, Threads>>

\* VirtualAlloc.  HookError ends the process.
Allocate ==
    /\ step = "allocate"
    /\ \/ /\ step' = "lock_thunk"
          /\ protection' = [protection EXCEPT !.thunk = "execute_read_write"]
          /\ UNCHANGED status
       \/ step' = "exited" /\ status' = "HOOK_OUTOFMEMORY" /\ UNCHANGED protection
    /\ UNCHANGED <<memory, total, redirect, thunkFunction, unrestored, Threads>>

Fail(error) == status' = error /\ step' = "protect"

\* MemoryBlock::Lock: it locks the region of like pages that the block is in.
Region(block) == IF block = "proc" THEN {"proc", "rest"} ELSE {block}

Protect(pages, rights) ==
    protection' = [p \in DOMAIN protection |-> IF p \in pages THEN rights ELSE protection[p]]

Lock(block) == Protect(Region(block), "read_write")

\* MemoryBlock::Unlock, in its destructor, which ignores that it fails.  It
\* asks for the region once more: by then the pages of the function that were
\* written may differ from the rest, which then keeps its lock.
Unlock(block) ==
    \E pages \in {{}, {block}, Region(block)} :
        /\ Protect(pages, IF block = "proc" THEN "execute_read" ELSE "execute_read_write")
        /\ unrestored' = unrestored \union (Region(block) \ pages)

LockThunk ==
    /\ step = "lock_thunk"
    /\ \/ Lock("thunk") /\ redirect' = Proxy /\ step' = "relocate" /\ UNCHANGED status
       \/ Fail("HOOK_COREFAILED") /\ UNCHANGED <<protection, redirect>>
    /\ UNCHANGED <<memory, total, thunkFunction, unrestored, Threads>>

\* A round of the loop of RelocateCode.
RelocateInstruction ==
    /\ step = "relocate"
    /\ total < HookSize
    /\ LET from == Proc + total
           to == Thunk + total
       IN  IF Decodes(from) /\ total + memory[from].decoded < ThunkSize
           THEN /\ memory' = Store(Relocate(memory[from], from, to), to)
                /\ total' = total + memory[from].decoded
                /\ UNCHANGED <<step, status, protection, unrestored>>
           ELSE /\ Fail("HOOK_NORELOCATE")
                /\ Unlock("thunk")
                /\ total' = 0
                /\ UNCHANGED memory
    /\ UNCHANGED <<redirect, thunkFunction, Threads>>

\* The jump to the rest of the function behind what was relocated.
AppendJump ==
    /\ step = "relocate"
    /\ total >= HookSize
    /\ memory' = Store(JumpTo(Proc + total, Thunk + total), Thunk + total)
    /\ Unlock("thunk")
    /\ step' = "lock_proc"
    /\ UNCHANGED <<status, total, redirect, thunkFunction, Threads>>

LockProc ==
    /\ step = "lock_proc"
    /\ \/ Lock("proc") /\ step' = "redirect" /\ UNCHANGED status
       \/ Fail("HOOK_NOREDIRECT") /\ UNCHANGED protection
    /\ UNCHANGED <<memory, total, redirect, thunkFunction, unrestored, Threads>>

Redirect ==
    /\ step = "redirect"
    /\ thunkFunction' = Thunk
    /\ memory' = JumpIndirect
    /\ Unlock("proc")
    /\ step' = "protect"
    /\ UNCHANGED <<status, total, redirect, Threads>>

\* The second VirtualAlloc, whose failure is ignored, and HookError for any
\* status but success.
Finish ==
    /\ step = "protect"
    /\ \/ Protect({"thunk"}, "execute_read") /\ unrestored' = unrestored \ {"thunk"}
       \/ UNCHANGED <<protection, unrestored>>
    /\ step' = IF status = "HOOK_SUCCESS" THEN "done" ELSE "exited"
    /\ UNCHANGED <<memory, status, total, redirect, thunkFunction, Threads>>

-----------------------------------------------------------------------------
(* The messenger, resumed when the installer is done.                      *)

InThunk(a) == a \in Thunk .. Thunk + total

\* The pages that the instruction at a lies in.
Pages(a) ==
    IF InThunk(a) THEN {"thunk"}
    ELSE {p \in Region("proc") :
             IF p = "proc" THEN a < PageEnd ELSE a + memory[a].size > PageEnd}

Executable(a) ==
    /\ a \in DOMAIN memory
    /\ \A p \in Pages(a) : protection[p] \in {"execute_read", "execute_read_write"}

Call ==
    /\ step = "done"
    /\ pc = Caller
    /\ pc' = Proc
    /\ UNCHANGED <<original, memory, installer, did>>

\* The hook's two jumps are no instructions of the function.
Execute ==
    /\ step = "done"
    /\ pc \notin {Caller, Proxy, External, Fault}
    /\ IF ~Executable(pc) THEN pc' = Fault /\ UNCHANGED did
       ELSE LET i == memory[pc]
            IN  CASE i.op = "hook" -> pc' = redirect /\ UNCHANGED did
                  [] i.op = "back" -> pc' = (pc + i.size + i.operand) % Word /\ UNCHANGED did
                  [] OTHER -> /\ pc' \in Successors(i, pc)
                              /\ did' = Effect(i, pc)
    /\ UNCHANGED <<original, memory, installer>>

\* Each proxy calls the original, whatever it changes of the arguments.
CallOriginal ==
    /\ pc = Proxy
    /\ pc' = IF thunkFunction = Null THEN Fault ELSE thunkFunction
    /\ UNCHANGED <<original, memory, installer, did>>

Return == pc = External /\ pc' = Caller /\ UNCHANGED <<original, memory, installer, did>>

Next ==
    \/ Resolve \/ Allocate \/ LockThunk \/ RelocateInstruction \/ AppendJump
    \/ LockProc \/ Redirect \/ Finish
    \/ Call \/ Execute \/ CallOriginal \/ Return

Spec == Init /\ [][Next]_vars

-----------------------------------------------------------------------------
(* Properties.                                                             *)

\* Where in the function a thread is that is in the thunk.  One that is about
\* to execute the hook has not entered the function yet.
FunctionPc ==
    IF pc \in {Caller, Proxy, External, Fault} THEN pc
    ELSE IF InThunk(pc) THEN Proc + (pc - Thunk)
    ELSE IF pc = Proc /\ memory[Proc].op = "hook" THEN Caller
    ELSE pc

\* A hooked function does what it did before, however its first instructions
\* are cut, wherever the thunk is and whichever of the installer's steps
\* fails: each instruction is executed once, in its place, with its target.
\* A thread crashes only where an Unlock failed, or put back too little, and
\* the pages stayed without the right to be executed.
HookedCall == INSTANCE FunctionCall WITH code <- original, pc <- FunctionPc, lost <- Lost
IsFunctionCall == HookedCall!Spec
=============================================================================
