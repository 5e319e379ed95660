---------------------------- MODULE CodeHookProofs ----------------------------
(***************************************************************************)
(* A hooked function still is one: CodeHook implements FunctionCall, for   *)
(* every function of which HookAssumption holds, wherever the thunk and    *)
(* the function are and whichever of the installer's steps fails.          *)
(*                                                                         *)
(* The invariant follows the installer: what is in the thunk is what the   *)
(* function begins with, moved, and while the installer is at work nobody  *)
(* executes it.  The step of a thread is then the function's own, because  *)
(* a relocated operand leads where it did (RelocatedTarget).  It crashes   *)
(* only in pages that an Unlock left locked (Crashes).                     *)
(***************************************************************************)
EXTENDS CodeHook, TLAPS

-----------------------------------------------------------------------------
(* Addresses wrap around.                                                  *)

\* Division with remainder.
LEMMA Division ==
    ASSUME NEW W \in Nat \ {0}, NEW x \in Int
    PROVE  \E q \in Int : \E r \in 0 .. W - 1 : x = W * q + r /\ r = x % W
  <1> PICK q, r : q = x \div W /\ r = x % W
    OBVIOUS
  <1>1. q \in Int /\ r \in 0 .. W - 1
    OBVIOUS
  <1>2. x = W * q + r
    BY <1>1
  <1> QED
    BY <1>1, <1>2

\* The remainder is the only one.
LEMMA Remainder ==
    ASSUME NEW W \in Nat \ {0}, NEW q \in Int, NEW r \in 0 .. W - 1
    PROVE  (W * q + r) % W = r
  OBVIOUS

\* Going to t, and from there as far as x is away, leads to x.
LEMMA Relative ==
    ASSUME NEW W \in Nat \ {0}, NEW t \in Int, NEW x \in Int
    PROVE  (t + ((x - t) % W)) % W = x % W
  <1>1. PICK y \in Int : y = x - t
    OBVIOUS
  <1>2. PICK p \in Int, a \in 0 .. W - 1 : y = W * p + a /\ a = y % W
    BY Division
  <1>3. PICK q \in Int, b \in 0 .. W - 1 : x = W * q + b /\ b = x % W
    BY Division
  <1>4. PICK d \in Int : d = q - p
    OBVIOUS
  <1>5. t + a = W * d + b
    <2>1. W * (q - p) = W * q - W * p
      OBVIOUS
    <2> PICK A, B, C : A = W * d /\ B = W * q /\ C = W * p
      OBVIOUS
    <2>2. A \in Int /\ B \in Int /\ C \in Int
      OBVIOUS
    <2>3. A = B - C
      BY <1>4, <2>1
    <2>4. x - t = C + a /\ x = B + b
      BY <1>1, <1>2, <1>3
    <2> QED
      BY <2>2, <2>3, <2>4
  <1>6. (W * d + b) % W = b
    BY Remainder
  <1>7. (t + a) % W = b
    BY <1>5, <1>6
  <1> QED
    BY <1>1, <1>2, <1>3, <1>7

-----------------------------------------------------------------------------
(* The instructions.                                                       *)

\* What is known of a function and of where it is.
LEMMA FunctionFacts ==
    ASSUME NEW f \in Functions
    PROVE  /\ Word \in Nat \ {0} /\ Proc \in DOMAIN f
           /\ \A a \in DOMAIN f :
                 /\ a \in Nat /\ a >= Proc /\ a % Word = a
                 /\ f[a] \in Instruction
                 /\ a \notin Thunk .. Thunk + ThunkSize
                 /\ a # External /\ a + f[a].size # External
                 /\ Successors(f[a], a) \subseteq DOMAIN f \cup {External, Caller}
                 /\ \A b \in DOMAIN f : a < b => a + f[a].size <= b
                 /\ a < Proc + HookSize =>
                       /\ RelativeSize(f[a]) # 1
                       /\ f[a].op # "unknown" => f[a].decoded = f[a].size
                 /\ f[a].op \in {"short", "branch", "jump"} =>
                       Target(f[a], a) \notin DOMAIN f \/ Target(f[a], a) >= Proc + HookSize
  <1>1. /\ IsCode(f) /\ Hookable(f)
        /\ Word \in Nat /\ Proc \in Nat /\ Thunk \in Nat /\ ThunkSize \in Nat /\ HookSize = 6
    BY HookAssumption DEF HookSize
  <1>2. /\ f \in [DOMAIN f -> Instruction] /\ Proc \in DOMAIN f
        /\ DOMAIN f \subseteq (Proc .. Word - 1) \ (Thunk .. Thunk + ThunkSize)
        /\ \A a \in DOMAIN f : External \notin a .. a + f[a].size
        /\ \A a, b \in DOMAIN f : a < b => a + f[a].size <= b
        /\ \A a \in DOMAIN f : Successors(f[a], a) \subseteq DOMAIN f \cup {External, Caller}
    BY <1>1 DEF IsCode
  <1>3. Word > 0
    BY <1>1, <1>2
  <1>4. ASSUME NEW a \in DOMAIN f
        PROVE  /\ a \in Nat /\ a >= Proc /\ a % Word = a
               /\ a \notin Thunk .. Thunk + ThunkSize
               /\ a # External /\ a + f[a].size # External
    <2>1. a \in Proc .. Word - 1 /\ a \notin Thunk .. Thunk + ThunkSize
      BY <1>2
    <2>2. a \in Nat /\ a >= Proc /\ a < Word
      BY <1>1, <2>1
    <2>3. a % Word = a
      BY <1>1, <1>3, <2>2
    <2>4. f[a].size \in Nat
      BY <1>2 DEF Instruction
    <2> QED
      BY <1>2, <2>1, <2>2, <2>3, <2>4
  <1>5. ASSUME NEW a \in DOMAIN f, a < Proc + HookSize
        PROVE  RelativeSize(f[a]) # 1 /\ (f[a].op # "unknown" => f[a].decoded = f[a].size)
    <2>1. a \in DOMAIN f \cap (Proc .. Proc + HookSize - 1)
      BY <1>1, <1>4, <1>5
    <2> QED
      BY <1>1, <2>1 DEF Hookable
  <1>6. ASSUME NEW a \in DOMAIN f, f[a].op \in {"short", "branch", "jump"},
               Target(f[a], a) \in DOMAIN f, ~(Target(f[a], a) >= Proc + HookSize)
        PROVE  FALSE
    <2>1. Target(f[a], a) \notin DOMAIN f \cap (Proc .. Proc + HookSize - 1)
      BY <1>1, <1>6 DEF Hookable
    <2> QED
      BY <1>1, <1>4, <1>6, <2>1
  <1> QED
    BY <1>1, <1>2, <1>3, <1>4, <1>5, <1>6

\* A relocated instruction is the same, and leads where it did.
LEMMA RelocatedTarget ==
    ASSUME NEW i \in Instruction, NEW a \in Int, NEW t \in Int,
           RelativeSize(i) # 1, Word \in Nat \ {0}
    PROVE  /\ Relocate(i, a, t).op = i.op /\ Relocate(i, a, t).size = i.size
           /\ Target(Relocate(i, a, t), t) = Target(i, a)
  <1> PICK j : j = Relocate(i, a, t)
    OBVIOUS
  <1>1. i.size \in Int /\ i.operand \in Int /\ i.decoded \in Int
    BY DEF Instruction
  <1>2. CASE RelativeSize(i) = 4
    <2> PICK x \in Int, u \in Int : x = a + i.size + i.operand /\ u = t + i.size
      BY <1>1
    <2>1. j = [i EXCEPT !.operand = (x - u) % Word]
      <3>1. (a + i.decoded + i.operand) - (t + i.decoded) = x - u
        BY <1>1
      <3> QED
        BY <1>2, <3>1 DEF Relocate
    <2>2. j.op = i.op /\ j.size = i.size /\ j.operand = (x - u) % Word
      BY <2>1 DEF Instruction
    <2>3. RelativeSize(j) = 4
      BY <1>2, <2>2 DEF RelativeSize
    <2>4. i.op # "short"
      BY <1>2 DEF RelativeSize
    <2>5. Target(i, a) = x % Word
      BY <1>1, <1>2, <2>4 DEF Target
    <2>6. Target(j, t) = (u + ((x - u) % Word)) % Word
      BY <2>2, <2>3, <2>4 DEF Target
    <2> QED
      BY <2>2, <2>5, <2>6, Relative
  <1>3. CASE RelativeSize(i) = 0
    <2>1. j = i
      BY <1>3 DEF Relocate
    <2>2. i.op # "short"
      BY <1>3 DEF RelativeSize
    <2>3. Target(i, a) = External /\ Target(i, t) = External
      BY <1>3, <2>2 DEF Target
    <2> QED
      BY <2>1, <2>3
  <1> QED
    BY <1>2, <1>3 DEF RelativeSize

-----------------------------------------------------------------------------
(* The installer.                                                          *)

\* Where the copy of the instruction at a is.
Moved(a) == Thunk + (a - Proc)
Copied == {a \in DOMAIN original : a < Proc + total}

\* But for the thunk the memory holds the function, from low on.
Intact(low) ==
    /\ \A a \in DOMAIN memory :
          a \in Nat /\ (a >= low => a \in DOMAIN original \cup (Thunk .. Thunk + ThunkSize))
    /\ \A a \in DOMAIN original : a >= low => a \in DOMAIN memory /\ memory[a] = original[a]

\* The thunk begins with the first instructions of the function.
Relocated ==
    /\ total < ThunkSize
    /\ \A a \in Copied :
          /\ a < Proc + HookSize /\ a + original[a].size <= Proc + total
          /\ Moved(a) \in DOMAIN memory
          /\ memory[Moved(a)] = Relocate(original[a], a, Moved(a))

\* All that the hook displaces is there, and the jump to the rest behind it.
Complete ==
    /\ Relocated /\ total >= HookSize
    /\ Thunk + total \in DOMAIN memory
    /\ memory[Thunk + total] = JumpTo(Proc + total, Thunk + total)

\* The hook is there, too.
Hooked ==
    /\ Complete /\ Intact(Proc + HookSize)
    /\ Proc \in DOMAIN memory /\ memory[Proc].op = "hook"
    /\ thunkFunction = Thunk

\* Where a thread may be when nothing is hooked, and where it may be else.
PlainPlaces == {Caller, External} \cup DOMAIN original
HookedPlaces ==
    {Caller, Proxy, External, Proc} \cup {a \in DOMAIN original : a >= Proc + HookSize}
    \cup {Moved(a) : a \in {b \in DOMAIN original : b <= Proc + total}}

\* What holds at each of the installer's steps.
Prepared == step \in {"resolve", "allocate", "lock_thunk"} => total = 0 /\ Intact(Proc)
Copying == step = "relocate" => Relocated /\ Intact(Proc)
Assembled == step \in {"lock_proc", "redirect"} => Complete /\ Intact(Proc)
Installed == step \in {"protect", "done"} /\ status = "HOOK_SUCCESS" => Hooked
Spared == step = "done" /\ status # "HOOK_SUCCESS" => total = 0 /\ Intact(Proc)

\* What the proxy and the thunk are reached by.  What was put back may be
\* executed.
Protected ==
    /\ step \notin {"resolve", "allocate", "lock_thunk", "exited"}
           /\ status = "HOOK_SUCCESS" => redirect = Proxy
    /\ step = "redirect" \/ \A p \in Region("proc") \ unrestored : protection[p] = "execute_read"
    /\ step \in {"lock_proc", "redirect", "protect", "done"} /\ status = "HOOK_SUCCESS" =>
           "thunk" \in unrestored \/ protection["thunk"] \in {"execute_read", "execute_read_write"}

\* What has been put back is known before it is locked, and where all is well.
Restored ==
    /\ step \in {"resolve", "allocate", "lock_thunk", "relocate"} => unrestored = {}
    /\ step \in {"lock_proc", "redirect"} => unrestored \subseteq {"thunk"}
    /\ step = "done" /\ status # "HOOK_SUCCESS" => unrestored = {}

Place ==
    /\ step # "done" => pc = Caller
    /\ step = "done" =>
           \/ pc \in IF status = "HOOK_SUCCESS" THEN HookedPlaces ELSE PlainPlaces
           \/ pc = Fault /\ unrestored # {}

Types ==
    /\ original \in Functions
    /\ total \in Nat
    /\ step \in {"resolve", "allocate", "lock_thunk", "relocate", "lock_proc", "redirect",
                 "protect", "done", "exited"}
    /\ step \notin {"protect", "done", "exited"} => status = "HOOK_SUCCESS"
    /\ protection \in [{"proc", "rest", "thunk"} -> {"none", "execute_read",
                                                     "execute_read_write", "read_write"}]
    /\ unrestored \subseteq {"proc", "rest", "thunk"}

\* The inductive invariant.
HookInv ==
    /\ Types /\ Prepared /\ Copying /\ Assembled /\ Installed /\ Spared
    /\ Protected /\ Restored /\ Place

\* The numbers of the layout.
LEMMA Layout ==
    /\ HookSize = 6 /\ Proc \in Nat /\ Thunk \in Nat /\ ThunkSize \in Nat /\ ThunkSize > HookSize
    /\ \A a \in Proc .. Proc + HookSize - 1 : a \notin Thunk .. Thunk + ThunkSize
    /\ External \notin Thunk .. Thunk + ThunkSize /\ External \in Nat
  BY HookAssumption DEF HookSize

\* An instruction is added to the memory.
LEMMA Stored ==
    ASSUME NEW i, NEW x, memory' = Store(i, x)
    PROVE  /\ DOMAIN memory' = {x} \cup DOMAIN memory
           /\ memory'[x] = i
           /\ \A y \in DOMAIN memory : y # x => memory'[y] = memory[y]
  BY DEF Store

\* What is said of the memory stays so when it does.
LEMMA MemoryKept ==
    ASSUME original' = original, memory' = memory, total' = total
    PROVE  /\ \A low \in Nat : Intact(low) => Intact(low)'
           /\ Relocated => Relocated'
           /\ Complete => Complete'
           /\ Hooked /\ thunkFunction' = thunkFunction => Hooked'
  BY DEF Intact, Relocated, Copied, Complete, Hooked

\* A round of the copying: the copy grows by the instruction behind it.
LEMMA Copies ==
    ASSUME HookInv, RelocateInstruction,
           Decodes(Proc + total), total + memory[Proc + total].decoded < ThunkSize
    PROVE  /\ total' \in Nat /\ Relocated' /\ Intact(Proc)'
           /\ UNCHANGED <<step, status, protection, unrestored>>
  <1> DEFINE from == Proc + total
             to == Thunk + total
             size == memory[from].size
  <1>1. /\ original \in Functions /\ total \in Nat /\ total < HookSize
        /\ Relocated /\ Intact(Proc) /\ original' = original
    BY DEF HookInv, Types, Copying, RelocateInstruction, Threads
  <1>2. /\ memory' = Store(Relocate(memory[from], from, to), to)
        /\ total' = total + memory[from].decoded
        /\ UNCHANGED <<step, status, protection, unrestored>>
    BY DEF RelocateInstruction
  <1>3. from \in DOMAIN original /\ memory[from] = original[from]
    <2>1. from \in DOMAIN memory /\ from \in Proc .. Proc + HookSize - 1 /\ from >= Proc
      BY <1>1, Layout DEF Decodes
    <2>2. from \in DOMAIN original
      BY <1>1, <2>1, Layout DEF Intact
    <2> QED
      BY <1>1, <2>1, <2>2 DEF Intact
  <1>3a. memory[from].decoded = size
    <2>1. from < Proc + HookSize /\ original[from].op # "unknown"
      BY <1>1, <1>3, Layout DEF Decodes
    <2> QED
      BY <1>1, <1>3, <2>1, FunctionFacts
  <1>4. from \in Nat /\ to \in Nat /\ size \in Nat \ {0} /\ total + size < ThunkSize
    BY <1>1, <1>3, <1>3a, Layout, FunctionFacts DEF Instruction
  <1>5. to \in Thunk .. Thunk + ThunkSize /\ to = Moved(from)
    BY <1>1, <1>4, Layout DEF Moved
  <1>6. ASSUME NEW a \in DOMAIN original
        PROVE  a < Proc + (total + size) => a < Proc + total \/ a = from
    <2>1. a \in Nat /\ (from < a => from + size <= a)
      BY <1>1, <1>3, FunctionFacts
    <2> QED
      BY <1>1, <1>4, <2>1, Layout
  <1>3b. total' = total + size
    BY <1>2, <1>3a
  <1> HIDE DEF from, to, size
  <1>7. /\ DOMAIN memory' = {to} \cup DOMAIN memory
        /\ memory'[to] = Relocate(memory[from], from, to)
        /\ \A y \in DOMAIN memory : y # to => memory'[y] = memory[y]
    BY <1>2, Stored
  <1>8. Intact(Proc)'
    <2>1. \A a \in DOMAIN original : a \in DOMAIN memory => a # to
      BY <1>1, <1>5, FunctionFacts
    <2> QED
      BY <1>1, <1>4, <1>5, <1>7, <2>1 DEF Intact
  <1>9. Relocated'
    <2>1. total' < ThunkSize
      BY <1>4, <1>3b
    <2>2. ASSUME NEW a \in DOMAIN original, a < Proc + total'
          PROVE  /\ a < Proc + HookSize /\ a + original[a].size <= Proc + total'
                 /\ Moved(a) \in DOMAIN memory'
                 /\ memory'[Moved(a)] = Relocate(original[a], a, Moved(a))
      <3>1. CASE a < Proc + total
        <4>1. /\ a < Proc + HookSize /\ a + original[a].size <= Proc + total
              /\ Moved(a) \in DOMAIN memory
              /\ memory[Moved(a)] = Relocate(original[a], a, Moved(a))
          BY <1>1, <3>1 DEF Relocated, Copied
        <4>2. a \in Nat /\ original[a].size \in Nat
          BY <1>1, FunctionFacts DEF Instruction
        <4>3. Moved(a) # to
          BY <1>1, <3>1, <4>2, Layout DEF Moved, to
        <4> QED
          BY <1>1, <1>4, <1>7, <1>3b, <4>1, <4>2, <4>3, Layout
      <3>2. CASE a = from
        <4>1. a < Proc + HookSize
          BY <1>1, <3>2, Layout DEF from
        <4>2. a + original[a].size <= Proc + total'
          BY <1>1, <1>3, <1>4, <1>3b, <3>2, Layout DEF from, size
        <4> QED
          BY <1>3, <1>5, <1>7, <3>2, <4>1, <4>2
      <3> QED
        BY <1>6, <1>3b, <2>2, <3>1, <3>2
    <2> QED
      BY <1>1, <2>1, <2>2 DEF Relocated, Copied
  <1> QED
    BY <1>1, <1>2, <1>4, <1>8, <1>9, <1>3b

\* The jump to the rest goes behind the copy.
LEMMA Appends ==
    ASSUME HookInv, AppendJump
    PROVE  Complete' /\ Intact(Proc)'
  <1> DEFINE to == Thunk + total
  <1>1. /\ original \in Functions /\ total \in Nat /\ total >= HookSize
        /\ Relocated /\ Intact(Proc) /\ original' = original /\ total' = total
        /\ memory' = Store(JumpTo(Proc + total, to), to)
    BY DEF HookInv, Types, Copying, AppendJump, Threads
  <1>2. to \in Thunk .. Thunk + ThunkSize
    BY <1>1, Layout DEF Relocated
  <1>3. \A a \in Copied : Moved(a) # to
    BY <1>1, Layout, FunctionFacts DEF Moved, Copied
  <1> HIDE DEF to
  <1>4. /\ DOMAIN memory' = {to} \cup DOMAIN memory
        /\ memory'[to] = JumpTo(Proc + total, to)
        /\ \A y \in DOMAIN memory : y # to => memory'[y] = memory[y]
    BY <1>1, Stored
  <1>5. Intact(Proc)'
    <2>1. \A a \in DOMAIN original : a \in DOMAIN memory => a # to
      BY <1>1, <1>2, FunctionFacts
    <2>2. to \in Nat
      BY <1>2, Layout
    <2> QED
      BY <1>1, <1>2, <1>4, <2>1, <2>2 DEF Intact
  <1>6. Relocated'
    BY <1>1, <1>3, <1>4 DEF Relocated, Copied
  <1> QED
    BY <1>1, <1>4, <1>5, <1>6 DEF Complete, to

\* The hook displaces nothing but what is in the thunk.
LEMMA Redirects ==
    ASSUME HookInv, Redirect
    PROVE  Hooked'
  <1>1. /\ original \in Functions /\ total \in Nat
        /\ Complete /\ Intact(Proc) /\ original' = original /\ total' = total
        /\ memory' = JumpIndirect /\ thunkFunction' = Thunk
    BY DEF HookInv, Types, Assembled, Redirect, Threads
  <1>2. /\ DOMAIN memory' = {Proc} \cup (DOMAIN memory \ (Proc .. Proc + HookSize - 1))
        /\ memory'[Proc].op = "hook"
        /\ \A y \in DOMAIN memory : y \notin Proc .. Proc + HookSize - 1 => memory'[y] = memory[y]
    <2>1. Proc \in Proc .. Proc + HookSize - 1
      BY Layout
    <2> QED
      BY <1>1, <2>1 DEF JumpIndirect
  <1>3. \A y \in Thunk .. Thunk + ThunkSize : y \notin Proc .. Proc + HookSize - 1
    BY Layout
  <1>4. \A a \in Copied : Moved(a) \in Thunk .. Thunk + ThunkSize
    BY <1>1, Layout, FunctionFacts DEF Moved, Copied, Complete, Relocated
  <1>5. Relocated'
    BY <1>1, <1>2, <1>3, <1>4 DEF Relocated, Copied, Complete
  <1>6. Thunk + total \in Thunk .. Thunk + ThunkSize
    BY <1>1, Layout DEF Complete, Relocated
  <1>7. Complete'
    BY <1>1, <1>2, <1>3, <1>5, <1>6 DEF Complete
  <1>8. Intact(Proc + HookSize)'
    <2>1. ASSUME NEW a \in DOMAIN memory', a >= Proc + HookSize
          PROVE  a \in DOMAIN original \cup (Thunk .. Thunk + ThunkSize)
      <3>1. a # Proc
        BY <2>1, Layout
      <3>2. a \in DOMAIN memory
        BY <1>2, <2>1, <3>1
      <3>3. a \in Nat /\ a >= Proc
        BY <1>1, <2>1, <3>2, Layout DEF Intact
      <3> QED
        BY <1>1, <3>2, <3>3 DEF Intact
    <2>3. \A a \in DOMAIN memory' : a \in Nat
      BY <1>1, <1>2, Layout DEF Intact
    <2>2. ASSUME NEW a \in DOMAIN original, a >= Proc + HookSize
          PROVE  a \in DOMAIN memory' /\ memory'[a] = original[a]
      <3>1. a \in Nat /\ a >= Proc /\ a \notin Proc .. Proc + HookSize - 1
        <4>1. a \in Nat
          BY <1>1, <2>2, FunctionFacts
        <4> QED
          BY <2>2, <4>1, Layout
      <3> QED
        BY <1>1, <1>2, <3>1 DEF Intact
    <2> QED
      BY <1>1, <2>1, <2>2, <2>3 DEF Intact
  <1> QED
    BY <1>1, <1>2, <1>7, <1>8 DEF Hooked

-----------------------------------------------------------------------------
(* A thread, by what it executes.                                          *)

\* An instruction of the function goes on in the function or leaves it, and
\* one behind the hook never gets back into it.
LEMMA Goes ==
    ASSUME NEW f \in Functions, NEW a \in DOMAIN f, NEW z \in Successors(f[a], a)
    PROVE  /\ z \in DOMAIN f \cup {External, Caller}
           /\ z \in DOMAIN f /\ a >= Proc + HookSize => z >= Proc + HookSize
  <1>1. /\ f[a] \in Instruction /\ a \in Nat /\ Proc \in Nat /\ HookSize = 6
        /\ z \in DOMAIN f \cup {External, Caller}
        /\ f[a].op \in {"short", "branch", "jump"} =>
              Target(f[a], a) \notin DOMAIN f \/ Target(f[a], a) >= Proc + HookSize
        /\ External \notin DOMAIN f /\ Caller \notin DOMAIN f
    BY FunctionFacts, Layout, HookAssumption
  <1>2. f[a].size \in Nat
    BY <1>1 DEF Instruction
  <1>3. \/ z = a + f[a].size
        \/ f[a].op \in {"short", "branch", "jump"} /\ z = Target(f[a], a)
        \/ z \in {External, Caller}
    BY DEF Successors
  <1> QED
    BY <1>1, <1>2, <1>3

\* Its copy in the thunk goes to the copy of the next one, or where the
\* instruction goes, which is not among those the hook displaces.
LEMMA CopyGoes ==
    ASSUME HookInv, Complete, NEW a \in Copied,
           NEW y \in Successors(Relocate(original[a], a, Moved(a)), Moved(a))
    PROVE  \E z \in Successors(original[a], a) :
              \/ y = z /\ (z \in DOMAIN original => z >= Proc + HookSize)
              \/ z \in DOMAIN original /\ z <= Proc + total /\ y = Moved(z)
  <1> DEFINE i == original[a]
             t == Moved(a)
             j == Relocate(i, a, t)
  <1>1. /\ original \in Functions /\ a \in DOMAIN original /\ i \in Instruction
        /\ a \in Nat /\ a < Proc + HookSize /\ a + i.size <= Proc + total
        /\ RelativeSize(i) # 1 /\ Word \in Nat \ {0} /\ t \in Int
    BY FunctionFacts, Layout DEF HookInv, Types, Complete, Relocated, Copied, Moved
  <1>2. i.size \in Nat /\ t + i.size = Moved(a + i.size)
    BY <1>1, Layout DEF Instruction, Moved
  <1>3. j.op = i.op /\ j.size = i.size /\ Target(j, t) = Target(i, a)
    <2> HIDE DEF i, t
    <2>1. a \in Int
      BY <1>1
    <2> QED
      BY <1>1, <2>1, RelocatedTarget, Zenon
  <1> HIDE DEF i, t
  <1>4. y \in Successors(j, t)
    BY DEF i, t
  <1> HIDE DEF j
  <1>5. /\ Successors(i, a) \subseteq DOMAIN original \cup {External, Caller}
        /\ i.op \in {"short", "branch", "jump"} =>
              Target(i, a) \notin DOMAIN original \/ Target(i, a) >= Proc + HookSize
        /\ External \notin DOMAIN original /\ Caller \notin DOMAIN original
    BY <1>1, FunctionFacts, HookAssumption DEF i
  <1>6. CASE y = t + i.size /\ i.op \notin {"jump", "import", "return"}
    <2>1. a + i.size \in Successors(i, a)
      BY <1>6 DEF Successors
    <2>2. a + i.size \in DOMAIN original
      <3>1. a + i.size # External
        BY <1>1, FunctionFacts DEF i
      <3> QED
        BY <1>1, <1>2, <1>5, <2>1, <3>1, HookAssumption
    <2> QED
      BY <1>1, <1>2, <1>6, <2>1, <2>2 DEF i
  <1>7. CASE i.op \in {"short", "branch", "jump"} /\ y = Target(i, a)
    <2>1. y \in Successors(i, a)
      BY <1>7 DEF Successors
    <2> QED
      BY <1>5, <1>7, <2>1 DEF i
  <1>8. CASE \/ i.op = "import" /\ y = External
             \/ i.op = "return" /\ y = Caller
    <2>1. y \in Successors(i, a)
      BY <1>8 DEF Successors
    <2> QED
      BY <1>5, <1>8, <2>1 DEF i
  <1> QED
    BY <1>3, <1>4, <1>6, <1>7, <1>8 DEF Successors

\* FunctionPc, of any place.
InFunction(p) ==
    IF p \in {Caller, Proxy, External, Fault} THEN p
    ELSE IF InThunk(p) THEN Proc + (p - Thunk)
    ELSE IF p = Proc /\ memory[Proc].op = "hook" THEN Caller
    ELSE p

\* A place has its meaning as long as the memory stays as it is.
LEMMA FunctionPcIs ==
    /\ FunctionPc = InFunction(pc)
    /\ UNCHANGED <<memory, total>> => FunctionPc' = InFunction(pc')
  BY DEF FunctionPc, InFunction, InThunk

\* Where in the function the places of a thread are.
LEMMA InFunctionOf ==
    ASSUME HookInv
    PROVE  /\ \A p \in {Caller, Proxy, External, Fault} : InFunction(p) = p
           /\ step = "done" /\ status = "HOOK_SUCCESS" => InFunction(Proc) = Caller
           /\ step = "done" => \A a \in DOMAIN original :
                 status # "HOOK_SUCCESS" \/ a >= Proc + HookSize => InFunction(a) = a
           /\ step = "done" /\ status = "HOOK_SUCCESS" => \A a \in DOMAIN original :
                 a <= Proc + total => InFunction(Moved(a)) = a
  <1>1. /\ original \in Functions /\ total \in Nat /\ Proc \in DOMAIN original
        /\ \A a \in DOMAIN original :
              a \in Nat /\ a >= Proc /\ a \notin Thunk .. Thunk + ThunkSize /\ a # External
    BY FunctionFacts DEF HookInv, Types
  <1>2. /\ HookSize = 6 /\ Proc \in Nat /\ Thunk \in Nat /\ ThunkSize \in Nat
        /\ External \notin Thunk .. Thunk + ThunkSize
        /\ Caller \notin Int /\ Proxy \notin Int /\ Fault \notin Int
    BY Layout, HookAssumption
  <1>3. step = "done" => total < ThunkSize
    BY <1>2, Layout DEF HookInv, Installed, Spared, Hooked, Complete, Relocated
  <1>4. step = "done" => \A a \in DOMAIN original :
           a \notin {Caller, Proxy, External, Fault} /\ ~InThunk(a)
    BY <1>1, <1>2, <1>3 DEF InThunk
  <1>5. ASSUME step = "done", status = "HOOK_SUCCESS"
        PROVE  InFunction(Proc) = Caller
    BY <1>1, <1>4, <1>5 DEF InFunction, HookInv, Installed, Hooked
  <1>6. ASSUME step = "done", NEW a \in DOMAIN original,
               status # "HOOK_SUCCESS" \/ a >= Proc + HookSize
        PROVE  InFunction(a) = a
    <2>1. CASE a # Proc
      BY <1>4, <1>6, <2>1 DEF InFunction
    <2>2. CASE a = Proc
      <3>1. status # "HOOK_SUCCESS"
        BY <1>2, <1>6, <2>2
      <3>2. memory[Proc] = original[Proc] /\ original[Proc].op # "hook"
        BY <1>1, <1>2, <1>6, <3>1, FunctionFacts DEF HookInv, Spared, Intact, Instruction
      <3> QED
        BY <1>4, <1>6, <2>2, <3>2 DEF InFunction
    <2> QED
      BY <2>1, <2>2
  <1>7. ASSUME step = "done", NEW a \in DOMAIN original, a <= Proc + total
        PROVE  InFunction(Moved(a)) = a
    <2>1. Moved(a) \in Thunk .. Thunk + total
      BY <1>1, <1>2, <1>7 DEF Moved
    <2>2. Moved(a) \in Int /\ Moved(a) # External
      BY <1>1, <1>2, <1>3, <1>7, <2>1
    <2>3. InFunction(Moved(a)) = Proc + (Moved(a) - Thunk)
      BY <1>2, <2>1, <2>2 DEF InFunction, InThunk
    <2> QED
      BY <1>1, <1>2, <2>3 DEF Moved
  <1>8. \A p \in {Caller, Proxy, External, Fault} : InFunction(p) = p
    BY DEF InFunction
  <1> QED
    BY <1>5, <1>6, <1>7, <1>8

\* The step of the function that a step of a thread stands for.
Executed(a, z) ==
    /\ a \in DOMAIN original
    /\ z \in Successors(original[a], a)
    /\ did' = Effect(original[a], a)

\* What the processor executes where it may.
LEMMA ExecutesAt ==
    ASSUME Execute, Executable(pc)
    PROVE  /\ memory[pc].op = "hook" => pc' = redirect /\ did' = did
           /\ memory[pc].op = "back" =>
                 pc' = (pc + memory[pc].size + memory[pc].operand) % Word /\ did' = did
           /\ memory[pc].op \notin {"hook", "back"} =>
                 pc' \in Successors(memory[pc], pc) /\ did' = Effect(memory[pc], pc)
  BY DEF Execute

\* Where a thread is there is an instruction.
LEMMA InMemory ==
    ASSUME HookInv, Execute
    PROVE  pc \in DOMAIN memory
  <1>1. /\ original \in Functions /\ total \in Nat /\ step = "done"
        /\ pc \notin {Caller, Proxy, External, Fault}
    BY DEF HookInv, Types, Execute
  <1>2. CASE status # "HOOK_SUCCESS"
    <2>1. Intact(Proc) /\ pc \in DOMAIN original
      BY <1>1, <1>2 DEF HookInv, Spared, Place, PlainPlaces
    <2> QED
      BY <1>1, <2>1, FunctionFacts DEF Intact
  <1>3. CASE status = "HOOK_SUCCESS"
    <2>1. Hooked /\ pc \in HookedPlaces
      BY <1>1, <1>3 DEF HookInv, Installed, Place
    <2>2. CASE pc = Proc \/ pc \in {a \in DOMAIN original : a >= Proc + HookSize}
      BY <2>1, <2>2 DEF Hooked, Intact
    <2>3. ASSUME NEW a \in DOMAIN original, a <= Proc + total, pc = Moved(a)
          PROVE  pc \in DOMAIN memory
      <3>1. CASE a = Proc + total
        BY <1>1, <2>1, <2>3, <3>1, Layout DEF Hooked, Complete, Moved
      <3>2. CASE a # Proc + total
        <4>1. a \in Nat /\ Proc \in Nat
          BY <1>1, FunctionFacts, Layout
        <4>2. a \in Copied
          BY <1>1, <2>3, <3>2, <4>1 DEF Copied
        <4> QED
          BY <2>1, <2>3, <4>2 DEF Hooked, Complete, Relocated
      <3> QED
        BY <3>1, <3>2
    <2> QED
      BY <1>1, <2>1, <2>2, <2>3 DEF HookedPlaces
  <1> QED
    BY <1>2, <1>3

\* A thread crashes only in pages that were not put back.
LEMMA Crashes ==
    ASSUME HookInv, Execute, ~Executable(pc)
    PROVE  unrestored # {} /\ pc' = Fault /\ did' = did
  <1>1. pc' = Fault /\ did' = did /\ step = "done"
    BY DEF Execute
  <1>2. PICK p \in Pages(pc) : protection[p] \notin {"execute_read", "execute_read_write"}
    BY InMemory DEF Executable
  <1>3. CASE p \in Region("proc")
    BY <1>1, <1>2, <1>3 DEF HookInv, Protected
  <1>4. CASE p \notin Region("proc")
    <2>1. p = "thunk" /\ InThunk(pc)
      BY <1>2, <1>4 DEF Pages
    <2>2. CASE status = "HOOK_SUCCESS"
      BY <1>1, <1>2, <2>1, <2>2 DEF HookInv, Protected
    <2>3. CASE status # "HOOK_SUCCESS"
      <3>1. /\ original \in Functions /\ total = 0 /\ pc \in DOMAIN original
        BY <1>1, <2>3 DEF HookInv, Types, Spared, Place, PlainPlaces, Execute
      <3>2. pc \notin Thunk .. Thunk + ThunkSize
        BY <3>1, FunctionFacts
      <3> QED
        BY <2>1, <3>1, <3>2, Layout DEF InThunk
    <2> QED
      BY <2>2, <2>3
  <1> QED
    BY <1>1, <1>3, <1>4

\* Of a function that is not hooked: it is executed as it stands.
LEMMA PlainExecute ==
    ASSUME HookInv, Execute, Executable(pc), status # "HOOK_SUCCESS"
    PROVE  Executed(pc, pc') /\ pc' \in PlainPlaces /\ InFunction(pc) = pc /\ InFunction(pc') = pc'
  <1>1. /\ original \in Functions /\ step = "done" /\ total = 0 /\ Intact(Proc)
        /\ pc \in PlainPlaces /\ pc \notin {Caller, External, Fault}
    BY DEF HookInv, Types, Spared, Place, Execute
  <1>2. pc \in DOMAIN original /\ pc \in DOMAIN memory /\ memory[pc] = original[pc]
    BY <1>1, FunctionFacts DEF PlainPlaces, Intact
  <1>3. original[pc].op \notin {"hook", "back"}
    BY <1>1, <1>2, FunctionFacts DEF Instruction
  <1>4. Executed(pc, pc')
    BY <1>2, <1>3, ExecutesAt DEF Executed
  <1>5. pc' \in PlainPlaces
    BY <1>1, <1>4, Goes DEF Executed, PlainPlaces
  <1> QED
    BY <1>1, <1>2, <1>4, <1>5, InFunctionOf DEF PlainPlaces

\* At the hook: the proxy is called.
LEMMA HookExecute ==
    ASSUME HookInv, Execute, Executable(pc), status = "HOOK_SUCCESS", pc = Proc
    PROVE  pc' = Proxy /\ did' = did
  BY ExecutesAt DEF HookInv, Installed, Hooked, Protected, Execute

\* At the jump behind the copy: the rest of the function is next.
LEMMA BackExecute ==
    ASSUME HookInv, Execute, Executable(pc), status = "HOOK_SUCCESS",
           Proc + total \in DOMAIN original, pc = Moved(Proc + total)
    PROVE  pc' = Proc + total /\ did' = did
  <1> PICK t, x : t = Thunk + total /\ x = Proc + total
    OBVIOUS
  <1>1. /\ original \in Functions /\ total \in Nat /\ step = "done" /\ Complete
    BY DEF HookInv, Types, Installed, Hooked, Execute
  <1>2. t \in Nat /\ x \in Nat /\ pc = t
    BY <1>1, Layout DEF Moved
  <1>3. pc \in DOMAIN memory /\ memory[pc] = JumpTo(x, t)
    BY <1>1, <1>2 DEF Complete
  <1>4. pc' = (t + 5 + ((x - (t + 5)) % Word)) % Word /\ did' = did
    BY <1>2, <1>3, ExecutesAt DEF JumpTo
  <1>5. Word \in Nat \ {0} /\ x % Word = x
    BY <1>1, FunctionFacts
  <1>6. PICK u \in Int : u = t + 5
    BY <1>2
  <1>7. (u + ((x - u) % Word)) % Word = x % Word
    <2>1. x \in Int
      BY <1>2
    <2> QED
      BY <1>5, <2>1, Relative, Zenon
  <1> QED
    BY <1>4, <1>5, <1>6, <1>7

\* Behind the hook: the function is executed as it stands.
LEMMA RestExecute ==
    ASSUME HookInv, Execute, Executable(pc), status = "HOOK_SUCCESS",
           pc \in DOMAIN original, pc >= Proc + HookSize
    PROVE  Executed(pc, pc') /\ (pc' \in DOMAIN original => pc' >= Proc + HookSize)
  <1>1. original \in Functions /\ step = "done" /\ Intact(Proc + HookSize)
    BY DEF HookInv, Types, Installed, Hooked, Execute
  <1>2. pc \in DOMAIN memory /\ memory[pc] = original[pc]
    BY <1>1, FunctionFacts DEF Intact
  <1>3. original[pc].op \notin {"hook", "back"}
    BY <1>1, FunctionFacts DEF Instruction
  <1>4. Executed(pc, pc')
    BY <1>2, <1>3, ExecutesAt DEF Executed
  <1> QED
    BY <1>1, <1>4, Goes DEF Executed

\* In the copy: the instruction that was moved is executed.
LEMMA CopyExecute ==
    ASSUME HookInv, Execute, Executable(pc), status = "HOOK_SUCCESS",
           NEW a \in Copied, pc = Moved(a)
    PROVE  \E z \in Successors(original[a], a) :
              /\ Executed(a, z)
              /\ \/ pc' = z /\ (z \in DOMAIN original => z >= Proc + HookSize)
                 \/ z \in DOMAIN original /\ z <= Proc + total /\ pc' = Moved(z)
  <1> PICK i, j : i = original[a] /\ j = Relocate(original[a], a, Moved(a))
    OBVIOUS
  <1>1. original \in Functions /\ a \in DOMAIN original /\ Complete /\ Relocated
    BY DEF HookInv, Types, Installed, Hooked, Complete, Copied, Execute
  <1>2. /\ i \in Instruction /\ a \in Int /\ RelativeSize(i) # 1 /\ Word \in Nat \ {0}
        /\ Moved(a) \in Int
    BY <1>1, FunctionFacts, Layout DEF Relocated, Moved
  <1>3. pc \in DOMAIN memory /\ memory[pc] = j
    BY <1>1 DEF Relocated
  <1>4. j.op = i.op /\ j.size = i.size /\ Target(j, Moved(a)) = Target(i, a)
    BY <1>2, RelocatedTarget, Zenon
  <1>5. j.op \notin {"hook", "back"}
    BY <1>2, <1>4 DEF Instruction
  <1>6. pc' \in Successors(j, Moved(a)) /\ did' = Effect(j, Moved(a))
    BY <1>3, <1>5, ExecutesAt
  <1>7. did' = Effect(i, a)
    BY <1>4, <1>6 DEF Effect
  <1>8. PICK z \in Successors(original[a], a) :
           \/ pc' = z /\ (z \in DOMAIN original => z >= Proc + HookSize)
           \/ z \in DOMAIN original /\ z <= Proc + total /\ pc' = Moved(z)
    BY <1>1, <1>6, CopyGoes
  <1> QED
    BY <1>1, <1>7, <1>8 DEF Executed

-----------------------------------------------------------------------------
(* The invariant.                                                          *)

\* Nothing is hooked at first.
LEMMA HookInit == Init => HookInv
  <1> SUFFICES ASSUME Init PROVE HookInv
    OBVIOUS
  <1>1. /\ original \in Functions /\ memory = original /\ total = 0
        /\ step = "resolve" /\ status = "HOOK_SUCCESS" /\ pc = Caller /\ unrestored = {}
        /\ protection = [proc |-> "execute_read", rest |-> "execute_read", thunk |-> "none"]
    BY DEF Init
  <1>2. Types
    BY <1>1 DEF Types
  <1>3. Prepared
    <2>1. \A a \in DOMAIN original : a \in Nat
      BY <1>1, FunctionFacts
    <2> QED
      BY <1>1, <2>1 DEF Prepared, Intact
  <1>4. Copying /\ Assembled /\ Installed /\ Spared
    BY <1>1 DEF Copying, Assembled, Installed, Spared
  <1>5. Protected /\ Restored /\ Place
    BY <1>1 DEF Protected, Restored, Region, Place
  <1> QED
    BY <1>2, <1>3, <1>4, <1>5 DEF HookInv

\* Before anything is copied, and when a lock is refused.
LEMMA HookPreparing ==
    ASSUME HookInv, Resolve \/ Allocate \/ LockThunk
    PROVE  HookInv'
  <1>1. /\ Types /\ step \in {"resolve", "allocate", "lock_thunk"} /\ pc = Caller
        /\ status = "HOOK_SUCCESS" /\ total = 0 /\ Intact(Proc) /\ Protected
        /\ unrestored = {} /\ \A p \in Region("proc") : protection[p] = "execute_read"
    BY DEF HookInv, Types, Prepared, Protected, Restored, Place, Resolve, Allocate, LockThunk
  <1>2. UNCHANGED <<original, memory, total, unrestored, pc>>
    BY DEF Resolve, Allocate, LockThunk, Threads
  <1>3. Intact(Proc)'
    BY <1>1, <1>2, MemoryKept, Layout
  <1>4. Relocated'
    <2>1. total < ThunkSize
      BY <1>1, Layout
    <2>2. Copied = {}
      BY <1>1, FunctionFacts, Layout DEF Copied, Types
    <2> QED
      BY <1>2, <2>1, <2>2 DEF Relocated, Copied
  <1>5. \/ step' = "allocate" /\ UNCHANGED <<status, protection, redirect>>
        \/ /\ step' = "done" /\ status' \in {"HOOK_NOMODULE", "HOOK_NOFUNC"}
           /\ UNCHANGED <<protection, redirect>>
        \/ /\ step' = "lock_thunk" /\ UNCHANGED <<status, redirect>>
           /\ protection' = [protection EXCEPT !["thunk"] = "execute_read_write"]
        \/ /\ step' = "exited" /\ status' = "HOOK_OUTOFMEMORY" /\ UNCHANGED <<protection, redirect>>
        \/ /\ step' = "relocate" /\ UNCHANGED status /\ redirect' = Proxy
           /\ Protect({"thunk"}, "read_write")
        \/ step' = "protect" /\ status' = "HOOK_COREFAILED" /\ UNCHANGED <<protection, redirect>>
    BY DEF Resolve, Allocate, LockThunk, Lock, Region, Fail
  <1>6. Types'
    BY <1>1, <1>2, <1>5 DEF Types, Protect
  <1>7. \A p \in Region("proc") : protection'[p] = "execute_read"
    BY <1>1, <1>5 DEF Types, Protect, Region
  <1>8. Protected' /\ Restored'
    BY <1>1, <1>2, <1>5, <1>7 DEF Protected, Restored, Region
  <1>9. Place'
    BY <1>1, <1>2, <1>5 DEF Place, PlainPlaces
  <1>10. Prepared' /\ Copying' /\ Assembled' /\ Installed' /\ Spared'
    BY <1>1, <1>2, <1>3, <1>4, <1>5 DEF Prepared, Copying, Assembled, Installed, Spared
  <1> QED
    BY <1>6, <1>8, <1>9, <1>10 DEF HookInv

\* What Unlock puts back may be executed.
LEMMA Unlocks ==
    ASSUME Types, NEW block \in {"proc", "thunk"}, Unlock(block)
    PROVE  /\ protection' \in [{"proc", "rest", "thunk"} -> {"none", "execute_read",
                                                           "execute_read_write", "read_write"}]
           /\ unrestored' \subseteq {"proc", "rest", "thunk"}
           /\ unrestored' \subseteq unrestored \cup Region(block)
           /\ block = "proc" => \A p \in Region("proc") \ unrestored' : protection'[p] = "execute_read"
           /\ block = "proc" => protection'["thunk"] = protection["thunk"]
           /\ block = "proc" /\ "thunk" \in unrestored => "thunk" \in unrestored'
           /\ block = "thunk" => \A p \in Region("proc") : protection'[p] = protection[p]
           /\ block = "thunk" => "thunk" \in unrestored' \/ protection'["thunk"] = "execute_read_write"
  <1>1. PICK pages \in {{}, {block}, Region(block)} :
           /\ Protect(pages, IF block = "proc" THEN "execute_read" ELSE "execute_read_write")
           /\ unrestored' = unrestored \cup (Region(block) \ pages)
    BY DEF Unlock
  <1>2. DOMAIN protection = {"proc", "rest", "thunk"}
    BY DEF Types
  <1>3. CASE block = "proc"
    BY <1>1, <1>2, <1>3 DEF Types, Protect, Region
  <1>4. CASE block = "thunk"
    BY <1>1, <1>2, <1>4 DEF Types, Protect, Region
  <1> QED
    BY <1>3, <1>4

\* While the thunk is written.
LEMMA HookCopying ==
    ASSUME HookInv, RelocateInstruction \/ AppendJump
    PROVE  HookInv'
  <1>1. /\ Types /\ step = "relocate" /\ pc = Caller /\ status = "HOOK_SUCCESS"
        /\ redirect = Proxy /\ unrestored = {}
        /\ \A p \in Region("proc") : protection[p] = "execute_read"
    BY DEF HookInv, Types, Protected, Restored, Place, RelocateInstruction, AppendJump
  <1>2. UNCHANGED <<original, redirect, pc>>
    BY DEF RelocateInstruction, AppendJump, Threads
  <1>3. CASE /\ step' = "relocate" /\ UNCHANGED <<status, protection, unrestored>>
             /\ RelocateInstruction
             /\ Decodes(Proc + total) /\ total + memory[Proc + total].decoded < ThunkSize
    <2>1. total' \in Nat /\ Relocated' /\ Intact(Proc)'
      BY <1>3, Copies
    <2> QED
      BY <1>1, <1>2, <1>3, <2>1
      DEF HookInv, Types, Prepared, Copying, Assembled, Installed, Spared, Protected, Restored, Place
  <1>4. ASSUME Unlock("thunk")
        PROVE  /\ protection' \in [{"proc", "rest", "thunk"} -> {"none", "execute_read",
                                                              "execute_read_write", "read_write"}]
               /\ unrestored' \subseteq {"thunk"}
               /\ \A p \in Region("proc") : protection'[p] = "execute_read"
               /\ "thunk" \in unrestored' \/ protection'["thunk"] = "execute_read_write"
    BY <1>1, <1>4, Unlocks DEF Region
  <1>5. CASE step' = "protect" /\ status' = "HOOK_NORELOCATE" /\ total' = 0 /\ Unlock("thunk")
    <2>1. Types' /\ \A p \in Region("proc") : protection'[p] = "execute_read"
      BY <1>1, <1>2, <1>4, <1>5 DEF Types
    <2> QED
      BY <1>1, <1>2, <1>5, <2>1
      DEF HookInv, Prepared, Copying, Assembled, Installed, Spared, Protected, Restored, Place
  <1>6. CASE AppendJump /\ step' = "lock_proc" /\ UNCHANGED <<status, total>> /\ Unlock("thunk")
    <2>1. Types' /\ \A p \in Region("proc") : protection'[p] = "execute_read"
      BY <1>1, <1>2, <1>4, <1>6 DEF Types
    <2>2. Complete' /\ Intact(Proc)'
      BY <1>6, Appends
    <2>3. Protected' /\ Restored'
      BY <1>1, <1>2, <1>4, <1>6, <2>1 DEF Protected, Restored, Region
    <2> QED
      BY <1>1, <1>2, <1>6, <2>1, <2>2, <2>3
      DEF HookInv, Prepared, Copying, Assembled, Installed, Spared, Place
  <1> QED
    BY <1>1, <1>3, <1>5, <1>6 DEF RelocateInstruction, AppendJump, Fail

\* While the function is redirected, and after it.
LEMMA HookRedirecting ==
    ASSUME HookInv, LockProc \/ Redirect \/ Finish
    PROVE  HookInv'
  <1>1. /\ Types /\ step \in {"lock_proc", "redirect", "protect"} /\ pc = Caller
        /\ Protected /\ Restored
    BY DEF HookInv, Types, Place, LockProc, Redirect, Finish
  <1>2. UNCHANGED <<original, total, redirect, pc>>
    BY DEF LockProc, Redirect, Finish, Threads
  <1>3. CASE LockProc
    <2>1. /\ step = "lock_proc" /\ status = "HOOK_SUCCESS" /\ Complete /\ Intact(Proc)
          /\ UNCHANGED <<memory, unrestored>> /\ redirect = Proxy
          /\ \A p \in Region("proc") \ unrestored : protection[p] = "execute_read"
      BY <1>3 DEF HookInv, Types, Assembled, Protected, LockProc
    <2>2. \/ step' = "redirect" /\ UNCHANGED status /\ Protect({"proc", "rest"}, "read_write")
          \/ step' = "protect" /\ status' = "HOOK_NOREDIRECT" /\ UNCHANGED protection
      BY <1>3 DEF LockProc, Lock, Region, Fail
    <2>3. Complete' /\ Intact(Proc)'
      BY <1>2, <2>1, MemoryKept, Layout
    <2>4. Types'
      BY <1>1, <1>2, <2>1, <2>2 DEF Types, Protect
    <2>5. step' = "redirect" => protection'["thunk"] = protection["thunk"]
      BY <1>1, <2>2 DEF Types, Protect
    <2>6. Protected' /\ Restored'
      BY <1>1, <1>2, <2>1, <2>2, <2>5 DEF Protected, Restored
    <2> QED
      BY <1>1, <1>2, <2>1, <2>2, <2>3, <2>4, <2>6
      DEF HookInv, Prepared, Copying, Assembled, Installed, Spared, Place
  <1>4. CASE Redirect
    <2>1. /\ step = "redirect" /\ status = "HOOK_SUCCESS" /\ step' = "protect" /\ UNCHANGED status
          /\ redirect = Proxy /\ Unlock("proc")
      BY <1>1, <1>4 DEF Types, Protected, Redirect
    <2>2. Types'
      BY <1>1, <1>2, <2>1, Unlocks DEF Types
    <2>3. Hooked'
      BY <1>4, Redirects
    <2>4. \A p \in Region("proc") \ unrestored' : protection'[p] = "execute_read"
      BY <1>1, <2>1, Unlocks
    <2>5. /\ protection'["thunk"] = protection["thunk"]
          /\ "thunk" \in unrestored => "thunk" \in unrestored'
      BY <1>1, <2>1, Unlocks
    <2>6. Protected' /\ Restored'
      BY <1>1, <1>2, <2>1, <2>4, <2>5 DEF Protected, Restored
    <2> QED
      BY <1>1, <1>2, <2>1, <2>2, <2>3, <2>6
      DEF HookInv, Prepared, Copying, Assembled, Installed, Spared, Place
  <1>5. CASE Finish
    <2>1. /\ step = "protect" /\ UNCHANGED <<status, memory, thunkFunction>>
          /\ step' = IF status = "HOOK_SUCCESS" THEN "done" ELSE "exited"
      BY <1>5 DEF Finish
    <2>2. \/ Protect({"thunk"}, "execute_read") /\ unrestored' = unrestored \ {"thunk"}
          \/ UNCHANGED <<protection, unrestored>>
      BY <1>5 DEF Finish
    <2>3. Types'
      <3>1. /\ protection' \in [{"proc", "rest", "thunk"} -> {"none", "execute_read",
                                                            "execute_read_write", "read_write"}]
            /\ unrestored' \subseteq {"proc", "rest", "thunk"}
        <4>1. /\ protection \in [{"proc", "rest", "thunk"} -> {"none", "execute_read",
                                                             "execute_read_write", "read_write"}]
              /\ unrestored \subseteq {"proc", "rest", "thunk"}
          BY <1>1 DEF Types
        <4>2. CASE UNCHANGED <<protection, unrestored>>
          BY <4>1, <4>2
        <4>3. CASE Protect({"thunk"}, "execute_read") /\ unrestored' = unrestored \ {"thunk"}
          <5>1. DOMAIN protection = {"proc", "rest", "thunk"}
            BY <4>1
          <5>2. \A p \in {"proc", "rest", "thunk"} :
                   protection[p] \in {"none", "execute_read", "execute_read_write", "read_write"}
            BY <4>1
          <5>3. protection' = [p \in {"proc", "rest", "thunk"} |->
                                  IF p \in {"thunk"} THEN "execute_read" ELSE protection[p]]
            BY <4>3, <5>1 DEF Protect
          <5> QED
            BY <4>1, <4>3, <5>2, <5>3
        <4> QED
          BY <2>2, <4>2, <4>3
      <3> QED
        BY <1>1, <1>2, <2>1, <3>1 DEF Types
    <2>4. \A p \in Region("proc") \ unrestored' : protection'[p] = "execute_read"
      BY <1>1, <2>1, <2>2 DEF Types, Protected, Protect, Region
    <2>5. status = "HOOK_SUCCESS" =>
             "thunk" \in unrestored' \/ protection'["thunk"] \in {"execute_read", "execute_read_write"}
      BY <1>1, <2>1, <2>2 DEF Types, Protected, Protect
    <2>6. status = "HOOK_SUCCESS" => Hooked' /\ redirect = Proxy
      BY <1>2, <2>1, MemoryKept DEF HookInv, Installed, Protected
    <2>7. Protected' /\ Restored'
      BY <1>2, <2>1, <2>4, <2>5, <2>6 DEF Protected, Restored
    <2>8. Place'
      BY <1>1, <1>2, <2>1 DEF Place, HookedPlaces
    <2> QED
      BY <1>1, <1>2, <2>1, <2>3, <2>6, <2>7, <2>8
      DEF HookInv, Prepared, Copying, Assembled, Installed, Spared
  <1> QED
    BY <1>3, <1>4, <1>5

\* A thread changes nothing of what the installer left.
LEMMA ThreadKeeps ==
    ASSUME HookInv, UNCHANGED <<original, memory, installer>>, step = "done", Place'
    PROVE  HookInv'
  <1>1. /\ UNCHANGED <<original, memory, step, status, total, redirect, thunkFunction>>
        /\ UNCHANGED <<protection, unrestored>>
    BY DEF installer
  <1>2. /\ Intact(Proc) => Intact(Proc)'
        /\ Hooked => Hooked'
    BY <1>1, MemoryKept, Layout
  <1>3. Types' /\ Protected' /\ Restored'
    BY <1>1 DEF HookInv, Types, Protected, Restored
  <1> QED
    BY <1>1, <1>2, <1>3
    DEF HookInv, Prepared, Copying, Assembled, Installed, Spared

\* What a step of a thread is in the function, and that it stays there.
ThreadStep ==
    /\ Place'
    /\ \/ InFunction(pc) = Caller /\ InFunction(pc') \in {Caller, Proxy, Proc} /\ did' = did
       \/ InFunction(pc) = Proxy /\ InFunction(pc') = Proc /\ did' = did
       \/ InFunction(pc) = External /\ InFunction(pc') = Caller /\ did' = did
       \/ InFunction(pc') = InFunction(pc) /\ did' = did
       \/ Executed(InFunction(pc), InFunction(pc'))
       \/ /\ unrestored # {} /\ InFunction(pc) \in {Caller} \cup DOMAIN original
          /\ InFunction(pc') = Fault /\ did' = did

LEMMA CallStep ==
    ASSUME HookInv, Call
    PROVE  ThreadStep
  <1>1. /\ step = "done" /\ UNCHANGED <<step, status, original, total>> /\ pc = Caller /\ pc' = Proc
        /\ did' = did /\ Proc \in DOMAIN original
    BY FunctionFacts DEF Call, installer, HookInv, Types
  <1>2. Place'
    BY <1>1 DEF Place, HookedPlaces, PlainPlaces
  <1>3. InFunction(Caller) = Caller /\ InFunction(Proc) \in {Caller, Proc}
    BY <1>1, InFunctionOf
  <1> QED
    BY <1>1, <1>2, <1>3 DEF ThreadStep

LEMMA CallOriginalStep ==
    ASSUME HookInv, CallOriginal
    PROVE  ThreadStep /\ step = "done"
  <1>1. /\ pc = Proxy /\ UNCHANGED <<step, status, original, total>> /\ did' = did
        /\ original \in Functions /\ total \in Nat /\ Proc \in DOMAIN original
    BY FunctionFacts DEF CallOriginal, installer, HookInv, Types
  <1>2. step = "done" /\ status = "HOOK_SUCCESS"
    <2>1. Proxy # Caller /\ Proxy # Fault /\ Proxy \notin Int /\ External \in Int /\ \A a \in DOMAIN original : a \in Int
      BY <1>1, HookAssumption, FunctionFacts
    <2> QED
      BY <1>1, <2>1 DEF HookInv, Place, PlainPlaces
  <1>3. pc' = Moved(Proc) /\ Proc <= Proc + total
    <2>1. pc' = Thunk
      BY <1>2, HookAssumption DEF HookInv, Installed, Hooked, CallOriginal
    <2> QED
      BY <1>1, <2>1, Layout DEF Moved
  <1>4. Place'
    BY <1>1, <1>2, <1>3 DEF Place, HookedPlaces, Moved
  <1>5. InFunction(Proxy) = Proxy /\ InFunction(Moved(Proc)) = Proc
    BY <1>1, <1>2, <1>3, InFunctionOf
  <1> QED
    BY <1>1, <1>2, <1>3, <1>4, <1>5 DEF ThreadStep

LEMMA ReturnStep ==
    ASSUME HookInv, Return
    PROVE  ThreadStep /\ step = "done"
  <1>1. /\ pc = External /\ pc' = Caller /\ UNCHANGED <<step, status>> /\ did' = did
    BY DEF Return, installer
  <1>2. Caller # External
    BY HookAssumption
  <1>3. step = "done"
    BY <1>1, <1>2 DEF HookInv, Place
  <1>4. Place'
    BY <1>1, <1>3 DEF Place, HookedPlaces, PlainPlaces
  <1> QED
    BY <1>1, <1>3, <1>4, InFunctionOf DEF ThreadStep

LEMMA ExecuteStep ==
    ASSUME HookInv, Execute
    PROVE  ThreadStep
  <1>1. /\ step = "done" /\ UNCHANGED <<step, status, original, total>> /\ original \in Functions
        /\ pc \notin {Caller, Proxy, External, Fault} /\ total \in Nat
    BY DEF Execute, installer, HookInv, Types
  <1>4. CASE ~Executable(pc)
    <2>1. unrestored # {} /\ pc' = Fault /\ did' = did
      BY <1>4, Crashes
    <2>2. status = "HOOK_SUCCESS" /\ pc \in HookedPlaces
      BY <1>1, <2>1 DEF HookInv, Restored, Place
    <2>3. UNCHANGED unrestored
      BY DEF Execute, installer
    <2>4. Place'
      BY <1>1, <2>1, <2>3 DEF Place
    <2>5. InFunction(pc) \in {Caller} \cup DOMAIN original
      BY <1>1, <2>2, InFunctionOf DEF HookedPlaces
    <2> QED
      BY <2>1, <2>4, <2>5, InFunctionOf DEF ThreadStep
  <1>2. CASE Executable(pc) /\ status # "HOOK_SUCCESS"
    <2>1. Executed(InFunction(pc), InFunction(pc')) /\ pc' \in PlainPlaces
      BY <1>2, PlainExecute
    <2>2. Place'
      BY <1>1, <1>2, <2>1 DEF Place, PlainPlaces
    <2> QED
      BY <2>1, <2>2 DEF ThreadStep
  <1>3. CASE Executable(pc) /\ status = "HOOK_SUCCESS"
    <2>1. pc \in HookedPlaces
      BY <1>1, <1>3 DEF HookInv, Place
    <2>2. pc' \in HookedPlaces => Place'
      BY <1>1, <1>3 DEF Place, HookedPlaces, Moved
    <2>3. CASE pc = Proc
      <3>1. pc' = Proxy /\ did' = did
        BY <1>3, <2>3, HookExecute
      <3>2. InFunction(Proc) = Caller /\ InFunction(Proxy) = Proxy
        BY <1>1, <1>3, InFunctionOf
      <3> QED
        BY <2>2, <2>3, <3>1, <3>2 DEF ThreadStep, HookedPlaces
    <2>4. CASE pc \in DOMAIN original /\ pc >= Proc + HookSize
      <3>1. Executed(pc, pc') /\ (pc' \in DOMAIN original => pc' >= Proc + HookSize)
        BY <1>3, <2>4, RestExecute
      <3>2. pc' \in DOMAIN original \cup {External, Caller}
        BY <1>1, <3>1, Goes DEF Executed
      <3>3. InFunction(pc) = pc /\ InFunction(pc') = pc'
        BY <1>1, <1>3, <2>4, <3>1, <3>2, InFunctionOf
      <3>4. pc' \in HookedPlaces
        BY <3>1, <3>2 DEF HookedPlaces
      <3> QED
        BY <2>2, <3>1, <3>3, <3>4 DEF ThreadStep
    <2>5. ASSUME NEW a \in DOMAIN original, a <= Proc + total, pc = Moved(a)
          PROVE  ThreadStep
      <3>1. InFunction(pc) = a
        BY <1>1, <1>3, <2>5, InFunctionOf
      <3>2. CASE a = Proc + total
        <4>1. pc' = a /\ did' = did
          BY <1>3, <2>5, <3>2, BackExecute
        <4>2. a >= Proc + HookSize
          BY <1>1, <1>3, <3>2, Layout DEF HookInv, Installed, Hooked, Complete
        <4>3. InFunction(a) = a /\ a \in HookedPlaces
          BY <1>1, <1>3, <4>2, InFunctionOf DEF HookedPlaces
        <4> QED
          BY <2>2, <3>1, <4>1, <4>3 DEF ThreadStep
      <3>3. CASE a # Proc + total
        <4>1. a \in Copied
          BY <1>1, <2>5, <3>3, FunctionFacts, Layout DEF Copied
        <4>2. PICK z \in Successors(original[a], a) :
                 /\ Executed(a, z)
                 /\ \/ pc' = z /\ (z \in DOMAIN original => z >= Proc + HookSize)
                    \/ z \in DOMAIN original /\ z <= Proc + total /\ pc' = Moved(z)
          BY <1>3, <2>5, <4>1, CopyExecute
        <4>3. z \in DOMAIN original \cup {External, Caller}
          BY <1>1, Goes
        <4>4. InFunction(pc') = z
          BY <1>1, <1>3, <4>2, <4>3, InFunctionOf
        <4>5. pc' \in HookedPlaces
          BY <4>2, <4>3 DEF HookedPlaces
        <4> QED
          BY <2>2, <3>1, <4>2, <4>4, <4>5 DEF ThreadStep
      <3> QED
        BY <3>2, <3>3
    <2> QED
      BY <1>1, <2>1, <2>3, <2>4, <2>5 DEF HookedPlaces
  <1> QED
    BY <1>2, <1>3, <1>4

\* Every step keeps the invariant.
LEMMA HookNext == HookInv /\ [Next]_vars => HookInv'
  <1> SUFFICES ASSUME HookInv, [Next]_vars PROVE HookInv'
    OBVIOUS
  <1>1. CASE Call \/ CallOriginal \/ Execute \/ Return
    <2>1. ThreadStep
      BY <1>1, CallStep, CallOriginalStep, ExecuteStep, ReturnStep
    <2>2. UNCHANGED <<original, memory, installer>>
      BY <1>1 DEF Call, CallOriginal, Execute, Return
    <2>3. step = "done"
      BY <1>1, ReturnStep, CallOriginalStep DEF Call, Execute
    <2> QED
      BY <2>1, <2>2, <2>3, ThreadKeeps DEF ThreadStep
  <1>2. CASE UNCHANGED vars
    <2>1. /\ UNCHANGED <<original, memory, step, status, total, redirect, thunkFunction>>
          /\ UNCHANGED <<protection, unrestored, pc>>
      BY <1>2 DEF vars, installer
    <2>2. \A low \in Nat : Intact(low) => Intact(low)'
      BY <2>1, MemoryKept
    <2>3. (Relocated => Relocated') /\ (Complete => Complete') /\ (Hooked => Hooked')
      BY <2>1, MemoryKept
    <2>4. Types' /\ Protected' /\ Restored' /\ Place'
      BY <2>1 DEF HookInv, Types, Protected, Restored, Place, HookedPlaces, PlainPlaces, Moved
    <2> QED
      BY <2>1, <2>2, <2>3, <2>4, Layout
      DEF HookInv, Prepared, Copying, Assembled, Installed, Spared
  <1> QED
    BY <1>1, <1>2, HookPreparing, HookCopying, HookRedirecting DEF Next

-----------------------------------------------------------------------------
(* The refinement.                                                         *)

\* The instructions of FunctionCall are these.
LEMMA SameInstructions ==
    ASSUME NEW i, NEW a
    PROVE  HookedCall!Successors(i, a) = Successors(i, a) /\ HookedCall!Effect(i, a) = Effect(i, a)
  BY DEF HookedCall!Successors, HookedCall!Effect, HookedCall!Target, HookedCall!RelativeSize,
         Successors, Effect, Target, RelativeSize

\* What a thread does is a step of FunctionCall or none.
LEMMA ThreadStepImplements ==
    ASSUME HookInv, ThreadStep, UNCHANGED <<original, memory, installer>>, step = "done"
    PROVE  [HookedCall!Next]_HookedCall!vars
  <1> PICK p, q : p = InFunction(pc) /\ q = InFunction(pc')
    OBVIOUS
  <1>1. FunctionPc = p /\ FunctionPc' = q /\ original' = original /\ Lost' = Lost
    BY FunctionPcIs DEF installer, Lost
  <1>2. CASE p = Caller /\ q \in {Caller, Proxy, Proc} /\ did' = did
    BY <1>1, <1>2 DEF HookedCall!Next, HookedCall!Call, HookedCall!vars
  <1>3. CASE p = Proxy /\ q = Proc /\ did' = did
    BY <1>1, <1>3 DEF HookedCall!Next, HookedCall!CallOriginal
  <1>4. CASE p = External /\ q = Caller /\ did' = did
    BY <1>1, <1>4 DEF HookedCall!Next, HookedCall!Return
  <1>5. CASE q = p /\ did' = did
    BY <1>1, <1>5 DEF HookedCall!vars
  <1>6. CASE Executed(p, q)
    BY <1>1, <1>6, SameInstructions DEF HookedCall!Next, HookedCall!Execute, Executed
  <1>7. CASE /\ unrestored # {} /\ p \in {Caller} \cup DOMAIN original
             /\ q = Fault /\ did' = did
    BY <1>1, <1>7 DEF HookedCall!Next, HookedCall!Crash, Lost
  <1> QED
    BY <1>2, <1>3, <1>4, <1>5, <1>6, <1>7 DEF ThreadStep

\* Nobody has been in the function while the installer works.
Idle == step # "done" => did = Code!Nothing

LEMMA IdleStays == HookInv /\ Idle /\ [Next]_vars => Idle'
  <1> SUFFICES ASSUME HookInv, Idle, [Next]_vars PROVE Idle'
    OBVIOUS
  <1>1. CASE Call \/ CallOriginal \/ Execute \/ Return
    <2>1. step = "done"
      BY <1>1, ReturnStep, CallOriginalStep DEF Call, Execute
    <2>2. step' = step
      BY <1>1 DEF Call, CallOriginal, Execute, Return, installer
    <2> QED
      BY <2>1, <2>2 DEF Idle
  <1>2. CASE \/ Resolve \/ Allocate \/ LockThunk \/ RelocateInstruction \/ AppendJump
             \/ LockProc \/ Redirect \/ Finish
    <2>1. step # "done" /\ did' = did
      BY <1>2
      DEF Resolve, Allocate, LockThunk, RelocateInstruction, AppendJump, LockProc, Redirect,
          Finish, Threads
    <2> QED
      BY <2>1 DEF Idle, Code!Nothing
  <1>3. CASE UNCHANGED vars
    BY <1>3 DEF vars, installer, Idle, Code!Nothing
  <1> QED
    BY <1>1, <1>2, <1>3 DEF Next

\* A step of the installer is none, or the last one, with which the rights
\* are lost: nobody is in the function while it works, or has been.
LEMMA InstallerImplements ==
    ASSUME HookInv, Idle, step # "done", pc' = pc, original' = original, did' = did
    PROVE  [HookedCall!Next]_HookedCall!vars
  <1>1. pc = Caller /\ did = Code!Nothing
    BY DEF HookInv, Place, Idle
  <1>2. FunctionPc = Caller /\ FunctionPc' = Caller
    BY <1>1 DEF FunctionPc
  <1>3. Lost = FALSE
    BY DEF Lost
  <1>4. CASE Lost' = FALSE
    BY <1>2, <1>3, <1>4 DEF HookedCall!vars
  <1>5. CASE Lost' = TRUE
    BY <1>1, <1>2, <1>5 DEF HookedCall!Next, HookedCall!Lose, Code!Nothing, HookedCall!Nothing
  <1> QED
    BY <1>4, <1>5 DEF Lost

\* At first nobody has called the function.
LEMMA InitImplements == Init => HookedCall!Init
  BY DEF Init, HookedCall!Init, FunctionPc, Code!Nothing, HookedCall!Nothing, Lost

LEMMA NextImplements == HookInv /\ Idle /\ [Next]_vars => [HookedCall!Next]_HookedCall!vars
  <1> SUFFICES ASSUME HookInv, Idle, [Next]_vars PROVE [HookedCall!Next]_HookedCall!vars
    OBVIOUS
  <1>1. CASE Call \/ CallOriginal \/ Execute \/ Return
    <2>1. ThreadStep
      BY <1>1, CallStep, CallOriginalStep, ExecuteStep, ReturnStep
    <2>2. UNCHANGED <<original, memory, installer>>
      BY <1>1 DEF Call, CallOriginal, Execute, Return
    <2>3. step = "done"
      BY <1>1, ReturnStep, CallOriginalStep DEF Call, Execute
    <2> QED
      BY <2>1, <2>2, <2>3, ThreadStepImplements
  <1>2. CASE \/ Resolve \/ Allocate \/ LockThunk \/ RelocateInstruction \/ AppendJump
             \/ LockProc \/ Redirect \/ Finish
    <2>1. step # "done" /\ pc' = pc /\ original' = original /\ did' = did
      BY <1>2
      DEF Resolve, Allocate, LockThunk, RelocateInstruction, AppendJump, LockProc, Redirect,
          Finish, Threads
    <2> QED
      BY <2>1, InstallerImplements
  <1>3. CASE UNCHANGED vars
    BY <1>3 DEF vars, installer, HookedCall!vars, FunctionPc, InThunk, Lost
  <1> QED
    BY <1>1, <1>2, <1>3 DEF Next

\* The thunk is what was displaced, moved, at every step of the installer, and
\* no thread is in the function or in the thunk before they are complete.  What
\* has been put back may be executed; what an Unlock left locked is known by
\* unrestored, and crashes who comes there.  The displaced instructions are
\* those that the opcode tables read as the processor does (HookAssumption).
THEOREM HookIsComplete == Spec => []HookInv
  BY HookInit, HookNext, PTL DEF Spec

\* InstallHook: a function does the same whether it is hooked or not, for every
\* function of which HookAssumption holds: one whose displaced instructions the
\* opcode tables read as the processor does, with no operand of one byte and
\* nothing that jumps back among them.  A thread may crash instead, but only
\* where an Unlock failed and left pages that nobody may execute, of which the
\* code takes no notice.
THEOREM HookedIsFunctionCall == Spec => IsFunctionCall
  <1>1. HookInv /\ Idle /\ [Next]_vars => [HookedCall!Next]_HookedCall!vars
    BY NextImplements
  <1>2. Init => Idle
    BY DEF Init, Idle
  <1>3. HookInv /\ Idle /\ [Next]_vars => Idle'
    BY IdleStays
  <1>4. Spec => HookedCall!Init /\ [][HookedCall!Next]_HookedCall!vars
    BY InitImplements, <1>1, <1>2, <1>3, HookIsComplete, PTL DEF Spec
  <1> QED
    BY <1>4 DEF IsFunctionCall, HookedCall!Spec
=============================================================================
