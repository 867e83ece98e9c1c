---------------------------- MODULE FrameStorage ----------------------------
(***************************************************************************)
(* A stack frame: the tables FrameLayout of backend/frame.rs keeps, and    *)
(* what makes them sound.                                                  *)
(*                                                                         *)
(* Offsets count bytes from the frame pointer; the frame grows downwards.  *)
(* The saved registers come first, then the slots the allocator spilled    *)
(* to, the objects and the pinned variables.                               *)
(***************************************************************************)
EXTENDS Integers

\* abi::WORD_SIZE, STACK_ALIGNMENT; FrameParams of X86Target.
WordSize       == 8
StackAlignment == 16

VARIABLES
    saved,   \* how many callee-saved registers the prologue pushes
    spilled, \* how many slots the allocator handed out
    sizes,   \* object_sizes, of the objects the function mentions
    slots,   \* how many slots are reserved
    objects, \* where the first byte of an object is
    pinned   \* where the slot of a variable is

\* offset_of
OffsetOf(slot) == -(saved * WordSize + slot * WordSize)

\* align_up and stack_adjust: what the prologue subtracts from the stack
\* pointer after it has pushed the saved registers.
AlignUp(value) == ((value + StackAlignment - 1) \div StackAlignment) * StackAlignment

StackAdjust == AlignUp(saved * WordSize + slots * WordSize) - saved * WordSize

-----------------------------------------------------------------------------
(***************************************************************************)
(* Everything that lives in the frame, and the bytes it takes there.       *)
(***************************************************************************)
Residents ==
    {<<"spill", n>> : n \in 1 .. spilled}
        \cup {<<"object", v>> : v \in DOMAIN objects}
        \cup {<<"pinned", v>> : v \in DOMAIN pinned}

First(resident) ==
    IF resident[1] = "object" THEN objects[resident[2]]
    ELSE IF resident[1] = "pinned" THEN pinned[resident[2]]
    ELSE OffsetOf(resident[2])

Bytes(resident) == IF resident[1] = "object" THEN sizes[resident[2]] ELSE WordSize

NeverMeet ==
    \A r, s \in Residents :
       r # s => \/ First(r) + Bytes(r) <= First(s)
                \/ First(s) + Bytes(s) <= First(r)

LieInTheFrame ==
    \A r \in Residents :
       /\ First(r) % WordSize = 0
       /\ -(saved * WordSize + StackAdjust) <= First(r)
       /\ First(r) + Bytes(r) <= -(saved * WordSize)

(***************************************************************************)
(* No two things in the frame share a byte, each is aligned to a word,     *)
(* between the saved registers and the stack pointer, and the stack        *)
(* pointer is aligned as a call wants it.                                  *)
(***************************************************************************)
FrameIsSound ==
    /\ NeverMeet
    /\ LieInTheFrame
    /\ (saved * WordSize + StackAdjust) % StackAlignment = 0
=============================================================================
