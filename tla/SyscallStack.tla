---------------------------- MODULE SyscallStack ----------------------------
(***************************************************************************)
(* What the SWI handler of Ndless promises to the code that executes a     *)
(* software interrupt: a syscall is a call.  It comes back to the          *)
(* instruction after the swi, in the caller's instruction set, with the    *)
(* caller's condition flags; only the interrupt mask may have been changed *)
(* by the syscall (arm/ints.c, "keep the new mask" and "swi *must* restore *)
(* cpsr").  The promise is stated with a call stack, which the handler     *)
(* does not have: Swi.tla has its two save slots instead.                  *)
(***************************************************************************)
EXTENDS Naturals, Sequences

CONSTANTS Sites, NoSite, FlagBits, MaskBits, MaxDepth, UnwindTo   \* as in Swi

VARIABLES
    cpsr,      \* the current program status register
    pc,        \* where the last return led, NoSite once the code went on
    calls      \* the callers of the syscalls in progress, innermost last

abstractVars == <<cpsr, pc, calls>>

SVC == 19     \* the supervisor mode, the only one that calls syscalls

States == {"ARM", "Thumb"}   \* the instruction sets

Psr == [mode: {0, SVC}, flags: SUBSET FlagBits, mask: SUBSET MaskBits,
        state: States]

Caller == [site: Sites, flags: SUBSET FlagBits, state: States]

Top == calls[Len(calls)]

Init ==
    /\ cpsr = [mode |-> SVC, flags |-> {}, mask |-> {}, state |-> "ARM"]
    /\ pc = NoSite
    /\ calls = <<>>

(***************************************************************************)
(* The running code computes, changes the interrupt mask (the OS function  *)
(* TCT_Local_Control_Interrupts), or switches the instruction set.         *)
(***************************************************************************)
Compute(flags, mask, state) ==
    /\ cpsr' = [mode |-> cpsr.mode, flags |-> flags, mask |-> mask, state |-> state]
    /\ pc' = NoSite
    /\ UNCHANGED calls

\* A swi of a function starts its body, in ARM state and with any flags.
Call(s, flags) ==
    /\ Len(calls) < MaxDepth
    /\ calls' = Append(calls, [site |-> s, flags |-> cpsr.flags,
                               state |-> cpsr.state])
    /\ cpsr' = [mode |-> cpsr.mode, flags |-> flags, mask |-> cpsr.mask,
                state |-> "ARM"]
    /\ pc' = NoSite

\* A swi of an OS variable only returns its address.
ReadVariable(s) ==
    /\ Len(calls) < MaxDepth
    /\ pc' = s
    /\ UNCHANGED <<cpsr, calls>>

\* The body of the innermost syscall returns to its caller.
Return ==
    /\ calls # <<>>
    /\ pc' = Top.site
    /\ cpsr' = [mode |-> cpsr.mode, flags |-> Top.flags, mask |-> cpsr.mask,
                state |-> Top.state]
    /\ calls' = SubSeq(calls, 1, Len(calls) - 1)

\* A body jumps out to the n-th level, as lua_error() and luaL_error() do.
Unwind(n) ==
    /\ n \in UnwindTo
    /\ n < Len(calls)
    /\ calls' = SubSeq(calls, 1, n)
    /\ pc' = NoSite
    /\ \E state \in States : cpsr' = [cpsr EXCEPT !.state = state]

Next ==
    \/ \E flags \in SUBSET FlagBits, mask \in SUBSET MaskBits, state \in States :
          Compute(flags, mask, state)
    \/ \E s \in Sites, flags \in SUBSET FlagBits : Call(s, flags)
    \/ \E s \in Sites : ReadVariable(s)
    \/ Return
    \/ \E n \in UnwindTo : Unwind(n)

Spec == Init /\ [][Next]_abstractVars
=============================================================================
