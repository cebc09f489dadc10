-------------------------------- MODULE Swi --------------------------------
(***************************************************************************)
(* The software interrupt handler of Ndless (src/Ndless/trunk/arm/ints.c,  *)
(* the resident build).  Programs, Ndless itself and the extensions call   *)
(* the OS through swi.  The handler saves the caller in one of two slots,  *)
(* and the syscall returns through back_to_caller, which has to guess from *)
(* the slots whose turn it is.  There is no stack of slots: "for 1-level   *)
(* recursion (syscall calling a syscall)".                                 *)
(*                                                                         *)
(* The history variable calls is the true call stack, which no code reads. *)
(* Interrupts stay masked from the exception to the jump into the body     *)
(* and only the supervisor-mode thread executes swi, so each of the two    *)
(* halves of the handler is one action.                                    *)
(***************************************************************************)
EXTENDS Naturals, Sequences

CONSTANTS
    Sites,     \* addresses that follow a swi instruction
    NoSite,    \* any other address
    FlagBits,  \* condition flags of the program status register
    MaskBits,  \* its interrupt mask bits, I and F
    MaxDepth,  \* how deep syscalls are nested (bound)
    UnwindTo   \* nesting levels a syscall may leave to through longjmp

ASSUME SwiAssumption ==
    /\ NoSite \notin Sites
    /\ MaxDepth \in Nat \ {0}
    /\ UnwindTo \subseteq Nat

VARIABLES cpsr, pc, calls,
    saved      \* the words saved_spsr, saved_lr, saved_spsr2, saved_lr2

vars == <<cpsr, pc, calls, saved>>

Ideal == INSTANCE SyscallStack

SVC == Ideal!SVC

States == Ideal!States

\* A word of zeroes: no program status register, its mode would be illegal.
ZeroPsr == [mode |-> 0, flags |-> {}, mask |-> {}, state |-> "ARM"]

Link == [site: Sites \cup {NoSite}, state: States]

Slots == [spsr: Ideal!Psr, lr: Link, spsr2: Ideal!Psr, lr2: Link]

Init ==
    /\ Ideal!Init
    /\ saved = [spsr  |-> ZeroPsr, lr  |-> [site |-> NoSite, state |-> "ARM"],
                spsr2 |-> ZeroPsr, lr2 |-> [site |-> NoSite, state |-> "ARM"]]

----------------------------------------------------------------------------
\* Variants of the entry, each with one slip of it.

\* Only one slot, as in the build without recursion support.
SaveCallerOneSlot(s) ==
    [saved EXCEPT !.spsr = [cpsr EXCEPT !.state = "ARM"],
                  !.lr = [site |-> s, state |-> cpsr.state]]

\* The Thumb bit is not moved to the link register.
SaveCallerLosesThumb(s) ==
    LET psr  == [cpsr EXCEPT !.state = "ARM"]
        link == [site |-> s, state |-> "ARM"]
    IN  IF saved.spsr = ZeroPsr
        THEN [saved EXCEPT !.spsr = psr, !.lr = link]
        ELSE [saved EXCEPT !.spsr2 = psr, !.lr2 = link]

\* The two words of a slot are stored in the wrong order.
SaveCallerSwapped(s) ==
    LET psr  == [cpsr EXCEPT !.state = "ARM"]
        link == [site |-> s, state |-> cpsr.state]
    IN  IF saved.spsr = ZeroPsr
        THEN [saved EXCEPT !.spsr = link, !.lr = psr]
        ELSE [saved EXCEPT !.spsr2 = link, !.lr2 = psr]

----------------------------------------------------------------------------
\* The slots after the entry of a swi executed before site s: the Thumb bit
\* moves to the link register, and the second slot serves when the first is
\* taken, whatever the second one holds.
SaveCaller(s) ==
    LET psr  == [cpsr EXCEPT !.state = "ARM"]
        link == [site |-> s, state |-> cpsr.state]
    IN  IF saved.spsr = ZeroPsr
        THEN [saved EXCEPT !.spsr = psr, !.lr = link]
        ELSE [saved EXCEPT !.spsr2 = psr, !.lr2 = link]

----------------------------------------------------------------------------
\* Variants of the return path, each with one slip of it.

\* The first slot is tried before the second.
BackToCallerFirstFirst(t) ==
    LET outer == t.spsr # ZeroPsr
        psr   == IF outer THEN t.spsr ELSE t.spsr2
        link  == IF outer THEN t.lr ELSE t.lr2
    IN  /\ cpsr' = [mode |-> psr.mode, flags |-> psr.flags, mask |-> cpsr.mask,
                    state |-> link.state]
        /\ pc' = link.site
        /\ saved' = IF outer THEN [t EXCEPT !.spsr = ZeroPsr]
                             ELSE [t EXCEPT !.spsr2 = ZeroPsr]

\* The slot stays taken.
BackToCallerKeepsSlot(t) ==
    LET nested == t.spsr2 # ZeroPsr
        psr    == IF nested THEN t.spsr2 ELSE t.spsr
        link   == IF nested THEN t.lr2 ELSE t.lr
    IN  /\ cpsr' = [mode |-> psr.mode, flags |-> psr.flags, mask |-> cpsr.mask,
                    state |-> link.state]
        /\ pc' = link.site
        /\ saved' = t

\* The interrupt mask is restored with the rest of the register.
BackToCallerOldMask(t) ==
    LET nested == t.spsr2 # ZeroPsr
        psr    == IF nested THEN t.spsr2 ELSE t.spsr
        link   == IF nested THEN t.lr2 ELSE t.lr
    IN  /\ cpsr' = [psr EXCEPT !.state = link.state]
        /\ pc' = link.site
        /\ saved' = IF nested THEN [t EXCEPT !.spsr2 = ZeroPsr]
                              ELSE [t EXCEPT !.spsr = ZeroPsr]

----------------------------------------------------------------------------
\* back_to_caller with the slots at t: the second slot first, the mask of
\* the syscall kept, the rest of the status register from the slot.
BackToCaller(t) ==
    LET nested == t.spsr2 # ZeroPsr
        psr    == IF nested THEN t.spsr2 ELSE t.spsr
        link   == IF nested THEN t.lr2 ELSE t.lr
    IN  /\ cpsr' = [mode |-> psr.mode, flags |-> psr.flags, mask |-> cpsr.mask,
                    state |-> link.state]
        /\ pc' = link.site
        /\ saved' = IF nested THEN [t EXCEPT !.spsr2 = ZeroPsr]
                              ELSE [t EXCEPT !.spsr = ZeroPsr]

\* Code that runs between swis does not touch the slots.
Compute(flags, mask, state) ==
    /\ Ideal!Compute(flags, mask, state)
    /\ UNCHANGED saved

\* ints_swi_handler for a function of the OS, extension or emulator table:
\* the body runs with the caller's mask, in ARM state, and with the flags of
\* the comparisons that chose the table.
Swi(s, flags) ==
    /\ Len(calls) < MaxDepth
    /\ saved' = SaveCaller(s)
    /\ cpsr' = [mode |-> cpsr.mode, flags |-> flags, mask |-> cpsr.mask,
                state |-> "ARM"]
    /\ pc' = NoSite
    /\ calls' = Append(calls, [site |-> s, flags |-> cpsr.flags,
                               state |-> cpsr.state])

\* ints_swi_handler for a variable: straight on to back_to_caller.
SwiVariable(s) ==
    /\ Len(calls) < MaxDepth
    /\ BackToCaller(SaveCaller(s))
    /\ UNCHANGED calls

\* The body of the innermost syscall returns into back_to_caller.
Return ==
    /\ calls # <<>>
    /\ BackToCaller(saved)
    /\ calls' = SubSeq(calls, 1, Len(calls) - 1)

\* lua_error() and luaL_error() are syscalls which leave with a longjmp to
\* the OS code that runs at level n: no slot is given back.
Unwind(n) ==
    /\ Ideal!Unwind(n)
    /\ UNCHANGED saved

Next ==
    \/ \E flags \in SUBSET FlagBits, mask \in SUBSET MaskBits, state \in States :
          Compute(flags, mask, state)
    \/ \E s \in Sites, flags \in SUBSET FlagBits : Swi(s, flags)
    \/ \E s \in Sites : SwiVariable(s)
    \/ Return
    \/ \E n \in UnwindTo : Unwind(n)

Spec == Init /\ [][Next]_vars

----------------------------------------------------------------------------
(***************************************************************************)
(* Properties.                                                             *)
(***************************************************************************)

TypeOK ==
    /\ cpsr \in Ideal!Psr
    /\ pc \in Sites \cup {NoSite}
    /\ calls \in Seq(Ideal!Caller)
    /\ Len(calls) <= MaxDepth
    /\ saved \in Slots

\* The slot that the next back_to_caller will use.
NextSlot ==
    IF saved.spsr2 # ZeroPsr
    THEN [psr |-> saved.spsr2, link |-> saved.lr2]
    ELSE [psr |-> saved.spsr, link |-> saved.lr]

Holds(psr, link, caller) ==
    /\ psr.mode = SVC
    /\ psr.flags = caller.flags
    /\ link = [site |-> caller.site, state |-> caller.state]

\* The slot back_to_caller will pick belongs to the innermost syscall in
\* progress: the guess from saved_spsr2 is right (ints.c, back_to_caller).
TopSaved ==
    calls # <<>> => Holds(NextSlot.psr, NextSlot.link, Ideal!Top)

\* While a syscall runs inside a syscall, the outer caller waits untouched in
\* the first slot and the inner one is in the second (ints.c, saved_spsr2).
OuterSaved ==
    Len(calls) = 2 =>
        /\ saved.spsr2 # ZeroPsr
        /\ Holds(saved.spsr, saved.lr, calls[1])

\* The first slot is free only if the second is, and when every syscall has
\* to come back both are free between syscalls: none is ever lost.
SlotsGivenBack ==
    /\ saved.spsr = ZeroPsr => saved.spsr2 = ZeroPsr
    /\ UnwindTo = {} /\ Len(calls) = 0 => saved.spsr = ZeroPsr
    /\ UnwindTo = {} /\ Len(calls) = 1 => saved.spsr2 = ZeroPsr

\* A return from a syscall leads to the instruction after its swi, in the
\* caller's instruction set and with its flags, and keeps the interrupt mask
\* ("swi *must* restore cpsr", "keep the new mask", ints.c).
ReturnsToCaller ==
    [][Return => Ideal!Return]_vars

\* The two slots behave as a call stack.
ImplementsCallStack == Ideal!Spec
=============================================================================
