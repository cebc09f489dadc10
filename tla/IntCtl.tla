-------------------------------- MODULE IntCtl --------------------------------
(***************************************************************************)
(* The two emulated interrupt controllers:                                 *)
(* src/Ndless/trunk/Ndless-SDK/nspire_emu/interrupt.c.  The classic one    *)
(* has priorities and sticky sources, and raises a line of the CPU in      *)
(* update() but lowers it only when the program reads a register; that of  *)
(* the CX computes both lines anew.  Which one there is depends on the     *)
(* calculator emulated.  prev_pri_limit is left out: the program reads it  *)
(* and writes it, or anything else, back to the limit.                     *)
(***************************************************************************)
EXTENDS Integers

CONSTANTS
    Sources,     \* interrupt numbers
    USB,         \* INT_USB, which usb_reset() lowers
    Priorities,  \* values written to the priority registers
    Limits,      \* values written to the priority limits
    Inverted,    \* sets of sources the program inverts
    NoSource     \* no interrupt

ASSUME IntCtlAssumption ==
    /\ Sources \subseteq 0..31 /\ {0, USB} \subseteq Sources
    /\ Priorities \subseteq 0..7 /\ Limits \subseteq 0..15
    /\ Inverted \subseteq SUBSET Sources
    /\ NoSource \notin Sources

Fiq   == 0..1   \* is_fiq: 0 for the IRQ line, 1 for the FIQ line

VARIABLES
    emulate_cx,
    active, raw_status, sticky_status, status,
    mask, priority_limit,
    noninverted, sticky, priority,
    interrupts,  \* arm.interrupts: the lines that are raised
    unseen       \* history: priorities changed or a limit raised, the machine
                 \* reset, without update() or update_cx() since

inputs  == <<active, mask, priority_limit, noninverted, sticky>>
derived == <<raw_status, sticky_status, status, interrupts, unseen>>
rest    == <<emulate_cx, priority>>
vars    == <<inputs, derived, rest>>

\* Those that may interrupt; of several, the one of the least priority value and
\* then of the least number is current.
Eligible(q) == {s \in status \cap mask[q] : priority[s] < priority_limit[q]}

get_current_int(q, default) ==
    IF Eligible(q) = {} THEN default
    ELSE CHOOSE s \in Eligible(q) : \A t \in Eligible(q) :
            priority[s] < priority[t] \/ (priority[s] = priority[t] /\ s <= t)

\* update(), with what is left of sticky_status: lines are only raised.
update(left) ==
    /\ raw_status' = {s \in Sources : s \in active' <=> s \in noninverted'}
    /\ sticky_status' = left \cup (raw_status' \ raw_status)
    /\ status' = (raw_status' \ sticky') \cup (sticky_status' \cap sticky')
    /\ interrupts' = interrupts \cup {q \in Fiq : Eligible(q)' # {}}
    /\ unseen' = FALSE

\* On the CX mask[0] enables a source and mask[1] makes it a FIQ.
CxLines(on, m) == {q \in Fiq : (on \cap m[0]) \cap (IF q = 1 THEN m[1] ELSE Sources \ m[1]) # {}}

update_cx == /\ interrupts' = CxLines(active', mask')
             /\ unseen' = FALSE
             /\ UNCHANGED <<raw_status, sticky_status, status>>

Init == /\ emulate_cx \in BOOLEAN
        /\ active = {} /\ raw_status = {} /\ sticky_status = {} /\ status = {}
        /\ mask = [q \in Fiq |-> {}]
        /\ priority_limit = [q \in Fiq |-> 8]
        /\ noninverted = Sources /\ sticky = {} /\ priority = [s \in Sources |-> 0]
        /\ interrupts = {} /\ unseen = FALSE
-----------------------------------------------------------------------------
(***************************************************************************)
(* The devices.                                                            *)
(***************************************************************************)
int_set(s, on) ==
    /\ active' = IF on THEN active \cup {s} ELSE active \ {s}
    /\ UNCHANGED <<mask, priority_limit, noninverted, sticky, rest>>
    /\ IF emulate_cx THEN update_cx ELSE update(sticky_status)

\* The machine is reset: the CPU's lines first, then the devices, of which
\* usb_reset() lowers its interrupt with the masks of before, then int_reset().
Reset ==
    /\ active' = {} /\ raw_status' = {} /\ sticky_status' = {} /\ status' = {}
    /\ mask' = [q \in Fiq |-> {}]
    /\ priority_limit' = [q \in Fiq |-> 8]
    /\ noninverted' = Sources /\ sticky' = {} /\ priority' = [s \in Sources |-> 0]
    /\ LET on  == active \ {USB}
           raw == {s \in Sources : s \in on <=> s \in noninverted}
           st  == (raw \ sticky) \cup ((sticky_status \cup (raw \ raw_status)) \cap sticky)
       IN  interrupts' = IF emulate_cx THEN CxLines(on, mask)
                         ELSE {q \in Fiq : \E s \in st \cap mask[q] :
                                              priority[s] < priority_limit[q]}
    /\ unseen' = TRUE
    /\ UNCHANGED emulate_cx
-----------------------------------------------------------------------------
(***************************************************************************)
(* The program, on the classic controller.                                 *)
(***************************************************************************)
ClearSticky(value) == /\ UNCHANGED <<inputs, rest>>
                      /\ update(sticky_status \ value)

Enable(q, value) == /\ mask' = [mask EXCEPT ![q] = @ \cup value]
                    /\ UNCHANGED <<active, priority_limit, noninverted, sticky, rest>>
                    /\ update(sticky_status)

Disable(q, value) == /\ mask' = [mask EXCEPT ![q] = @ \ value]
                     /\ UNCHANGED <<active, priority_limit, noninverted, sticky, rest>>
                     /\ update(sticky_status)

SetLimit(q, value) == /\ priority_limit' = [priority_limit EXCEPT ![q] = value]
                      /\ UNCHANGED <<active, mask, noninverted, sticky, rest>>
                      /\ update(sticky_status)

SetNoninverted(value) == /\ noninverted' = value
                         /\ UNCHANGED <<active, mask, priority_limit, sticky, rest>>
                         /\ update(sticky_status)

SetSticky(value) == /\ sticky' = value
                    /\ UNCHANGED <<active, mask, priority_limit, noninverted, rest>>
                    /\ update(sticky_status)

\* Nothing is updated.
SetPriority(s, value) ==
    /\ priority' = [priority EXCEPT ![s] = value]
    /\ unseen' = TRUE
    /\ UNCHANGED <<inputs, raw_status, sticky_status, status, interrupts, emulate_cx>>

\* Register 0x24: the limit becomes the priority of the current interrupt, or of
\* interrupt 0 if there is none.
Acknowledge(q) ==
    LET limit == priority[get_current_int(q, 0)]
    IN  /\ priority_limit' = [priority_limit EXCEPT ![q] = limit]
        /\ unseen' = (unseen \/ limit > priority_limit[q])
        /\ UNCHANGED <<active, mask, noninverted, sticky, raw_status, sticky_status,
                       status, interrupts, emulate_cx, priority>>

\* Variant: the line is lowered whether or not there is another interrupt.
EndOfInterruptAlways(q) ==
    /\ interrupts' = interrupts \ {q}
    /\ UNCHANGED <<inputs, raw_status, sticky_status, status, unseen, rest>>

\* Register 0x28: the line is lowered, unless there is another interrupt.
EndOfInterrupt(q) ==
    /\ interrupts' = IF get_current_int(q, NoSource) = NoSource
                     THEN interrupts \ {q} ELSE interrupts
    /\ UNCHANGED <<inputs, raw_status, sticky_status, status, unseen, rest>>

ClassicStep ==
    /\ ~emulate_cx
    /\ \/ \E value \in SUBSET Sources :
             ClearSticky(value) \/ SetSticky(value)
             \/ \E q \in Fiq : Enable(q, value) \/ Disable(q, value)
       \/ \E q \in Fiq : Acknowledge(q) \/ EndOfInterrupt(q)
                         \/ \E value \in Limits : SetLimit(q, value)
       \/ \E value \in Inverted : SetNoninverted(Sources \ value)
       \/ \E s \in Sources, value \in Priorities : SetPriority(s, value)
-----------------------------------------------------------------------------
\* The program, on the controller of the CX.
CxStep ==
    /\ emulate_cx
    /\ \E value \in SUBSET Sources :
          mask' \in {[mask EXCEPT ![1] = value],
                     [mask EXCEPT ![0] = @ \cup value], [mask EXCEPT ![0] = @ \ value]}
    /\ UNCHANGED <<active, priority_limit, noninverted, sticky, rest>>
    /\ update_cx

Next == \/ \E s \in Sources, on \in BOOLEAN : int_set(s, on)
        \/ Reset
        \/ ClassicStep \/ CxStep

Spec == Init /\ [][Next]_vars
-----------------------------------------------------------------------------
(***************************************************************************)
(* Properties.                                                             *)
(***************************************************************************)
\* No interrupt is lost: whenever one may interrupt, whatever was acknowledged,
\* masked or ended since it was raised, its line of the CPU is up.  The CX's are
\* up for nothing else.  Except while `unseen`: the code looks at its lines neither when
\* a priority is written nor when a read of 0x24 raises the limit (nor at a reset), so
\* until its next update() nothing is said of them.
LinesTellPending ==
    unseen \/ IF emulate_cx THEN interrupts = CxLines(active, mask)
                            ELSE {q \in Fiq : Eligible(q) # {}} \subseteq interrupts

=============================================================================
