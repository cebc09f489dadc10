------------------------------ MODULE Watchdog ------------------------------
(***************************************************************************)
(* The watchdog of the emulated machine (the registers at 90060000):       *)
(* src/Ndless/trunk/Ndless-SDK/nspire_emu/misc.c, on top of the event      *)
(* scheduler.  A running watchdog is an event of the scheduler: when it is *)
(* due the first time, an interrupt is raised; the second time, the        *)
(* machine is reset.  Its registers' handlers call the scheduler, which    *)
(* lets the pending events happen first, so that the watchdog's own event  *)
(* may run in the middle of the handler that stops it or clears it.        *)
(***************************************************************************)
EXTENDS Sched

CONSTANTS
    WATCHDOG,  \* SCHED_WATCHDOG
    Loads      \* values written to its load register

ASSUME WatchdogAssumption ==
    /\ WATCHDOG \in Items \ AtReset
    /\ Loads \subseteq Nat /\ Word - 1 \in Loads
    /\ SetTicks[WATCHDOG] = Loads \ {0}
    /\ Repeats[WATCHDOG] = Loads \ {0}
    /\ None \notin {"status", "lower"}

VARIABLES
    load, interrupt, locked,
    control,   \* bit 0: it runs; bit 1: it resets the machine
    line,      \* INT_WATCHDOG, the line of the interrupt controller
    after,     \* what the handler that called the scheduler does with the line
    reset      \* EVENT_RESET

dogVars == <<load, interrupt, locked, control, line, after, reset>>
vars == <<schedVars, dogVars>>

Bits == [run : BOOLEAN, resets : BOOLEAN]

\* 0xFFFFFFFF, its period after a reset.
AllOnes == Word - 1

WInit == /\ Init
         /\ load = AllOnes /\ interrupt = FALSE /\ locked = FALSE
         /\ control = [run |-> FALSE, resets |-> FALSE]
         /\ line = FALSE /\ after = None /\ reset = FALSE

watchdog_reset ==
    /\ load' = AllOnes /\ interrupt' = FALSE /\ locked' = FALSE
    /\ control' = [run |-> FALSE, resets |-> FALSE]
    /\ line' = FALSE /\ after' = None /\ reset' = FALSE

\* The main loop finds EVENT_RESET once the pending events have happened.
Reset == /\ reset /\ call = Idle /\ cycle_count_delta < 0
         /\ SchedReset
         /\ watchdog_reset
-----------------------------------------------------------------------------
\* Variant: the event is not repeated the first time.
TimeoutOnce ==
    /\ Pending /\ next_index = WATCHDOG
    /\ Fire(WATCHDOG, None)
    /\ IF control.resets /\ interrupt
       THEN reset' = TRUE /\ UNCHANGED <<interrupt, line>>
       ELSE interrupt' = TRUE /\ line' = TRUE /\ UNCHANGED reset
    /\ UNCHANGED <<load, locked, control, after>>

\* watchdog_event().
Timeout ==
    /\ Pending /\ next_index = WATCHDOG
    /\ IF control.resets /\ interrupt
       THEN /\ Fire(WATCHDOG, None)
            /\ reset' = TRUE
            /\ UNCHANGED <<interrupt, line>>
       ELSE /\ Fire(WATCHDOG, load)
            /\ interrupt' = TRUE /\ line' = TRUE
            /\ UNCHANGED reset
    /\ UNCHANGED <<load, locked, control, after>>

Reload(l) == Request([op |-> "set", item |-> WATCHDOG, ticks |-> l])

WriteLoad(l) ==
    /\ call = Idle /\ ~locked
    /\ control.run => l # 0
    /\ load' = l
    /\ IF control.run THEN Reload(l) ELSE UNCHANGED schedVars
    /\ UNCHANGED <<interrupt, locked, control, line, after, reset>>

\* Variant: the event is not cleared when the watchdog is stopped.
WriteControlKeepsEvent(bits) ==
    /\ call = Idle /\ ~locked
    /\ bits.run /\ ~control.run => load # 0
    /\ control' = bits
    /\ IF bits.run /\ ~control.run
       THEN Reload(load) /\ after' = "status" /\ UNCHANGED line
       ELSE line' = (bits.run /\ interrupt) /\ UNCHANGED <<schedVars, after>>
    /\ UNCHANGED <<load, interrupt, locked, reset>>

WriteControl(bits) ==
    /\ call = Idle /\ ~locked
    /\ bits.run /\ ~control.run => load # 0
    /\ control' = bits
    /\ \/ /\ bits.run /\ ~control.run
          /\ Reload(load)
          /\ after' = "status" /\ UNCHANGED line
       \/ /\ ~bits.run /\ control.run
          /\ Request([op |-> "clear", item |-> WATCHDOG])
          /\ after' = "status" /\ UNCHANGED line
       \/ /\ bits.run <=> control.run
          /\ line' = (bits.run /\ interrupt)
          /\ UNCHANGED <<schedVars, after>>
    /\ UNCHANGED <<load, interrupt, locked, reset>>

WriteClear ==
    /\ call = Idle /\ ~locked
    /\ control.run => load # 0
    /\ interrupt' = FALSE
    /\ IF control.run
       THEN Reload(load) /\ after' = "lower" /\ UNCHANGED line
       ELSE line' = FALSE /\ UNCHANGED <<schedVars, after>>
    /\ UNCHANGED <<load, locked, control, reset>>

WriteLock == /\ call = Idle
             /\ locked' \in BOOLEAN
             /\ UNCHANGED <<schedVars, load, interrupt, control, line, after, reset>>

\* The scheduler returns to the handler, which sets the line.
Return ==
    /\ Finish
    /\ line' = CASE after = "status" -> control.run /\ interrupt
                 [] after = "lower"  -> FALSE
                 [] OTHER            -> line
    /\ after' = None
    /\ UNCHANGED <<load, interrupt, locked, control, reset>>

\* A period of 0, for a watchdog that runs or is started: error() leaves the
\* handler for the main loop, which resets the machine.  If the watchdog was
\* due already, that loop repeats it for ever, after 0 ticks; this is left out.
PeriodZero ==
    /\ call = Idle /\ ~locked /\ cycle_count_delta < 0
    /\ IF control.run THEN 0 \in Loads ELSE load = 0
    /\ SchedReset
    /\ watchdog_reset

Write == \/ \E l \in Loads : WriteLoad(l)
         \/ \E bits \in Bits : WriteControl(bits)
         \/ WriteClear

\* The requests of the other devices, and the watchdog's count being read.
OtherRequests ==
    {c \in Requests : \/ c.op = "clocks"
                      \/ c.item # WATCHDOG
                      \/ c.op = "remaining" /\ control.run}

\* What the scheduler and the other devices do without the watchdog.
Elsewhere ==
    /\ \/ Execute \/ Fault \/ MainLoop \/ NewSecond
       \/ \E c \in OtherRequests : Request(c)
       \/ \E i \in Items \ {WATCHDOG} : \E ticks \in Repeats[i] \cup {None} : Fire(i, ticks)
    /\ UNCHANGED dogVars

WNext == Elsewhere \/ Timeout \/ Return \/ Write \/ PeriodZero \/ WriteLock \/ Reset

\* The emulator goes on: its loop is never blocked, and the CPU executes
\* instructions for ever, those that reach a device included.
WSpec == /\ WInit /\ [][WNext]_vars
         /\ WF_vars(Elsewhere /\ Turn) /\ WF_vars(Timeout)
         /\ WF_vars(Return) /\ WF_vars(Reset)
         /\ SF_vars(Elsewhere /\ MainLoop) /\ SF_vars(Elsewhere /\ Execute)
-----------------------------------------------------------------------------
(***************************************************************************)
(* Properties.                                                             *)
(***************************************************************************)
WTypeOK == /\ TypeOK
           /\ load \in Loads
           /\ control \in Bits
           /\ {interrupt, locked, line, reset} \subseteq BOOLEAN
           /\ after \in {None, "status", "lower"}

\* While it runs, the watchdog is set to go off, whether its registers were
\* written before, after or while it went off; once stopped it never goes off,
\* and its interrupt line is down.
ArmedWhileRunning ==
    call = Idle => /\ control.run => WATCHDOG \in Enabled \/ reset
                   /\ WATCHDOG \in Enabled => control.run
                   /\ line => control.run /\ interrupt

\* A watchdog that is to reset the machine does so, unless its registers are
\* written again and again, or what may stop the time happens for ever: faults
\* that give a block's cycles back, and events set or clocks changed, that count
\* a part of a tick again.
StopsTime == \/ call = Idle /\ call' = Idle /\ cycle_count_delta' < cycle_count_delta
             \/ call.op \in {"set", "clocks"} /\ call' = Idle
WatchdogBites ==
    \/ []<>reset
    \/ []<><<Write \/ StopsTime>>_vars
    \/ []<>~(control.run /\ control.resets)

=============================================================================
