-------------------------------- MODULE Sched --------------------------------
(***************************************************************************)
(* The event scheduler of the emulator:                                    *)
(* src/Ndless/trunk/Ndless-SDK/nspire_emu/schedule.c, with the places of   *)
(* emu.c, cpu.c, asmcode.S, translate.c and keypad.c that move its clock.  *)
(*                                                                         *)
(* An event is kept as a second and a tick of its own clock within that    *)
(* second, and is compared with the CPU's cycles.  The time is kept        *)
(* relative to the next event, as cycle_count_delta: there is no absolute  *)
(* time.  A function of the scheduler first lets the pending events        *)
(* happen: that loop is run one turn per step, with `call' what is to be   *)
(* done at its end.                                                        *)
(***************************************************************************)
EXTENDS Integers, FiniteSets

CONSTANTS
    Items,      \* enum sched_item_index, numbers
    Clock,      \* the clock of each item, a function
    AtReset,    \* items whose second is left 0, not -1, by a reset
    Rates,      \* values of clock_rates
    ResetRates, \* clock_rates after a reset
    SetTicks,   \* ticks event_set() is called with, for each item
    Repeats,    \* ticks the item's proc calls event_repeat() with
    BlockSizes, \* instructions of a translated block that are left to run
    Word,       \* 2^32, where a u32 wraps
    Skip,       \* cycles a read of the keypad skips
    MaxDelta,   \* cycles the CPU may run past an event (bound)
    None        \* no item, no ticks

Clocks == {"CPU", "AHB", "APB", "27M", "12M", "32K"}

ASSUME SchedAssumption ==
    /\ Items \subseteq Nat /\ IsFiniteSet(Items) /\ AtReset \subseteq Items
    /\ Clock \in [Items -> Clocks]
    /\ Word \in Nat \ {0}
    /\ Rates \subseteq [Clocks -> 1..Word-1] /\ ResetRates \in Rates
    /\ SetTicks \in [Items -> SUBSET (0..Word-1)]
    /\ Repeats \in [Items -> SUBSET (1..Word-1)]
    /\ BlockSizes \subseteq Nat \ {0}
    /\ Skip \in Nat \ {0} /\ MaxDelta \in Nat
    /\ None \notin Int

VARIABLES
    clock_rates,
    sched_items,       \* second (-1: disabled), tick and cputick of each item
    next_cputick,
    next_index,        \* None if no more events this second
    cycle_count_delta,
    call,              \* what runs sched_process_pending_events()
    block              \* cycles of the translated block a fault would give back

schedVars == <<clock_rates, sched_items, next_cputick, next_index,
               cycle_count_delta, call, block>>

Idle == [op |-> "cpu"]    \* the CPU is executing instructions
Loop == [op |-> "loop"]   \* the emulator's main loop, between two runs of it

Requests ==
    [op : {"clear", "remaining"}, item : Items]
    \cup (UNION {[op : {"set"}, item : {i}, ticks : SetTicks[i]] : i \in Items})
    \cup [op : {"clocks"}, rates : Rates]

Rate(i) == clock_rates[Clock[i]]

muldiv(a, b, c) == (a * b) \div c

\* The time, in cycles of the CPU since the second began.
Now == next_cputick + cycle_count_delta

\* Variant: the carry is missed when the ticks make exactly a second.
RepeatedLateCarry(item, i, ticks, rates) ==
    LET rate  == rates[Clock[i]]
        carry == item.tick > rate - (ticks % rate)
        tick  == (ticks % rate) + item.tick - (IF carry THEN rate ELSE 0)
    IN  [second  |-> (ticks \div rate) + (IF carry THEN 1 ELSE 0),
         tick    |-> tick,
         cputick |-> muldiv(tick, rates["CPU"], rate)]

\* event_repeat(): `ticks' after the tick that the item holds.
Repeated(item, i, ticks, rates) ==
    LET rate  == rates[Clock[i]]
        carry == item.tick >= rate - (ticks % rate)
        tick  == (ticks % rate) + item.tick - (IF carry THEN rate ELSE 0)
    IN  [second  |-> (ticks \div rate) + (IF carry THEN 1 ELSE 0),
         tick    |-> tick,
         cputick |-> muldiv(tick, rates["CPU"], rate)]

Candidates(items, rates) ==
    {i \in Items : items[i].second = 0 /\ items[i].cputick < rates["CPU"]}

\* Variant: the first item found, whenever it is due.
EarliestByIndex(items, is) == CHOOSE i \in is : \A j \in is : i <= j

Earliest(items, is) ==
    CHOOSE i \in is : \A j \in is :
        \/ items[i].cputick < items[j].cputick
        \/ items[i].cputick = items[j].cputick /\ i <= j

sched_update_next_event(cputick) ==
    LET is == Candidates(sched_items', clock_rates')
    IN  /\ next_index' = IF is = {} THEN None ELSE Earliest(sched_items', is)
        /\ next_cputick' = IF is = {} THEN clock_rates'["CPU"]
                                      ELSE sched_items'[next_index'].cputick
        /\ cycle_count_delta' = cputick - next_cputick'

Enabled == {i \in Items : sched_items[i].second >= 0}

\* Ticks from `cputick' to the event, and what a u32 holds of them.
Ticks(i, cputick) == sched_items[i].second * Rate(i) + sched_items[i].tick
                       - muldiv(cputick, Rate(i), clock_rates["CPU"])

event_ticks_remaining(i, cputick) == Ticks(i, cputick) % Word

SchedReset ==
    /\ clock_rates' = ResetRates
    /\ sched_items' = [i \in Items |->
          [second |-> IF i \in AtReset THEN 0 ELSE -1, tick |-> 0, cputick |-> 0]]
    /\ sched_update_next_event(0)
    /\ call' = Loop /\ block' = 0

Init ==
    /\ clock_rates = ResetRates
    /\ sched_items = [i \in Items |->
          [second |-> IF i \in AtReset THEN 0 ELSE -1, tick |-> 0, cputick |-> 0]]
    /\ next_index = IF AtReset = {} THEN None ELSE Earliest(sched_items, AtReset)
    /\ next_cputick = IF AtReset = {} THEN ResetRates["CPU"] ELSE 0
    /\ cycle_count_delta = -next_cputick
    /\ call = Loop /\ block = 0
-----------------------------------------------------------------------------
(***************************************************************************)
(* The CPU.  An interpreted instruction counts before it is executed; a    *)
(* translated block is counted as a whole when it is entered, so that its  *)
(* instructions may run while an event is already due.                     *)
(***************************************************************************)
itemVars == <<clock_rates, sched_items, next_cputick, next_index>>

Interpret == /\ call = Idle /\ cycle_count_delta < 0
             /\ cycle_count_delta' = cycle_count_delta + 1
             /\ block' = 0
             /\ UNCHANGED <<itemVars, call>>

EnterBlock(n) == /\ call = Idle /\ cycle_count_delta < 0
                 /\ cycle_count_delta + n <= MaxDelta
                 /\ cycle_count_delta' = cycle_count_delta + n
                 /\ block' = n
                 /\ UNCHANGED <<itemVars, call>>

\* A data abort in the block, before it has reached a device.
Fault == /\ call = Idle /\ block > 0
         /\ cycle_count_delta' = cycle_count_delta - block
         /\ block' = 0
         /\ UNCHANGED <<itemVars, call>>

\* A read of a timer, or the wait for an interrupt: on to the next event.
FastForward == /\ call = Idle
               /\ cycle_count_delta' = 0
               /\ block' = 0
               /\ UNCHANGED <<itemVars, call>>

KeypadRead == /\ call = Idle
              /\ cycle_count_delta + Skip <= MaxDelta
              /\ cycle_count_delta' = cycle_count_delta + Skip
              /\ UNCHANGED <<itemVars, call, block>>

\* The instructions have run past the next event, or up to it.
MainLoop == /\ call = Idle /\ cycle_count_delta >= 0
            /\ call' = Loop /\ block' = 0
            /\ UNCHANGED <<itemVars, cycle_count_delta>>

\* A device's register is reached, and its handler calls the scheduler.
Request(c) == /\ call = Idle
              /\ call' = c /\ block' = 0
              /\ UNCHANGED <<itemVars, cycle_count_delta>>
-----------------------------------------------------------------------------
(***************************************************************************)
(* sched_process_pending_events(), one turn of its loop per step.          *)
(***************************************************************************)
Pending == call # Idle /\ cycle_count_delta >= 0

\* Variant: the time goes on from the second before.
NewSecondKeepsTime ==
    /\ Pending /\ next_index = None
    /\ sched_items' = [i \in Items |-> [sched_items[i] EXCEPT
                          !.second = IF @ >= 0 THEN @ - 1 ELSE @]]
    /\ UNCHANGED clock_rates
    /\ sched_update_next_event(Now)
    /\ UNCHANGED <<call, block>>

NewSecond ==
    /\ Pending /\ next_index = None
    /\ sched_items' = [i \in Items |-> [sched_items[i] EXCEPT
                          !.second = IF @ >= 0 THEN @ - 1 ELSE @]]
    /\ UNCHANGED clock_rates
    /\ sched_update_next_event(Now - clock_rates["CPU"])
    /\ UNCHANGED <<call, block>>

\* The event happens: its proc repeats it after `ticks', or not (None).
Fire(i, ticks) ==
    /\ Pending /\ next_index = i
    /\ LET off == [sched_items[i] EXCEPT !.second = -1]
       IN  sched_items' = [sched_items EXCEPT ![i] =
               IF ticks = None THEN off
                               ELSE Repeated(off, i, ticks, clock_rates)]
    /\ UNCHANGED clock_rates
    /\ sched_update_next_event(Now)
    /\ UNCHANGED <<call, block>>

Processed == call # Idle /\ cycle_count_delta < 0

\* Variant: the events keep the ticks of the old clocks.
SetClocksOnly(rates) ==
    /\ clock_rates' = rates
    /\ UNCHANGED sched_items
    /\ sched_update_next_event(muldiv(Now, rates["CPU"], clock_rates["CPU"]))

\* sched_set_clocks(): each enabled event keeps the ticks it had remaining.
SetClocks(rates) ==
    LET cputick == muldiv(Now, rates["CPU"], clock_rates["CPU"])
    IN  /\ clock_rates' = rates
        /\ sched_items' = [i \in Items |->
              IF i \in Enabled
              THEN LET from == muldiv(cputick, rates[Clock[i]], rates["CPU"])
                   IN  Repeated([sched_items[i] EXCEPT !.tick = from], i,
                                event_ticks_remaining(i, Now), rates)
              ELSE sched_items[i]]
        /\ sched_update_next_event(cputick)

\* The rest of the function that has let the pending events happen.
Finish ==
    /\ Processed
    /\ \/ /\ call.op \in {"loop", "remaining"}
          /\ UNCHANGED <<itemVars, cycle_count_delta>>
       \/ /\ call.op = "set"
          /\ LET i    == call.item
                 from == muldiv(Now, Rate(i), clock_rates["CPU"])
             IN  sched_items' = [sched_items EXCEPT ![i] =
                    Repeated([@ EXCEPT !.tick = from], i, call.ticks, clock_rates)]
          /\ UNCHANGED clock_rates
          /\ sched_update_next_event(Now)
       \/ /\ call.op = "clear"
          /\ sched_items' = [sched_items EXCEPT ![call.item].second = -1]
          /\ UNCHANGED clock_rates
          /\ sched_update_next_event(Now)
       \/ /\ call.op = "clocks"
          /\ SetClocks(call.rates)
    /\ call' = Idle
    /\ UNCHANGED block

Execute == Interpret \/ FastForward \/ KeypadRead \/ \E n \in BlockSizes : EnterBlock(n)

Turn == NewSecond \/ \E i \in Items : \E ticks \in Repeats[i] \cup {None} : Fire(i, ticks)

Next == \/ Execute \/ Fault \/ MainLoop
        \/ \E c \in Requests : Request(c)
        \/ Turn \/ Finish

Spec == Init /\ [][Next]_schedVars
-----------------------------------------------------------------------------
(***************************************************************************)
(* Properties.                                                             *)
(***************************************************************************)
\* The ticks of an item are below its clock's rate, and where they fall in the
\* CPU's second is kept with them, whatever clocks were set since.
TypeOK ==
    /\ clock_rates \in Rates
    /\ sched_items \in [Items -> [second : Nat \cup {-1}, tick : Nat, cputick : Nat]]
    /\ \A i \in Enabled : /\ sched_items[i].tick < Rate(i)
                          /\ sched_items[i].cputick
                               = muldiv(sched_items[i].tick, clock_rates["CPU"], Rate(i))
    /\ next_index \in Items \cup {None}
    /\ next_cputick \in 0..clock_rates["CPU"]
    /\ cycle_count_delta \in -clock_rates["CPU"]..clock_rates["CPU"] + MaxDelta
    /\ call \in Requests \cup {Idle, Loop}
    /\ block \in Nat

\* No event is missed: once the pending events have happened, each event is at
\* least one of its own ticks away, on whatever clock and in whatever second.
NoneMissed == Processed => \A i \in Enabled : Ticks(i, Now) >= 1

\* What a device may have seen of the time: an event that is due has not
\* happened before the scheduler says so, and a block may still be given back.
Observed == IF call = Idle /\ cycle_count_delta - block >= 0
            THEN next_cputick
            ELSE Now - (IF call = Idle THEN block ELSE 0)

Left == [i \in Items |-> IF i \in Enabled THEN Ticks(i, Observed) ELSE None]

\* No more than a second passes at once, and what the CPU may run past its end.
MaxPass == [i \in Items |-> UNION {
    0..muldiv(rates["CPU"] + MaxDelta, rates[Clock[i]], rates["CPU"]) : rates \in Rates}]

\* An event of a clock of rate r comes at most 1 + (r - 2) / CPU ticks early.
MaxSlack == 1 + Cardinality({n \in 1..Word : \E rates \in Rates, i \in Items :
                                rates["CPU"] * n <= rates[Clock[i]] - 2})

\* What an event that is set for 0 ticks may add to the count of another: the
\* ticks that begin with its own clock's present tick, or after that, up to now.
MaxAgain == Cardinality({n \in 1..Word : \E rates \in Rates, i, j \in Items :
    \E now \in 0..rates["CPU"] - 1 :
       LET tick  == muldiv(now, rates[Clock[i]], rates["CPU"])
           began == muldiv(tick, rates["CPU"], rates[Clock[i]])
       IN  n <= muldiv(now, rates[Clock[j]], rates["CPU"])
                  - muldiv(began, rates[Clock[j]], rates["CPU"])})

\* The scheduler is a set of countdowns of ticks: the seconds, the CPU's cycles,
\* the blocks and the changes of the clocks do not show in them, but that a
\* change takes 2^32 ticks from an event that is further away than that.
Timers == INSTANCE Countdown WITH left <- Left, Off <- None, AtOnce <- MaxPass,
                             Slack <- MaxSlack, Again <- MaxAgain, Modulus <- Word
CountsDown == Timers!Spec

\* sched_process_pending_events() ends, although events set themselves again.
PendingEnds == Pending ~> Processed

=============================================================================
