----------------------------- MODULE MCWatchdog -----------------------------
(***************************************************************************)
(* Two events of the emulator on small clocks: the screen's, set for 0     *)
(* ticks of a clock that may be faster than the CPU, and the watchdog's.   *)
(***************************************************************************)
EXTENDS Watchdog, TLC

LCD == 2
DOG == 4

MCClock == LCD :> "27M" @@ DOG :> "APB"

Speed(cpu, apb) == [c \in Clocks |-> CASE c = "CPU" -> cpu
                                       [] c \in {"AHB", "APB"} -> apb
                                       [] c \in {"27M", "12M"} -> 4
                                       [] c = "32K" -> 2]
MCResetRates == Speed(4, 3)
MCRates      == {MCResetRates, Speed(3, 2)}

MCLoads    == {0, 7}
MCSetTicks == LCD :> {0} @@ DOG :> (MCLoads \ {0})
MCRepeats  == LCD :> {1} @@ DOG :> (MCLoads \ {0})

=============================================================================
