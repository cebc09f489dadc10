------------------------------ MODULE Countdown ------------------------------
(***************************************************************************)
(* What the emulator's devices expect of schedule.c: each event counts     *)
(* down the ticks of its own clock, and nothing else.  The seconds, the    *)
(* ticks within a second, the CPU cycles an event is compared at and a     *)
(* change of the clocks' rates are not part of it: Sched implements this.  *)
(***************************************************************************)
EXTENDS Integers

CONSTANTS
    Items,     \* events
    Clock,     \* the clock each of them counts
    Off,       \* the count of an event that is not set
    AtOnce,    \* ticks of each event's clock that may pass at once, a set
    Slack,     \* ticks that an event may come early, at most
    Again,     \* ticks of a clock that may be counted a second time, at most
    Modulus    \* what the numbers of ticks of the emulator stay below

VARIABLE left  \* ticks each event is still to wait

Running == {i \in Items : left[i] # Off}

Init == left \in [Items -> {Off, 0}]

\* Time passes, up to the next event or a little past it: the events of one
\* clock count the same ticks.
Pass == /\ left' \in [Items -> Int \cup {Off}]
        /\ \A i \in Items : left'[i] # Off <=> i \in Running
        /\ \A i \in Running : left[i] - left'[i] \in AtOnce[i]
        /\ \A i, j \in Running :
              Clock[i] = Clock[j] => left[i] - left'[i] = left[j] - left'[j]

\* An event is due: it stops, or waits again from when it was due and not
\* from when it is handled.
Fire(i) == /\ i \in Running
           /\ left[i] <= Slack
           /\ \/ left'[i] = Off
              \/ left'[i] \in Int /\ left'[i] > left[i]
           /\ left' = [left EXCEPT ![i] = left'[i]]

\* A device sets an event, for a number of ticks from now, or clears it.
Change(i) == /\ left'[i] \in Nat \cup {Off}
             /\ left' = [left EXCEPT ![i] = left'[i]]

\* It is set for 0 ticks from now, which is when the present tick began: the
\* time since then may be counted again.
SetNow(i) == /\ left' \in [Items -> Int \cup {Off}]
             /\ left'[i] \in 0..Slack
             /\ \A j \in Items \ {i} : IF j \in Running
                   THEN left'[j] # Off /\ left'[j] - left[j] \in 0..Again
                   ELSE left'[j] = Off

\* The clocks change while an event has to wait for more ticks than a number
\* holds: each goes on with what it holds of them.  One with 0 is set for now.
Wrap == /\ \E i \in Running : left[i] >= Modulus
        /\ left' \in [Items -> Int \cup {Off}]
        /\ \A i \in Items : IF i \in Running
              THEN left'[i] # Off /\ left'[i] - (left[i] % Modulus) \in 0..Again
              ELSE left'[i] = Off

\* The emulated machine is reset.
Reset == left' \in [Items -> {Off, 0}]

Next == Pass \/ Wrap \/ Reset \/ \E i \in Items : Fire(i) \/ Change(i) \/ SetNow(i)

Spec == Init /\ [][Next]_left

=============================================================================
