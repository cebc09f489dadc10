--------------------------- MODULE WatchdogProofs ---------------------------
(***************************************************************************)
(* Proofs about Sched and Watchdog, for any items, clocks and rates, and   *)
(* whatever the watchdog's registers are written with and when.            *)
(***************************************************************************)
EXTENDS Watchdog, TLAPS, WellFoundedInduction, FiniteSetTheorems

----------------------------------------------------------------------------
(***************************************************************************)
(* The inductive invariant of the scheduler: where its clock may stand,    *)
(* and what it takes for the next event.                                   *)
(***************************************************************************)

\* The time stays within the second, however far the CPU has run past the end
\* of it, and a fault gives no more cycles back than have passed.
NowBounded ==
    /\ block <= Now /\ Now <= clock_rates["CPU"] + MaxDelta
    /\ call # Idle => block = 0

\* The next event is the first of those that are due within this second.
NextFirst ==
    LET is == Candidates(sched_items, clock_rates)
    IN  IF next_index = None
        THEN is = {} /\ next_cputick = clock_rates["CPU"]
        ELSE /\ next_index \in is
             /\ next_cputick = sched_items[next_index].cputick
             /\ \A j \in is : next_cputick <= sched_items[j].cputick

SInv == TypeOK /\ NowBounded /\ NextFirst

(***************************************************************************)
(* The inductive invariant of the watchdog.                                *)
(***************************************************************************)

\* A handler of the watchdog's registers has called the scheduler.
Starting == call.op = "set" /\ call.item = WATCHDOG
Stopping == call.op = "clear" /\ call.item = WATCHDOG

Dog == WATCHDOG \in Enabled

DogInv ==
    /\ control.run => load # 0
    /\ Dog => load # 0
    /\ Starting => control.run
    /\ Stopping => ~control.run /\ after = "status"
    /\ ~Starting /\ ~Stopping => /\ after = None
                                 /\ control.run => Dog \/ reset
                                 /\ Dog => control.run
    /\ after = None => (line => control.run /\ interrupt)

IInv == WTypeOK /\ SInv /\ DogInv

----------------------------------------------------------------------------
(***************************************************************************)
(* Products, quotients and remainders.                                     *)
(***************************************************************************)

LEMMA Quotient ==
    ASSUME NEW a \in Nat, NEW r \in Nat \ {0}
    PROVE  /\ a \div r \in Nat /\ a % r \in 0 .. r - 1
           /\ r * (a \div r) <= a /\ a < r * (a \div r) + r
BY SMT

LEMMA Product == ASSUME NEW a \in Nat, NEW b \in Nat PROVE a * b \in Nat
OBVIOUS

LEMMA ProductLess ==
    ASSUME NEW a \in Nat, NEW b \in Nat, NEW c \in Nat \ {0}, a < b
    PROVE  a * c < b * c
OBVIOUS

LEMMA ProductLeq ==
    ASSUME NEW a \in Nat, NEW b \in Nat, NEW c \in Nat, a <= b
    PROVE  a * c <= b * c
OBVIOUS

\* A tick is below its rate exactly if it falls within the second of another clock.
LEMMA ConvertedLess ==
    ASSUME NEW t \in Nat, NEW to \in Nat \ {0}, NEW from \in Nat \ {0}, t < from
    PROVE  muldiv(t, to, from) \in 0 .. to - 1
<1>1. t * to \in Nat /\ t * to < from * to
  BY Product, ProductLess
<1>2. PICK q \in Nat : q = (t * to) \div from /\ from * q <= t * to
  BY <1>1, Quotient
<1>3. q < to
  <2> SUFFICES ASSUME to <= q PROVE FALSE
    BY <1>2
  <2>1. to * from <= q * from
    BY ProductLeq
  <2> QED BY <1>1, <1>2, <2>1
<1> QED BY <1>2, <1>3 DEF muldiv

\* The converted time is below an event's tick, as long as the event's cycle is
\* still to come.
LEMMA ConvertedBefore ==
    ASSUME NEW tick \in Nat, NEW now \in Nat, NEW cpu \in Nat \ {0}, NEW rate \in Nat \ {0},
           now < muldiv(tick, cpu, rate)
    PROVE  muldiv(now, rate, cpu) \in Nat /\ muldiv(now, rate, cpu) < tick
<1>1. tick * cpu \in Nat /\ now * rate \in Nat
  BY Product
<1>2. PICK p \in Nat : p = (tick * cpu) \div rate /\ rate * p <= tick * cpu
  BY <1>1, Quotient
<1>3. PICK q \in Nat : q = (now * rate) \div cpu /\ cpu * q <= now * rate
  BY <1>1, Quotient
<1>4. now < p
  BY <1>2 DEF muldiv
<1>5. now * rate < p * rate
  BY <1>4, ProductLess
<1>6. cpu * q < tick * cpu
  BY <1>1, <1>2, <1>3, <1>5
<1>7. q < tick
  <2> SUFFICES ASSUME tick <= q PROVE FALSE
    BY <1>3
  <2>1. tick * cpu <= q * cpu
    BY ProductLeq
  <2> QED BY <1>6, <2>1
<1> QED BY <1>3, <1>7 DEF muldiv

----------------------------------------------------------------------------
(***************************************************************************)
(* The first of some events.                                               *)
(***************************************************************************)

\* Every set of natural numbers that is not empty has a least element.
LEMMA LeastNatural ==
    ASSUME NEW T \in SUBSET Nat, T # {}
    PROVE  \E m \in T : \A k \in T : m <= k
<1>1. PICK m \in T : \A k \in T : ~(<<k, m>> \in OpToRel(<, Nat))
  BY NatLessThanWellFounded, WFMin, Zenon
<1>2. \A k \in T : ~(k < m)
  BY <1>1, Zenon DEF OpToRel
<1> QED BY <1>2

LEMMA EarliestExists ==
    ASSUME NEW items, NEW is \in SUBSET Items, is # {},
           \A i \in is : items[i].cputick \in Nat
    PROVE  /\ Earliest(items, is) \in is
           /\ \A j \in is : items[Earliest(items, is)].cputick <= items[j].cputick
<1>1. is \subseteq Nat
  BY SchedAssumption
<1>2. PICK t \in {items[i].cputick : i \in is} :
         \A u \in {items[i].cputick : i \in is} : t <= u
  <2>1. {items[i].cputick : i \in is} \subseteq Nat /\ {items[i].cputick : i \in is} # {}
    OBVIOUS
  <2> QED BY <2>1, LeastNatural
<1>3. PICK k \in {i \in is : items[i].cputick = t} :
         \A j \in {i \in is : items[i].cputick = t} : k <= j
  <2>1. {i \in is : items[i].cputick = t} \subseteq Nat
    BY <1>1
  <2>2. {i \in is : items[i].cputick = t} # {}
    OBVIOUS
  <2> QED BY <2>1, <2>2, LeastNatural
<1>4. \A j \in is : \/ items[k].cputick < items[j].cputick
                    \/ items[k].cputick = items[j].cputick /\ k <= j
  BY <1>2, <1>3
<1>5. k \in is
  BY <1>3
<1>6. /\ Earliest(items, is) \in is
      /\ \A j \in is : \/ items[Earliest(items, is)].cputick < items[j].cputick
                      \/ /\ items[Earliest(items, is)].cputick = items[j].cputick
                         /\ Earliest(items, is) <= j
  BY <1>4, <1>5 DEF Earliest
<1> QED BY <1>6

----------------------------------------------------------------------------
(***************************************************************************)
(* The items and the next event.                                           *)
(***************************************************************************)

ItemRecord == [second : Nat \cup {-1}, tick : Nat, cputick : Nat]

\* What the types say of the items, at some rates.
ItemsAt(items, rates) ==
    /\ items \in [Items -> ItemRecord]
    /\ \A i \in Items : items[i].second >= 0 =>
          /\ items[i].tick < rates[Clock[i]]
          /\ items[i].cputick = muldiv(items[i].tick, rates["CPU"], rates[Clock[i]])

Calls == Requests \cup {Idle, Loop}

LEMMA RatesTyped ==
    ASSUME NEW rates \in Rates
    PROVE  /\ rates["CPU"] \in Nat \ {0}
           /\ \A i \in Items : rates[Clock[i]] \in Nat \ {0}
           /\ rates \in [Clocks -> Nat \ {0}]
BY SchedAssumption DEF Clocks

Typed ==
    /\ clock_rates \in Rates /\ ItemsAt(sched_items, clock_rates)
    /\ next_index \in Items \cup {None}
    /\ next_cputick \in 0 .. clock_rates["CPU"]
    /\ cycle_count_delta \in -clock_rates["CPU"]..clock_rates["CPU"] + MaxDelta
    /\ call \in Calls /\ block \in Nat

LEMMA TypesOfItems == TypeOK <=> Typed
BY DEF Typed, TypeOK, ItemsAt, ItemRecord, Enabled, Rate, Calls

LEMMA TypesOfItemsNext == TypeOK' <=> Typed'
BY TypesOfItems, PTL

LEMMA RepeatedItem ==
    ASSUME NEW rates \in Rates, NEW i \in Items, NEW item,
           item.tick \in Nat, item.tick < rates[Clock[i]], NEW ticks \in Nat
    PROVE  LET r == Repeated(item, i, ticks, rates)
           IN  /\ r \in ItemRecord /\ r.second >= 0
               /\ r.tick < rates[Clock[i]]
               /\ r.cputick = muldiv(r.tick, rates["CPU"], rates[Clock[i]])
<1>1. PICK rate \in Nat \ {0} : rate = rates[Clock[i]]
  BY RatesTyped
<1>2. PICK q \in Nat, m \in 0 .. rate - 1 : q = ticks \div rate /\ m = ticks % rate
  BY Quotient
<1>3. PICK t \in Nat : t = item.tick /\ t < rate
  BY <1>1
<1>4. PICK r : r = Repeated(item, i, ticks, rates)
  OBVIOUS
<1>5. r = [second  |-> q + (IF t >= rate - m THEN 1 ELSE 0),
           tick    |-> m + t - (IF t >= rate - m THEN rate ELSE 0),
           cputick |-> muldiv(m + t - (IF t >= rate - m THEN rate ELSE 0),
                              rates["CPU"], rate)]
  BY <1>1, <1>2, <1>3, <1>4 DEF Repeated
<1>6. r.second \in Nat /\ r.tick \in Nat /\ r.tick < rate
  BY <1>2, <1>3, <1>5
<1>7. r.cputick = muldiv(r.tick, rates["CPU"], rate)
  BY <1>5
<1>8. r.cputick \in Nat
  BY <1>6, <1>7, RatesTyped, ConvertedLess
<1>9. r \in ItemRecord
  BY <1>5, <1>6, <1>8 DEF ItemRecord
<1> QED BY <1>1, <1>4, <1>6, <1>7, <1>9

\* An event of this second is a candidate: its cycle is one of the second.
LEMMA DueThisSecond ==
    ASSUME NEW rates \in Rates, NEW items, ItemsAt(items, rates),
           NEW i \in Items, items[i].second >= 0
    PROVE  items[i].cputick \in 0 .. rates["CPU"] - 1
<1>1. /\ items[i].tick \in Nat /\ items[i].tick < rates[Clock[i]]
      /\ items[i].cputick = muldiv(items[i].tick, rates["CPU"], rates[Clock[i]])
  BY DEF ItemsAt, ItemRecord
<1> QED BY <1>1, RatesTyped, ConvertedLess

LEMMA Updated ==
    ASSUME clock_rates' \in Rates, ItemsAt(sched_items', clock_rates'),
           NEW t \in Nat, t <= clock_rates'["CPU"] + MaxDelta,
           sched_update_next_event(t), call' \in Calls, block' = 0
    PROVE  SInv' /\ Now' = t
<1>1. PICK cpu \in Nat \ {0} : cpu = clock_rates'["CPU"]
  BY RatesTyped
<1>2. PICK is \in SUBSET Items : is = Candidates(sched_items', clock_rates')
  BY DEF Candidates
<1>3. /\ next_index' = IF is = {} THEN None ELSE Earliest(sched_items', is)
      /\ next_cputick' = IF is = {} THEN cpu ELSE sched_items'[next_index'].cputick
      /\ cycle_count_delta' = t - next_cputick'
  BY <1>1, <1>2 DEF sched_update_next_event
<1>4. \A i \in is : sched_items'[i].cputick \in 0 .. cpu - 1
  BY <1>1, <1>2, DueThisSecond DEF Candidates
<1>5. MaxDelta \in Nat /\ None \notin Nat /\ Items \subseteq Nat
  BY SchedAssumption
<1>6. CASE is = {}
  <2>1. next_index' = None /\ next_cputick' = cpu /\ cycle_count_delta' = t - cpu
    BY <1>3, <1>6
  <2>2. Now' = t /\ cycle_count_delta' \in -cpu .. cpu + MaxDelta
    BY <2>1, <1>1, <1>5 DEF Now
  <2>3. NowBounded'
    BY <2>2, <1>1 DEF NowBounded
  <2>4. NextFirst'
    BY <2>1, <1>1, <1>2, <1>6 DEF NextFirst
  <2>5. TypeOK'
    BY <2>1, <2>2, <1>1, TypesOfItemsNext DEF Typed
  <2> QED BY <2>2, <2>3, <2>4, <2>5 DEF SInv
<1>7. CASE is # {}
  <2>1. PICK i \in is : i = Earliest(sched_items', is)
                        /\ \A j \in is : sched_items'[i].cputick <= sched_items'[j].cputick
    BY <1>4, <1>7, EarliestExists
  <2>2. PICK n \in 0 .. cpu - 1 : n = sched_items'[i].cputick
    BY <1>4
  <2>3. next_index' = i /\ next_cputick' = n /\ cycle_count_delta' = t - n
    BY <1>3, <1>7, <2>1, <2>2
  <2>4. Now' = t /\ cycle_count_delta' \in -cpu .. cpu + MaxDelta
    BY <2>2, <2>3, <1>1, <1>5 DEF Now
  <2>5. NowBounded'
    BY <2>4, <1>1 DEF NowBounded
  <2>6. NextFirst'
    BY <2>1, <2>2, <2>3, <1>2, <1>5 DEF NextFirst
  <2>7. TypeOK'
    BY <2>2, <2>3, <2>4, <1>1, TypesOfItemsNext DEF Typed
  <2> QED BY <2>4, <2>5, <2>6, <2>7 DEF SInv
<1> QED BY <1>6, <1>7

----------------------------------------------------------------------------
(***************************************************************************)
(* The steps of the scheduler.  Besides the invariant, each lemma says     *)
(* which items the step enables or disables.                               *)
(***************************************************************************)

LEMMA ClockTyped ==
    ASSUME SInv
    PROVE  /\ TypeOK /\ NowBounded /\ NextFirst
           /\ clock_rates \in Rates /\ clock_rates["CPU"] \in Nat \ {0}
           /\ ItemsAt(sched_items, clock_rates)
           /\ next_index \in Items \cup {None}
           /\ next_cputick \in 0 .. clock_rates["CPU"]
           /\ cycle_count_delta \in Int /\ call \in Calls /\ block \in Nat
           /\ Now = next_cputick + cycle_count_delta
           /\ Now \in Nat /\ block <= Now /\ Now <= clock_rates["CPU"] + MaxDelta
           /\ call # Idle => block = 0
           /\ MaxDelta \in Nat
<1>1. TypeOK /\ NowBounded /\ NextFirst /\ Typed
  BY TypesOfItems DEF SInv
<1>2. clock_rates \in Rates /\ clock_rates["CPU"] \in Nat \ {0} /\ MaxDelta \in Nat
  BY <1>1, RatesTyped, SchedAssumption DEF Typed
<1>3. next_cputick \in 0 .. clock_rates["CPU"] /\ cycle_count_delta \in Int /\ block \in Nat
  BY <1>1, <1>2 DEF Typed
<1>4. Now \in Nat /\ block <= Now /\ Now <= clock_rates["CPU"] + MaxDelta
  BY <1>1, <1>3 DEF NowBounded, Now
<1> QED BY <1>1, <1>2, <1>3, <1>4 DEF Typed, Now, NowBounded

\* Steps that leave the items alone.
LEMMA SameItems ==
    ASSUME SInv, UNCHANGED itemVars, call' \in Calls, block' \in Nat,
           cycle_count_delta' \in Int,
           block' <= next_cputick + cycle_count_delta',
           next_cputick + cycle_count_delta' <= clock_rates["CPU"] + MaxDelta,
           call' # Idle => block' = 0
    PROVE  SInv' /\ Enabled' = Enabled
<1>1. UNCHANGED <<clock_rates, sched_items, next_cputick, next_index>>
  BY DEF itemVars
<1>2. Typed'
  <2>1. PICK cpu \in Nat \ {0} : cpu = clock_rates["CPU"]
    BY ClockTyped
  <2>2. cycle_count_delta' \in -cpu .. cpu + MaxDelta
    BY <2>1, ClockTyped
  <2> QED BY <1>1, <2>1, <2>2, ClockTyped DEF Typed
<1>3. NowBounded'
  BY <1>1 DEF NowBounded, Now
<1>4. NextFirst'
  BY <1>1, ClockTyped DEF NextFirst
<1>5. Enabled' = Enabled
  BY <1>1 DEF Enabled
<1> QED BY <1>2, <1>3, <1>4, <1>5, TypesOfItemsNext DEF SInv

LEMMA CpuInv ==
    ASSUME SInv, Execute \/ Fault \/ MainLoop
    PROVE  SInv' /\ Enabled' = Enabled
<1>1. Skip \in Nat /\ BlockSizes \subseteq Nat /\ Loop \in Calls /\ Idle \in Calls
  BY SchedAssumption DEF Calls
<1>2. CASE Interpret
  BY <1>2, ClockTyped, SameItems DEF Interpret
<1>3. CASE FastForward
  BY <1>3, ClockTyped, SameItems DEF FastForward
<1>4. CASE KeypadRead
  BY <1>1, <1>4, ClockTyped, SameItems DEF KeypadRead
<1>5. ASSUME NEW n \in BlockSizes, EnterBlock(n)
      PROVE  SInv' /\ Enabled' = Enabled
  BY <1>1, <1>5, ClockTyped, SameItems DEF EnterBlock
<1>6. CASE Fault
  BY <1>6, ClockTyped, SameItems DEF Fault
<1>7. CASE MainLoop
  <2>1. UNCHANGED <<itemVars, cycle_count_delta>> /\ call' = Loop /\ block' = 0
    BY <1>7 DEF MainLoop
  <2> QED BY <1>1, <2>1, ClockTyped, SameItems
<1> QED BY <1>2, <1>3, <1>4, <1>5, <1>6, <1>7 DEF Execute

LEMMA RequestInv ==
    ASSUME SInv, NEW c \in Requests, Request(c)
    PROVE  SInv' /\ Enabled' = Enabled
<1>1. UNCHANGED <<itemVars, cycle_count_delta>> /\ call' = c /\ block' = 0
  BY DEF Request
<1>2. call' \in Calls
  BY <1>1 DEF Calls
<1> QED BY <1>1, <1>2, ClockTyped, SameItems

\* No event is disabled by a new second: those of the old one have happened.
LEMMA NewSecondInv ==
    ASSUME SInv, NewSecond
    PROVE  SInv' /\ Enabled' = Enabled
<1>1. /\ next_index = None /\ cycle_count_delta >= 0 /\ call # Idle
      /\ sched_items' = [i \in Items |-> [sched_items[i] EXCEPT
                             !.second = IF @ >= 0 THEN @ - 1 ELSE @]]
      /\ clock_rates' = clock_rates /\ call' = call /\ block' = block
      /\ sched_update_next_event(Now - clock_rates["CPU"])
  BY DEF NewSecond, Pending
<1>2. /\ Candidates(sched_items, clock_rates) = {}
      /\ next_cputick = clock_rates["CPU"]
  BY <1>1, ClockTyped DEF NextFirst
<1>3. /\ Now - clock_rates["CPU"] \in Nat
      /\ Now - clock_rates["CPU"] <= clock_rates["CPU"] + MaxDelta
  BY <1>1, <1>2, ClockTyped
<1>4. ASSUME NEW i \in Items
      PROVE  /\ sched_items'[i] \in ItemRecord
             /\ sched_items'[i].tick = sched_items[i].tick
             /\ sched_items'[i].cputick = sched_items[i].cputick
             /\ sched_items'[i].second >= 0 <=> sched_items[i].second >= 0
  <2>1. sched_items[i] \in ItemRecord
    BY ClockTyped DEF ItemsAt
  <2>2. sched_items[i].second # 0
    <3> SUFFICES ASSUME sched_items[i].second = 0 PROVE FALSE
      OBVIOUS
    <3>1. sched_items[i].cputick < clock_rates["CPU"]
      BY ClockTyped, DueThisSecond
    <3> QED BY <3>1, <1>2 DEF Candidates
  <2>3. sched_items'[i] = [sched_items[i] EXCEPT !.second = IF @ >= 0 THEN @ - 1 ELSE @]
    BY <1>1
  <2> QED BY <2>1, <2>2, <2>3 DEF ItemRecord
<1>5. ItemsAt(sched_items', clock_rates')
  BY <1>1, <1>4, ClockTyped DEF ItemsAt
<1>6. SInv'
  BY <1>1, <1>3, <1>5, ClockTyped, Updated
<1>7. Enabled' = Enabled
  BY <1>4 DEF Enabled
<1> QED BY <1>6, <1>7

LEMMA FireInv ==
    ASSUME SInv, NEW i \in Items, NEW ticks \in Nat \cup {None}, Fire(i, ticks)
    PROVE  /\ SInv' /\ i \in Enabled
           /\ Enabled' = IF ticks = None THEN Enabled \ {i} ELSE Enabled
           /\ call' = call
<1>1. PICK off : off = [sched_items[i] EXCEPT !.second = -1]
  OBVIOUS
<1>2. /\ next_index = i /\ call # Idle
      /\ sched_items' = [sched_items EXCEPT ![i] =
                             IF ticks = None THEN off ELSE Repeated(off, i, ticks, clock_rates)]
      /\ clock_rates' = clock_rates /\ call' = call /\ block' = block
      /\ sched_update_next_event(Now)
  BY <1>1 DEF Fire, Pending
<1>3. i \in Items /\ sched_items[i].second = 0
  <2>1. i # None
    BY SchedAssumption
  <2> QED BY <2>1, <1>2, ClockTyped DEF NextFirst, Candidates
<1>4. /\ sched_items[i] \in ItemRecord /\ sched_items[i].tick < clock_rates[Clock[i]]
  BY <1>3, ClockTyped DEF ItemsAt
<1>5. off \in ItemRecord /\ off.second = -1 /\ off.tick = sched_items[i].tick
  BY <1>1, <1>4 DEF ItemRecord
<1>6. PICK r : r = IF ticks = None THEN off ELSE Repeated(off, i, ticks, clock_rates)
  OBVIOUS
<1>7. /\ r \in ItemRecord
      /\ r.second >= 0 => /\ r.tick < clock_rates[Clock[i]]
                         /\ r.cputick = muldiv(r.tick, clock_rates["CPU"], clock_rates[Clock[i]])
      /\ r.second >= 0 <=> ticks # None
  <2>1. CASE ticks = None
    BY <2>1, <1>5, <1>6
  <2>2. CASE ticks # None
    <3>1. off.tick \in Nat /\ off.tick < clock_rates[Clock[i]] /\ ticks \in Nat
      BY <2>2, <1>4, <1>5 DEF ItemRecord
    <3> QED BY <2>2, <3>1, <1>3, <1>6, ClockTyped, RepeatedItem
  <2> QED BY <2>1, <2>2
<1>8. /\ sched_items' = [sched_items EXCEPT ![i] = r]
  BY <1>2, <1>6
<1>9. ItemsAt(sched_items', clock_rates')
  BY <1>2, <1>3, <1>7, <1>8, ClockTyped DEF ItemsAt
<1>10. SInv'
  BY <1>2, <1>9, ClockTyped, Updated
<1>11. Enabled' = IF ticks = None THEN Enabled \ {i} ELSE Enabled
  <2>1. \A j \in Items : sched_items'[j] = IF j = i THEN r ELSE sched_items[j]
    BY <1>3, <1>8, ClockTyped DEF ItemsAt
  <2> QED BY <2>1, <1>3, <1>7 DEF Enabled
<1> QED BY <1>2, <1>3, <1>10, <1>11 DEF Enabled

LEMMA RequestTyped ==
    ASSUME NEW c \in Requests
    PROVE  /\ c.op = "set" => c.item \in Items /\ c.ticks \in Nat
           /\ c.op = "clear" => c.item \in Items
           /\ c.op = "clocks" => c.rates \in Rates
<1>1. CASE c \in [op : {"clear", "remaining"}, item : Items] \cup [op : {"clocks"}, rates : Rates]
  BY <1>1
<1>2. ASSUME NEW i \in Items, c \in [op : {"set"}, item : {i}, ticks : SetTicks[i]]
      PROVE  c.op = "set" /\ c.item \in Items /\ c.ticks \in Nat
  <2>1. SetTicks[i] \subseteq Nat
    BY SchedAssumption
  <2> QED BY <1>2, <2>1
<1> QED BY <1>1, <1>2 DEF Requests

LEMMA CallTyped ==
    ASSUME call \in Calls
    PROVE  /\ call.op = "set" => call.item \in Items /\ call.ticks \in Nat
           /\ call.op = "clear" => call.item \in Items
           /\ call.op = "clocks" => call.rates \in Rates
<1>1. CASE call \in Requests
  BY <1>1, RequestTyped
<1>2. CASE call = Idle \/ call = Loop
  BY <1>2 DEF Idle, Loop
<1> QED BY <1>1, <1>2 DEF Calls

\* One item is set anew, to what event_repeat() makes of a tick of this second.
LEMMA SetInv ==
    ASSUME SInv, NEW i \in Items, NEW from \in Nat, from < clock_rates[Clock[i]],
           NEW ticks \in Nat, clock_rates' = clock_rates,
           sched_items' = [sched_items EXCEPT ![i] =
               Repeated([@ EXCEPT !.tick = from], i, ticks, clock_rates)],
           sched_update_next_event(Now), call' \in Calls, block' = 0
    PROVE  SInv' /\ Enabled' = Enabled \cup {i}
<1>1. sched_items \in [Items -> ItemRecord]
  BY ClockTyped DEF ItemsAt
<1>2. PICK item \in ItemRecord : item = [sched_items[i] EXCEPT !.tick = from]
  BY <1>1 DEF ItemRecord
<1>3. item.tick = from
  BY <1>1, <1>2 DEF ItemRecord
<1>4. PICK r : r = Repeated(item, i, ticks, clock_rates)
  OBVIOUS
<1>5. /\ r \in ItemRecord /\ r.second >= 0 /\ r.tick < clock_rates[Clock[i]]
      /\ r.cputick = muldiv(r.tick, clock_rates["CPU"], clock_rates[Clock[i]])
  BY <1>3, <1>4, ClockTyped, RepeatedItem
<1>6. \A j \in Items : sched_items'[j] = IF j = i THEN r ELSE sched_items[j]
  BY <1>1, <1>2, <1>4
<1>7. sched_items' \in [Items -> ItemRecord]
  BY <1>1, <1>2, <1>4, <1>5
<1>8. ItemsAt(sched_items', clock_rates')
  BY <1>5, <1>6, <1>7, ClockTyped DEF ItemsAt
<1>9. Enabled' = Enabled \cup {i}
  BY <1>5, <1>6 DEF Enabled
<1> QED BY <1>8, <1>9, ClockTyped, Updated

\* The clocks change: each enabled item keeps the ticks it had remaining.
LEMMA SetClocksInv ==
    ASSUME SInv, Processed, NEW rates \in Rates, SetClocks(rates),
           call' \in Calls, block' = 0
    PROVE  SInv' /\ Enabled' = Enabled
<1>1. /\ clock_rates["CPU"] \in Nat \ {0} /\ rates["CPU"] \in Nat \ {0}
      /\ Now \in Nat /\ Now < clock_rates["CPU"]
  BY ClockTyped, RatesTyped DEF Processed
<1>2. PICK cputick \in 0 .. rates["CPU"] - 1 :
         cputick = muldiv(Now, rates["CPU"], clock_rates["CPU"])
  BY <1>1, ConvertedLess
<1>3. /\ clock_rates' = rates
      /\ sched_items' = [i \in Items |->
            IF i \in Enabled
            THEN Repeated([sched_items[i] EXCEPT
                              !.tick = muldiv(cputick, rates[Clock[i]], rates["CPU"])], i,
                          event_ticks_remaining(i, Now), rates)
            ELSE sched_items[i]]
      /\ sched_update_next_event(cputick)
  BY <1>2 DEF SetClocks
<1>4. ASSUME NEW i \in Items, i \in Enabled
      PROVE  /\ sched_items'[i] \in ItemRecord /\ sched_items'[i].second >= 0
             /\ sched_items'[i].tick < rates[Clock[i]]
             /\ sched_items'[i].cputick
                  = muldiv(sched_items'[i].tick, rates["CPU"], rates[Clock[i]])
  <2>1. sched_items[i] \in ItemRecord
    BY ClockTyped DEF ItemsAt
  <2>2. PICK from \in Nat : /\ from = muldiv(cputick, rates[Clock[i]], rates["CPU"])
                           /\ from < rates[Clock[i]]
    <3>1. rates[Clock[i]] \in Nat \ {0}
      BY RatesTyped
    <3>2. muldiv(cputick, rates[Clock[i]], rates["CPU"]) \in 0 .. rates[Clock[i]] - 1
      <4>1. cputick \in Nat /\ cputick < rates["CPU"]
        BY <1>1
      <4> QED BY <1>1, <3>1, <4>1, ConvertedLess
    <3> QED BY <3>1, <3>2
  <2>3. PICK item : item = [sched_items[i] EXCEPT !.tick = from]
    OBVIOUS
  <2>4. item.tick = from
    BY <2>1, <2>3 DEF ItemRecord
  <2>5. event_ticks_remaining(i, Now) \in Nat
    <3>1. PICK t \in Nat : t = muldiv(Now, Rate(i), clock_rates["CPU"])
      <4>1. Rate(i) \in Nat \ {0}
        BY ClockTyped, RatesTyped DEF Rate
      <4> QED BY <4>1, <1>1, ConvertedLess
    <3>2. PICK r \in Nat : r = Rate(i)
      BY ClockTyped, RatesTyped DEF Rate
    <3>3. PICK s \in Int, k \in Nat : s = sched_items[i].second /\ k = sched_items[i].tick
      BY <2>1 DEF ItemRecord
    <3>4. s * r \in Int
      BY <3>2, <3>3
    <3>5. Ticks(i, Now) \in Int
      BY <3>1, <3>2, <3>3, <3>4 DEF Ticks
    <3>6. Word \in Nat \ {0}
      BY SchedAssumption
    <3> QED BY <3>5, <3>6 DEF event_ticks_remaining
  <2>6. sched_items'[i] = Repeated(item, i, event_ticks_remaining(i, Now), rates)
    BY <1>3, <1>4, <2>2, <2>3
  <2> QED BY <2>2, <2>4, <2>5, <2>6, RepeatedItem
<1>5. ASSUME NEW i \in Items, i \notin Enabled
      PROVE  /\ sched_items'[i] \in ItemRecord /\ ~(sched_items'[i].second >= 0)
  BY <1>3, <1>5, ClockTyped DEF ItemsAt, Enabled
<1>6. ItemsAt(sched_items', clock_rates')
  <2>1. sched_items' \in [Items -> ItemRecord]
    BY <1>3, <1>4, <1>5
  <2> QED BY <2>1, <1>3, <1>4, <1>5 DEF ItemsAt
<1>7. Enabled' = Enabled
  <2>1. Enabled \subseteq Items
    BY DEF Enabled
  <2> QED BY <2>1, <1>4, <1>5 DEF Enabled
<1>8. cputick \in Nat /\ cputick <= rates["CPU"] + MaxDelta
  BY <1>1, <1>2, ClockTyped
<1> QED BY <1>3, <1>6, <1>7, <1>8, Updated

LEMMA FinishInv ==
    ASSUME SInv, Finish
    PROVE  /\ SInv' /\ call' = Idle
           /\ Enabled' = CASE call.op = "set"   -> Enabled \cup {call.item}
                            [] call.op = "clear" -> Enabled \ {call.item}
                            [] OTHER             -> Enabled
<1>1. Processed /\ call' = Idle /\ block' = block /\ Idle \in Calls
  BY DEF Finish, Calls
<1>2. /\ call # Idle /\ block' = 0 /\ call \in Calls
      /\ Now \in Nat /\ Now < clock_rates["CPU"] /\ clock_rates["CPU"] \in Nat \ {0}
  BY <1>1, ClockTyped DEF Processed
<1>3. CASE call.op \in {"loop", "remaining"}
  <2>1. UNCHANGED <<itemVars, cycle_count_delta>>
    BY <1>3 DEF Finish
  <2>2. SInv' /\ Enabled' = Enabled
    BY <1>1, <1>2, <2>1, ClockTyped, SameItems
  <2> QED BY <1>1, <1>3, <2>2
<1>4. CASE call.op = "set"
  <2>1. PICK i \in Items, ticks \in Nat : i = call.item /\ ticks = call.ticks
    BY <1>2, <1>4, CallTyped
  <2>2. PICK from \in Nat : /\ from = muldiv(Now, Rate(i), clock_rates["CPU"])
                           /\ from < clock_rates[Clock[i]]
    <3>1. Rate(i) \in Nat \ {0}
      BY ClockTyped, RatesTyped DEF Rate
    <3>2. muldiv(Now, Rate(i), clock_rates["CPU"]) \in 0 .. Rate(i) - 1
      BY <3>1, <1>2, ConvertedLess
    <3> QED BY <3>1, <3>2 DEF Rate
  <2>3. /\ sched_items' = [sched_items EXCEPT ![i] =
               Repeated([@ EXCEPT !.tick = from], i, ticks, clock_rates)]
        /\ clock_rates' = clock_rates /\ sched_update_next_event(Now)
    BY <1>4, <2>1, <2>2 DEF Finish
  <2> QED BY <1>1, <1>2, <1>4, <2>1, <2>2, <2>3, SetInv
<1>5. CASE call.op = "clear"
  <2>1. PICK i \in Items : i = call.item
    BY <1>2, <1>5, CallTyped
  <2>2. /\ sched_items' = [sched_items EXCEPT ![i].second = -1]
        /\ clock_rates' = clock_rates /\ sched_update_next_event(Now)
    BY <1>5, <2>1 DEF Finish
  <2>3. ItemsAt(sched_items', clock_rates')
    BY <2>2, ClockTyped DEF ItemsAt, ItemRecord
  <2>4. Enabled' = Enabled \ {i}
    <3>1. \A j \in Items : sched_items'[j].second = IF j = i THEN -1 ELSE sched_items[j].second
      BY <2>2, ClockTyped DEF ItemsAt, ItemRecord
    <3> QED BY <3>1 DEF Enabled
  <2>5. SInv'
    BY <1>1, <1>2, <2>2, <2>3, ClockTyped, Updated
  <2> QED BY <1>1, <1>5, <2>1, <2>4, <2>5
<1>6. CASE call.op = "clocks"
  <2>1. call.rates \in Rates /\ SetClocks(call.rates)
    BY <1>2, <1>6, CallTyped DEF Finish
  <2> QED BY <1>1, <1>2, <1>6, <2>1, SetClocksInv
<1> QED BY <1>3, <1>4, <1>5, <1>6 DEF Finish

LEMMA ItemsAtReset ==
    LET items == [i \in Items |->
                     [second |-> IF i \in AtReset THEN 0 ELSE -1, tick |-> 0, cputick |-> 0]]
    IN  ItemsAt(items, ResetRates) /\ Candidates(items, ResetRates) = AtReset
<1>1. PICK items : items = [i \in Items |->
         [second |-> IF i \in AtReset THEN 0 ELSE -1, tick |-> 0, cputick |-> 0]]
  OBVIOUS
<1>2. items \in [Items -> ItemRecord]
  BY <1>1 DEF ItemRecord
<1>3. ResetRates \in Rates /\ ResetRates["CPU"] \in Nat \ {0} /\ AtReset \subseteq Items
  BY SchedAssumption, RatesTyped
<1>4. ASSUME NEW i \in Items
      PROVE  /\ 0 < ResetRates[Clock[i]]
             /\ muldiv(0, ResetRates["CPU"], ResetRates[Clock[i]]) = 0
  <2>1. PICK r \in Nat \ {0} : r = ResetRates[Clock[i]]
    BY <1>3, RatesTyped
  <2>2. 0 * ResetRates["CPU"] = 0
    BY <1>3
  <2>3. PICK q \in Nat : q = 0 \div r /\ r * q <= 0
    BY Quotient
  <2>4. q = 0
    BY <2>3
  <2> QED BY <2>1, <2>2, <2>3, <2>4 DEF muldiv
<1>5. ItemsAt(items, ResetRates)
  BY <1>1, <1>2, <1>4 DEF ItemsAt
<1>6. Candidates(items, ResetRates) = AtReset
  BY <1>1, <1>3 DEF Candidates
<1> QED BY <1>1, <1>5, <1>6

LEMMA InitSInv == Init => SInv /\ Enabled = AtReset
<1> SUFFICES ASSUME Init PROVE SInv /\ Enabled = AtReset
  OBVIOUS
<1>1. /\ clock_rates = ResetRates /\ clock_rates \in Rates
      /\ ItemsAt(sched_items, clock_rates)
      /\ Candidates(sched_items, clock_rates) = AtReset
      /\ \A i \in Items : sched_items[i].cputick = 0
      /\ cycle_count_delta = -next_cputick /\ call = Loop /\ block = 0
  BY ItemsAtReset, SchedAssumption DEF Init
<1>2. /\ clock_rates["CPU"] \in Nat \ {0} /\ MaxDelta \in Nat
      /\ AtReset \subseteq Items /\ Items \subseteq Nat /\ None \notin Nat
  BY <1>1, RatesTyped, SchedAssumption
<1>3. \/ AtReset = {} /\ next_index = None /\ next_cputick = clock_rates["CPU"]
      \/ AtReset # {} /\ next_index \in AtReset /\ next_cputick = 0
  <2>1. CASE AtReset = {}
    BY <1>1, <2>1 DEF Init
  <2>2. CASE AtReset # {}
    <3>1. Earliest(sched_items, AtReset) \in AtReset
      BY <1>1, <1>2, <2>2, EarliestExists
    <3> QED BY <3>1, <2>2 DEF Init
  <2> QED BY <2>1, <2>2
<1>4. Now = 0
  BY <1>1, <1>2, <1>3 DEF Now
<1>5. NowBounded
  BY <1>1, <1>2, <1>4 DEF NowBounded
<1>6. NextFirst
  <2>1. CASE AtReset = {}
    BY <1>1, <1>3, <2>1 DEF NextFirst
  <2>2. CASE AtReset # {}
    <3>1. next_index \in AtReset /\ next_index # None /\ next_cputick = 0
      BY <1>2, <1>3, <2>2
    <3>2. \A j \in AtReset : sched_items[j].cputick = 0
      BY <1>1, <1>2
    <3> QED BY <1>1, <3>1, <3>2 DEF NextFirst
  <2> QED BY <2>1, <2>2
<1>7. Typed
  <2>1. next_index \in Items \cup {None} /\ next_cputick \in 0 .. clock_rates["CPU"]
    <3>1. CASE AtReset = {}
      BY <1>2, <1>3, <3>1
    <3>2. CASE AtReset # {}
      <4>1. next_index \in AtReset /\ next_cputick = 0
        BY <1>3, <3>2
      <4> QED BY <1>2, <4>1
    <3> QED BY <3>1, <3>2
  <2>2. cycle_count_delta \in -clock_rates["CPU"]..clock_rates["CPU"] + MaxDelta
    BY <1>1, <1>2, <2>1
  <2> QED BY <1>1, <2>1, <2>2 DEF Typed, Calls
<1>8. Enabled = AtReset
  <2>1. \A i \in Items : sched_items[i].second = IF i \in AtReset THEN 0 ELSE -1
    BY DEF Init
  <2>2. \A i \in Items : sched_items[i].second >= 0 <=> i \in AtReset
    BY <2>1
  <2> QED BY <1>2, <2>2, Zenon DEF Enabled
<1> QED BY <1>5, <1>6, <1>7, <1>8, TypesOfItems DEF SInv

LEMMA SchedResetInv ==
    ASSUME SchedReset
    PROVE  SInv' /\ Enabled' = AtReset /\ call' = Loop
<1>1. /\ clock_rates' = ResetRates /\ clock_rates' \in Rates
      /\ ItemsAt(sched_items', clock_rates')
      /\ sched_update_next_event(0) /\ call' = Loop /\ block' = 0
  BY ItemsAtReset, SchedAssumption DEF SchedReset
<1>2. 0 \in Nat /\ 0 <= clock_rates'["CPU"] + MaxDelta /\ Loop \in Calls
  BY <1>1, RatesTyped, SchedAssumption DEF Calls
<1>3. Enabled' = AtReset
  <2>1. \A i \in Items : sched_items'[i].second = IF i \in AtReset THEN 0 ELSE -1
    BY DEF SchedReset
  <2>2. \A i \in Items : sched_items'[i].second >= 0 <=> i \in AtReset
    BY <2>1
  <2> QED BY <2>2, SchedAssumption, Zenon DEF Enabled
<1> QED BY <1>1, <1>2, <1>3, Updated

----------------------------------------------------------------------------
(***************************************************************************)
(* The scheduler, whatever the devices ask of it.                          *)
(***************************************************************************)

\* What runs past the next event is found before anything else happens.
LEMMA NoneMissedInv == SInv => NoneMissed
<1> SUFFICES ASSUME SInv, Processed, NEW i \in Enabled PROVE Ticks(i, Now) >= 1
  BY DEF NoneMissed
<1>1. /\ i \in Items /\ sched_items[i].second >= 0
      /\ Now \in Nat /\ next_cputick \in Nat /\ Now < next_cputick
      /\ clock_rates["CPU"] \in Nat /\ next_cputick <= clock_rates["CPU"]
  BY ClockTyped DEF Enabled, Processed
<1>2. PICK r \in Nat \ {0}, cpu \in Nat \ {0} : r = Rate(i) /\ cpu = clock_rates["CPU"]
  BY <1>1, ClockTyped, RatesTyped DEF Rate
<1>3. PICK s \in Nat, k \in Nat, c \in Nat :
         /\ s = sched_items[i].second /\ k = sched_items[i].tick
         /\ c = sched_items[i].cputick /\ c = muldiv(k, cpu, r)
  BY <1>1, <1>2, ClockTyped DEF ItemsAt, ItemRecord, Rate
<1>4. PICK t \in Nat : t = muldiv(Now, r, cpu) /\ t < r
  <2>1. Now < cpu
    BY <1>1, <1>2
  <2>2. muldiv(Now, r, cpu) \in 0 .. r - 1
    BY <1>1, <1>2, <2>1, ConvertedLess
  <2> QED BY <2>2
<1>5. Ticks(i, Now) = s * r + k - t
  BY <1>2, <1>3, <1>4 DEF Ticks
<1>6. CASE s = 0
  <2>1. i \in Candidates(sched_items, clock_rates)
    <3>1. sched_items[i].cputick \in 0 .. clock_rates["CPU"] - 1
      BY <1>1, ClockTyped, DueThisSecond
    <3>2. sched_items[i].second = 0
      BY <1>3, <1>6
    <3> QED BY <1>1, <3>1, <3>2 DEF Candidates
  <2>2. next_cputick <= c
    BY <2>1, <1>3, ClockTyped DEF NextFirst
  <2>3. Now < c
    BY <1>1, <1>3, <2>2, ClockTyped
  <2>4. t < k
    BY <1>1, <1>2, <1>3, <1>4, <2>3, ConvertedBefore
  <2>5. s * r = 0
    BY <1>2, <1>6
  <2> QED BY <1>3, <1>4, <1>5, <2>4, <2>5
<1>7. CASE s # 0
  <2>1. 1 * r <= s * r /\ s * r \in Nat
    BY <1>2, <1>3, <1>7, Product, ProductLeq
  <2> QED BY <1>2, <1>3, <1>4, <1>5, <2>1
<1> QED BY <1>6, <1>7

LEMMA SchedStepInv == SInv /\ [Next]_schedVars => SInv'
<1> SUFFICES ASSUME SInv, [Next]_schedVars PROVE SInv'
  OBVIOUS
<1>1. ASSUME NEW i \in Items, NEW ticks \in Repeats[i] \cup {None}, Fire(i, ticks)
      PROVE  SInv'
  <2>1. ticks \in Nat \cup {None}
    <3>1. Repeats[i] \subseteq Nat
      BY SchedAssumption
    <3> QED BY <3>1
  <2> QED BY <1>1, <2>1, FireInv
<1>2. CASE UNCHANGED schedVars
  <2>1. UNCHANGED itemVars /\ UNCHANGED <<cycle_count_delta, call, block>>
    BY <1>2 DEF schedVars, itemVars
  <2> QED BY <2>1, ClockTyped, SameItems
<1> QED BY <1>1, <1>2, CpuInv, RequestInv, NewSecondInv, FinishInv DEF Next, Turn

LEMMA SchedAlways == Spec => []SInv
<1>1. Init => SInv
  BY InitSInv
<1> QED BY <1>1, SchedStepInv, PTL DEF Spec

----------------------------------------------------------------------------
(***************************************************************************)
(* The steps of the watchdog.                                              *)
(***************************************************************************)

DogTypes == /\ load \in Loads /\ control \in Bits
            /\ interrupt \in BOOLEAN /\ locked \in BOOLEAN
            /\ line \in BOOLEAN /\ reset \in BOOLEAN
            /\ after \in {None, "status", "lower"}

LEMMA Typing == IInv <=> SInv /\ DogTypes /\ DogInv
BY DEF IInv, WTypeOK, DogTypes, SInv

LEMMA TypingNext == IInv' <=> SInv' /\ DogTypes' /\ DogInv'
BY Typing, PTL

LEMMA DogConstants ==
    /\ WATCHDOG \in Items /\ WATCHDOG \notin AtReset
    /\ Loads \subseteq Nat /\ SetTicks[WATCHDOG] = Loads \ {0}
    /\ None # "status" /\ None # "lower"
BY SchedAssumption, WatchdogAssumption

\* While the CPU executes instructions no handler of the watchdog waits for the
\* scheduler.
LEMMA IdleIsQuiet == call = Idle \/ call = Loop => ~Starting /\ ~Stopping
BY DEF Idle, Loop, Starting, Stopping

LEMMA IdleIsQuietNext == call' = Idle \/ call' = Loop => ~Starting' /\ ~Stopping'
BY DEF Idle, Loop, Starting, Stopping

LEMMA SchedSame ==
    ASSUME SInv, UNCHANGED schedVars
    PROVE  SInv' /\ Enabled' = Enabled /\ (Starting' <=> Starting) /\ (Stopping' <=> Stopping)
<1>1. UNCHANGED itemVars /\ UNCHANGED <<cycle_count_delta, call, block>>
  BY DEF schedVars, itemVars
<1>2. SInv' /\ Enabled' = Enabled
  BY <1>1, ClockTyped, SameItems
<1> QED BY <1>1, <1>2 DEF Starting, Stopping

\* A step that neither concerns the watchdog nor its event.
LEMMA QuietStep ==
    ASSUME IInv, SInv', UNCHANGED dogVars, Dog' <=> Dog,
           Starting' <=> Starting, Stopping' <=> Stopping
    PROVE  IInv'
<1>1. UNCHANGED <<load, interrupt, locked, control, line, after, reset>>
  BY DEF dogVars
<1>2. DogTypes'
  BY <1>1, Typing DEF DogTypes
<1>3. DogInv'
  BY <1>1, Typing DEF DogInv
<1> QED BY <1>2, <1>3, TypingNext

LEMMA ElsewhereInv == ASSUME IInv, Elsewhere PROVE IInv'
<1>1. SInv /\ UNCHANGED dogVars
  BY Typing DEF Elsewhere
<1>2. CASE Execute \/ Fault \/ MainLoop
  <2>1. SInv' /\ Enabled' = Enabled
    BY <1>1, <1>2, CpuInv
  <2>2. call = Idle /\ (call' = Idle \/ call' = Loop)
    BY <1>2 DEF Execute, Interpret, FastForward, KeypadRead, EnterBlock, Fault, MainLoop
  <2> QED BY <1>1, <2>1, <2>2, IdleIsQuiet, IdleIsQuietNext, QuietStep DEF Dog
<1>3. CASE NewSecond
  <2>1. SInv' /\ Enabled' = Enabled /\ call' = call
    BY <1>1, <1>3, NewSecondInv DEF NewSecond
  <2> QED BY <1>1, <2>1, QuietStep DEF Dog, Starting, Stopping
<1>4. ASSUME NEW c \in OtherRequests, Request(c) PROVE IInv'
  <2>1. SInv' /\ Enabled' = Enabled
    BY <1>1, <1>4, RequestInv DEF OtherRequests
  <2>2. call = Idle /\ call' = c
    BY <1>4 DEF Request
  <2>3. ~Starting' /\ ~Stopping'
    BY <1>4, <2>2 DEF OtherRequests, Starting, Stopping
  <2> QED BY <1>1, <2>1, <2>2, <2>3, IdleIsQuiet, QuietStep DEF Dog
<1>5. ASSUME NEW i \in Items \ {WATCHDOG}, NEW ticks \in Repeats[i] \cup {None}, Fire(i, ticks)
      PROVE  IInv'
  <2>1. ticks \in Nat \cup {None}
    <3>1. Repeats[i] \subseteq Nat
      BY SchedAssumption
    <3> QED BY <3>1
  <2>2. /\ SInv' /\ call' = call
        /\ Enabled' = IF ticks = None THEN Enabled \ {i} ELSE Enabled
    BY <1>1, <1>5, <2>1, FireInv
  <2>3. Dog' <=> Dog
    BY <2>2 DEF Dog
  <2> QED BY <1>1, <2>2, <2>3, QuietStep DEF Starting, Stopping
<1> QED BY <1>2, <1>3, <1>4, <1>5 DEF Elsewhere

LEMMA TimeoutInv == ASSUME IInv, Timeout PROVE IInv'
<1>1. /\ SInv /\ DogTypes /\ DogInv
      /\ UNCHANGED <<load, locked, control, after>>
  BY Typing DEF Timeout
<1>2. /\ load \in Nat /\ None \notin Nat /\ None # "status" /\ WATCHDOG \in Items
  BY <1>1, SchedAssumption, DogConstants DEF DogTypes
<1>3. CASE Fire(WATCHDOG, None) /\ reset' = TRUE /\ UNCHANGED <<interrupt, line>>
  <2>1. /\ SInv' /\ call' = call /\ Enabled' = Enabled \ {WATCHDOG}
    BY <1>1, <1>2, <1>3, FireInv
  <2>2. ~Dog' /\ (Starting' <=> Starting) /\ (Stopping' <=> Stopping)
    BY <2>1 DEF Dog, Starting, Stopping
  <2>3. DogTypes'
    BY <1>1, <1>3 DEF DogTypes
  <2>4. DogInv'
    BY <1>1, <1>3, <2>2 DEF DogInv
  <2> QED BY <2>1, <2>3, <2>4, TypingNext
<1>4. CASE Fire(WATCHDOG, load) /\ interrupt' = TRUE /\ line' = TRUE /\ UNCHANGED reset
  <2>1. /\ SInv' /\ call' = call /\ Enabled' = Enabled /\ WATCHDOG \in Enabled
    BY <1>1, <1>2, <1>4, FireInv
  <2>2. Dog /\ Dog' /\ (Starting' <=> Starting) /\ (Stopping' <=> Stopping)
    BY <2>1 DEF Dog, Starting, Stopping
  <2>3. DogTypes'
    BY <1>1, <1>4 DEF DogTypes
  <2>4. DogInv'
    BY <1>1, <1>2, <1>4, <2>2 DEF DogInv
  <2> QED BY <2>1, <2>3, <2>4, TypingNext
<1> QED BY <1>3, <1>4 DEF Timeout

LEMMA ReturnInv == ASSUME IInv, Return PROVE IInv'
<1>1. /\ SInv /\ DogTypes /\ DogInv
      /\ Finish /\ UNCHANGED <<load, interrupt, locked, control, reset>>
      /\ after' = None
      /\ line' = CASE after = "status" -> control.run /\ interrupt
                   [] after = "lower"  -> FALSE
                   [] OTHER            -> line
  BY Typing DEF Return
<1>2. /\ SInv' /\ ~Starting' /\ ~Stopping'
      /\ Enabled' = CASE call.op = "set"   -> Enabled \cup {call.item}
                      [] call.op = "clear" -> Enabled \ {call.item}
                      [] OTHER             -> Enabled
  BY <1>1, FinishInv, IdleIsQuietNext
<1>3. (Starting => Dog') /\ (Stopping => ~Dog')
  BY <1>2 DEF Dog, Starting, Stopping
<1>4. ~Starting /\ ~Stopping => (Dog' <=> Dog)
  <2> SUFFICES ASSUME ~Starting, ~Stopping PROVE Dog' <=> Dog
    OBVIOUS
  <2>1. CASE call.op = "set"
    BY <1>2, <2>1 DEF Dog, Starting
  <2>2. CASE call.op = "clear"
    BY <1>2, <2>2 DEF Dog, Stopping
  <2>3. CASE call.op \notin {"set", "clear"}
    BY <1>2, <2>3 DEF Dog
  <2> QED BY <2>1, <2>2, <2>3
<1>5. line' \in BOOLEAN /\ (line' => control.run /\ interrupt)
  BY <1>1, DogConstants DEF DogTypes, DogInv, Bits
<1>6. DogTypes'
  BY <1>1, <1>5 DEF DogTypes
<1>7. DogInv'
  BY <1>1, <1>2, <1>3, <1>4, <1>5 DEF DogInv
<1> QED BY <1>2, <1>6, <1>7, TypingNext

\* The watchdog's event is set: its handler calls the scheduler.
LEMMA ReloadInv ==
    ASSUME SInv, NEW l \in Loads \ {0}, Reload(l)
    PROVE  SInv' /\ (Dog' <=> Dog) /\ Starting' /\ ~Stopping'
<1>1. PICK c : c = [op |-> "set", item |-> WATCHDOG, ticks |-> l]
  OBVIOUS
<1>2. c \in [op : {"set"}, item : {WATCHDOG}, ticks : SetTicks[WATCHDOG]]
  BY <1>1, DogConstants
<1>3. c \in Requests
  BY <1>2, DogConstants DEF Requests
<1>4. Request(c) /\ call' = c
  BY <1>1 DEF Reload, Request
<1> QED BY <1>1, <1>3, <1>4, RequestInv DEF Dog, Starting, Stopping

LEMMA WriteLoadInv == ASSUME IInv, NEW l \in Loads, WriteLoad(l) PROVE IInv'
<1>1. /\ SInv /\ DogTypes /\ DogInv /\ ~Starting /\ ~Stopping /\ call = Idle
      /\ control.run => l # 0
      /\ load' = l /\ UNCHANGED <<interrupt, locked, control, line, after, reset>>
  BY Typing, IdleIsQuiet DEF WriteLoad
<1>2. DogTypes'
  BY <1>1 DEF DogTypes
<1>3. CASE control.run /\ Reload(l)
  <2>1. SInv' /\ (Dog' <=> Dog) /\ Starting' /\ ~Stopping'
    BY <1>1, <1>3, ReloadInv
  <2>2. DogInv'
    BY <1>1, <1>3, <2>1 DEF DogInv
  <2> QED BY <1>2, <2>1, <2>2, TypingNext
<1>4. CASE ~control.run /\ UNCHANGED schedVars
  <2>1. SInv' /\ (Dog' <=> Dog) /\ ~Starting' /\ ~Stopping'
    BY <1>1, <1>4, SchedSame DEF Dog
  <2>2. DogInv'
    BY <1>1, <1>4, <2>1 DEF DogInv
  <2> QED BY <1>2, <2>1, <2>2, TypingNext
<1> QED BY <1>3, <1>4 DEF WriteLoad

LEMMA WriteControlInv == ASSUME IInv, NEW bits \in Bits, WriteControl(bits) PROVE IInv'
<1>1. /\ SInv /\ DogTypes /\ DogInv /\ ~Starting /\ ~Stopping /\ call = Idle
      /\ bits.run /\ ~control.run => load # 0
      /\ control' = bits /\ UNCHANGED <<load, interrupt, locked, reset>>
      /\ bits.run \in BOOLEAN
  BY Typing, IdleIsQuiet DEF WriteControl, Bits
<1>2. CASE /\ bits.run /\ ~control.run
           /\ Reload(load) /\ after' = "status" /\ UNCHANGED line
  <2>1. load \in Loads \ {0}
    BY <1>1, <1>2 DEF DogTypes
  <2>2. SInv' /\ (Dog' <=> Dog) /\ Starting' /\ ~Stopping'
    BY <1>1, <1>2, <2>1, ReloadInv
  <2>3. DogTypes'
    BY <1>1, <1>2 DEF DogTypes
  <2>4. DogInv'
    BY <1>1, <1>2, <2>2, DogConstants DEF DogInv
  <2> QED BY <2>2, <2>3, <2>4, TypingNext
<1>3. CASE /\ ~bits.run /\ control.run
           /\ Request([op |-> "clear", item |-> WATCHDOG])
           /\ after' = "status" /\ UNCHANGED line
  <2>1. PICK c : c = [op |-> "clear", item |-> WATCHDOG]
    OBVIOUS
  <2>2. c \in [op : {"clear", "remaining"}, item : Items]
    BY <2>1, DogConstants
  <2>3. c \in Requests
    BY <2>2 DEF Requests
  <2>4. Request(c) /\ call' = c
    BY <1>3, <2>1 DEF Request
  <2>5. SInv' /\ (Dog' <=> Dog) /\ ~Starting' /\ Stopping'
    BY <1>1, <2>1, <2>3, <2>4, RequestInv DEF Dog, Starting, Stopping
  <2>6. DogTypes'
    BY <1>1, <1>3 DEF DogTypes
  <2>7. DogInv'
    BY <1>1, <1>3, <2>5, DogConstants DEF DogInv
  <2> QED BY <2>5, <2>6, <2>7, TypingNext
<1>4. CASE /\ bits.run <=> control.run
           /\ line' = (bits.run /\ interrupt)
           /\ UNCHANGED <<schedVars, after>>
  <2>1. UNCHANGED schedVars /\ UNCHANGED after
    BY <1>4
  <2>2. SInv' /\ (Dog' <=> Dog) /\ ~Starting' /\ ~Stopping'
    BY <1>1, <2>1, SchedSame DEF Dog
  <2>3. DogTypes'
    BY <1>1, <1>4, <2>1 DEF DogTypes
  <2>4. DogInv'
    BY <1>1, <1>4, <2>1, <2>2 DEF DogInv
  <2> QED BY <2>2, <2>3, <2>4, TypingNext
<1> QED BY <1>2, <1>3, <1>4 DEF WriteControl

LEMMA WriteClearInv == ASSUME IInv, WriteClear PROVE IInv'
<1>1. /\ SInv /\ DogTypes /\ DogInv /\ ~Starting /\ ~Stopping /\ call = Idle
      /\ control.run => load # 0
      /\ interrupt' = FALSE /\ UNCHANGED <<load, locked, control, reset>>
  BY Typing, IdleIsQuiet DEF WriteClear
<1>2. CASE control.run /\ Reload(load) /\ after' = "lower" /\ UNCHANGED line
  <2>1. load \in Loads \ {0}
    BY <1>1, <1>2 DEF DogTypes
  <2>2. SInv' /\ (Dog' <=> Dog) /\ Starting' /\ ~Stopping'
    BY <1>1, <1>2, <2>1, ReloadInv
  <2>3. DogTypes'
    BY <1>1, <1>2 DEF DogTypes
  <2>4. DogInv'
    BY <1>1, <1>2, <2>2, DogConstants DEF DogInv
  <2> QED BY <2>2, <2>3, <2>4, TypingNext
<1>3. CASE ~control.run /\ line' = FALSE /\ UNCHANGED <<schedVars, after>>
  <2>1. UNCHANGED schedVars /\ UNCHANGED after
    BY <1>3
  <2>2. SInv' /\ (Dog' <=> Dog) /\ ~Starting' /\ ~Stopping'
    BY <1>1, <2>1, SchedSame DEF Dog
  <2>3. DogTypes'
    BY <1>1, <1>3, <2>1 DEF DogTypes
  <2>4. DogInv'
    BY <1>1, <1>3, <2>1, <2>2 DEF DogInv
  <2> QED BY <2>2, <2>3, <2>4, TypingNext
<1> QED BY <1>2, <1>3 DEF WriteClear

LEMMA WriteLockInv == ASSUME IInv, WriteLock PROVE IInv'
<1>1. UNCHANGED schedVars /\ UNCHANGED <<load, interrupt, control, line, after, reset>>
      /\ locked' \in BOOLEAN
  BY DEF WriteLock
<1>2. SInv' /\ (Dog' <=> Dog) /\ (Starting' <=> Starting) /\ (Stopping' <=> Stopping)
  BY <1>1, Typing, SchedSame DEF Dog
<1>3. DogTypes'
  BY <1>1, Typing DEF DogTypes
<1>4. DogInv'
  BY <1>1, <1>2, Typing DEF DogInv
<1> QED BY <1>2, <1>3, <1>4, TypingNext

LEMMA ResetInv == ASSUME Reset \/ PeriodZero PROVE IInv'
<1>1. SchedReset /\ watchdog_reset
  BY DEF Reset, PeriodZero
<1>2. SInv' /\ Enabled' = AtReset /\ ~Starting' /\ ~Stopping'
  BY <1>1, SchedResetInv, IdleIsQuietNext
<1>3. ~Dog'
  BY <1>2, DogConstants DEF Dog
<1>4. DogTypes'
  BY <1>1, WatchdogAssumption DEF watchdog_reset, DogTypes, Bits, AllOnes
<1>5. DogInv'
  BY <1>1, <1>2, <1>3 DEF watchdog_reset, DogInv
<1> QED BY <1>2, <1>4, <1>5, TypingNext

----------------------------------------------------------------------------
(***************************************************************************)
(* The theorems.                                                           *)
(***************************************************************************)

LEMMA WInitInv == WInit => IInv
<1> SUFFICES ASSUME WInit PROVE IInv
  OBVIOUS
<1>1. SInv /\ Enabled = AtReset
  BY InitSInv DEF WInit
<1>2. ~Dog /\ ~Starting /\ ~Stopping
  BY <1>1, DogConstants, IdleIsQuiet DEF WInit, Init, Dog
<1>3. DogTypes
  BY WatchdogAssumption DEF WInit, DogTypes, Bits, AllOnes
<1>4. DogInv
  BY <1>2 DEF WInit, DogInv
<1> QED BY <1>1, <1>3, <1>4, Typing

LEMMA WStepInv == IInv /\ [WNext]_vars => IInv'
<1> SUFFICES ASSUME IInv, [WNext]_vars PROVE IInv'
  OBVIOUS
<1>1. CASE Elsewhere
  BY <1>1, ElsewhereInv
<1>2. CASE Timeout
  BY <1>2, TimeoutInv
<1>3. CASE Return
  BY <1>3, ReturnInv
<1>4. CASE Write
  BY <1>4, WriteLoadInv, WriteControlInv, WriteClearInv DEF Write
<1>5. CASE WriteLock
  BY <1>5, WriteLockInv
<1>6. CASE Reset \/ PeriodZero
  BY <1>6, ResetInv
<1>7. CASE UNCHANGED vars
  <2>1. UNCHANGED schedVars /\ UNCHANGED dogVars
    BY <1>7 DEF vars
  <2> QED BY <2>1, Typing, SchedSame, QuietStep DEF Dog
<1> QED BY <1>1, <1>2, <1>3, <1>4, <1>5, <1>6, <1>7 DEF WNext

LEMMA WAlways == WSpec => []IInv
BY WInitInv, WStepInv, PTL DEF WSpec

\* The tick of every event stays below its clock's rate and its cycle is the
\* one the clocks of the moment give it, and the watchdog's registers hold what
\* was written: sched_set_clocks(), the carry of event_repeat() and the
\* watchdog's handlers, in any order.
THEOREM WatchdogTypes == WSpec => []WTypeOK
<1>1. IInv => WTypeOK
  BY DEF IInv
<1> QED BY <1>1, WAlways, PTL

\* The watchdog's event is set exactly while the watchdog runs, although the
\* event may happen in the middle of the handler that stops or clears it.
THEOREM WatchdogArmed == WSpec => []ArmedWhileRunning
<1>1. IInv => ArmedWhileRunning
  <2> SUFFICES ASSUME IInv, call = Idle
               PROVE  /\ control.run => Dog \/ reset
                      /\ Dog => control.run
                      /\ line => control.run /\ interrupt
    BY DEF ArmedWhileRunning, Dog
  <2> QED BY Typing, IdleIsQuiet DEF DogInv
<1> QED BY <1>1, WAlways, PTL

\* The same of the scheduler alone, with devices that ask anything of it.
THEOREM SchedulerTypes == Spec => []TypeOK
<1>1. SInv => TypeOK
  BY DEF SInv
<1> QED BY <1>1, SchedAlways, PTL

\* Once sched_process_pending_events() is done no event is due: each is at
\* least one tick of its own clock away, over the ends of the seconds, blocks
\* given back by a fault, changed clocks, and a reset.
THEOREM NoEventMissed == (Spec => []NoneMissed) /\ (WSpec => []NoneMissed)
<1>1. IInv => NoneMissed
  BY Typing, NoneMissedInv
<1> QED BY <1>1, NoneMissedInv, SchedAlways, WAlways, PTL

----------------------------------------------------------------------------
(***************************************************************************)
(* How far a conversion of ticks to cycles and back may be off.            *)
(***************************************************************************)

LEMMA ConvertedLeq ==
    ASSUME NEW a \in Nat, NEW b \in Nat, a <= b, NEW to \in Nat \ {0}, NEW from \in Nat \ {0}
    PROVE  /\ muldiv(a, to, from) \in Nat /\ muldiv(b, to, from) \in Nat
           /\ muldiv(a, to, from) <= muldiv(b, to, from)
<1>1. a * to \in Nat /\ b * to \in Nat /\ a * to <= b * to
  BY Product, ProductLeq
<1>2. PICK p \in Nat : p = (a * to) \div from /\ from * p <= a * to
  BY <1>1, Quotient
<1>3. PICK q \in Nat : q = (b * to) \div from /\ b * to < from * q + from
  BY <1>1, Quotient
<1>4. p <= q
  <2> SUFFICES ASSUME q + 1 <= p PROVE FALSE
    BY <1>2, <1>3
  <2>1. (q + 1) * from <= p * from
    BY ProductLeq
  <2>2. (q + 1) * from = from * q + from
    OBVIOUS
  <2> QED BY <1>1, <1>2, <1>3, <2>1, <2>2
<1> QED BY <1>2, <1>3, <1>4 DEF muldiv

\* A second later a clock has counted as many ticks as its rate.
LEMMA ConvertedSecond ==
    ASSUME NEW n \in Nat, NEW rate \in Nat \ {0}, NEW cpu \in Nat \ {0}
    PROVE  /\ muldiv(n, rate, cpu) \in Nat /\ muldiv(n + cpu, rate, cpu) \in Nat
           /\ muldiv(n + cpu, rate, cpu) = muldiv(n, rate, cpu) + rate
<1>1. n * rate \in Nat /\ (n + cpu) * rate \in Nat /\ (n + cpu) * rate = n * rate + cpu * rate
  BY Product
<1>2. PICK a \in Nat : a = n * rate
  BY <1>1
<1>3. PICK p \in Nat : p = a \div cpu /\ cpu * p <= a /\ a < cpu * p + cpu
  BY <1>2, Quotient
<1>4. PICK b \in Nat : b = (n + cpu) * rate /\ b = a + cpu * rate
  BY <1>1, <1>2
<1>5. PICK q \in Nat : q = b \div cpu /\ cpu * q <= b /\ b < cpu * q + cpu
  BY <1>4, Quotient
<1>6. cpu * (p + rate) = cpu * p + cpu * rate
  OBVIOUS
<1>7. PICK s \in Nat : s = p + rate
  BY <1>3
<1>8. cpu * s <= b /\ b < cpu * s + cpu
  <2>1. cpu * s \in Nat /\ cpu * p \in Nat /\ cpu * rate \in Nat
    BY Product
  <2> QED BY <1>3, <1>4, <1>6, <1>7, <2>1
<1>9. q = s
  <2>1. ASSUME q + 1 <= s PROVE FALSE
    <3>1. (q + 1) * cpu <= s * cpu
      BY <2>1, ProductLeq
    <3>2. (q + 1) * cpu = cpu * q + cpu /\ s * cpu = cpu * s
      OBVIOUS
    <3>3. cpu * q \in Nat /\ cpu * s \in Nat
      BY Product
    <3> QED BY <3>1, <3>2, <3>3, <1>5, <1>8
  <2>2. ASSUME s + 1 <= q PROVE FALSE
    <3>1. (s + 1) * cpu <= q * cpu
      BY <2>2, ProductLeq
    <3>2. (s + 1) * cpu = cpu * s + cpu /\ q * cpu = cpu * q
      OBVIOUS
    <3>3. cpu * q \in Nat /\ cpu * s \in Nat
      BY Product
    <3> QED BY <3>1, <3>2, <3>3, <1>5, <1>8
  <2> QED BY <2>1, <2>2, <1>5, <1>7
<1> QED BY <1>2, <1>3, <1>4, <1>5, <1>7, <1>9 DEF muldiv

\* The cycle of a tick that is still to come has not passed.
LEMMA ConvertedAfter ==
    ASSUME NEW tick \in Nat, NEW now \in Nat, NEW cpu \in Nat \ {0}, NEW rate \in Nat \ {0},
           muldiv(now, rate, cpu) < tick
    PROVE  now <= muldiv(tick, cpu, rate)
<1>1. tick * cpu \in Nat /\ now * rate \in Nat
  BY Product
<1>2. PICK p \in Nat : p = (tick * cpu) \div rate /\ tick * cpu < rate * p + rate
  BY <1>1, Quotient
<1>3. PICK q \in Nat : q = (now * rate) \div cpu /\ now * rate < cpu * q + cpu
  BY <1>1, Quotient
<1>4. q + 1 <= tick
  BY <1>3 DEF muldiv
<1>5. (q + 1) * cpu <= tick * cpu /\ (q + 1) * cpu = cpu * q + cpu
  BY <1>4, ProductLeq
<1>6. now * rate < rate * p + rate
  <2>1. cpu * q \in Nat /\ rate * p \in Nat
    BY Product
  <2> QED BY <1>1, <1>2, <1>3, <1>5, <2>1
<1>7. now <= p
  <2> SUFFICES ASSUME p + 1 <= now PROVE FALSE
    BY <1>2
  <2>1. (p + 1) * rate <= now * rate /\ (p + 1) * rate = rate * p + rate
    BY ProductLeq
  <2>2. rate * p \in Nat
    BY Product
  <2> QED BY <1>1, <1>6, <2>1, <2>2
<1> QED BY <1>2, <1>7 DEF muldiv

\* The cycle at which an event is due may be before its tick begins.
LEMMA ConvertedBack ==
    ASSUME NEW tick \in Nat, NEW cpu \in Nat \ {0}, NEW rate \in Nat \ {0}
    PROVE  LET c == muldiv(tick, cpu, rate)
               t == muldiv(c, rate, cpu)
           IN  /\ c \in Nat /\ t \in Nat /\ t <= tick
               /\ cpu * (tick - t - 1) <= rate - 2
<1>1. PICK a \in Nat : a = tick * cpu
  BY Product
<1>2. PICK c \in Nat : c = a \div rate /\ rate * c <= a /\ a < rate * c + rate
  BY <1>1, Quotient
<1>3. PICK b \in Nat : b = c * rate /\ b <= a /\ a < b + rate
  <2>1. c * rate = rate * c /\ c * rate \in Nat
    BY Product
  <2> QED BY <1>2, <2>1
<1>4. PICK t \in Nat : t = b \div cpu /\ cpu * t <= b /\ b < cpu * t + cpu
  BY <1>3, Quotient
<1>5. cpu * t \in Nat
  BY Product
<1>6. t <= tick
  <2> SUFFICES ASSUME tick + 1 <= t PROVE FALSE
    BY <1>4
  <2>1. (tick + 1) * cpu <= t * cpu
    BY ProductLeq
  <2>2. (tick + 1) * cpu = a + cpu /\ t * cpu = cpu * t
    BY <1>1
  <2> QED BY <1>3, <1>4, <1>5, <2>1, <2>2
<1>7. cpu * (tick - t - 1) = a - cpu * t - cpu
  BY <1>1
<1>8. cpu * (tick - t - 1) <= rate - 2
  BY <1>3, <1>4, <1>5, <1>7
<1> QED BY <1>1, <1>2, <1>3, <1>4, <1>6, <1>8 DEF muldiv

----------------------------------------------------------------------------
(***************************************************************************)
(* The bounds of Countdown.                                                *)
(***************************************************************************)

LEMMA Counted ==
    ASSUME NEW S \in SUBSET (1 .. Word), NEW n \in Nat, 1 .. n \subseteq S
    PROVE  Cardinality(S) \in Nat /\ n <= Cardinality(S)
<1>1. Word \in Nat
  BY SchedAssumption
<1>2. IsFiniteSet(1 .. Word)
  BY <1>1, FS_Interval
<1>3. IsFiniteSet(S)
  BY <1>2, FS_Subset
<1>4. Cardinality(S) \in Nat
  BY <1>3, FS_CardinalityType
<1>5. Cardinality(1 .. n) = n
  BY FS_Interval
<1>6. 1 .. n \in SUBSET S
  OBVIOUS
<1>7. Cardinality(1 .. n) <= Cardinality(S)
  BY <1>3, <1>6, FS_Subset
<1> QED BY <1>4, <1>5, <1>7

LEMMA RatesFit ==
    ASSUME NEW rates \in Rates
    PROVE  Word \in Nat /\ \A i \in Items : rates[Clock[i]] \in 1 .. Word - 1
<1>1. rates \in [Clocks -> 1 .. Word - 1] /\ Clock \in [Items -> Clocks] /\ Word \in Nat
  BY SchedAssumption
<1> QED BY <1>1

\* MaxSlack bounds how early an event may come.
LEMMA WithinSlack ==
    ASSUME NEW rates \in Rates, NEW i \in Items, NEW e \in Int,
           rates["CPU"] * (e - 1) <= rates[Clock[i]] - 2
    PROVE  MaxSlack \in Nat /\ e <= MaxSlack
<1>1. PICK cpu \in Nat \ {0} : cpu = rates["CPU"]
  BY RatesTyped
<1>2. PICK r \in Nat \ {0} : r = rates[Clock[i]] /\ r < Word /\ Word \in Nat
  BY RatesFit
<1>3. PICK S \in SUBSET (1 .. Word) :
         S = {n \in 1 .. Word : \E s \in Rates, j \in Items : s["CPU"] * n <= s[Clock[j]] - 2}
  OBVIOUS
<1>4. PICK m \in Nat : m = IF e <= 1 THEN 0 ELSE e - 1
  OBVIOUS
<1>5. ASSUME NEW n \in 1 .. m PROVE n \in S
  <2>1. m = e - 1 /\ n <= m
    BY <1>4, <1>5
  <2>2. n * cpu <= m * cpu /\ n * cpu = cpu * n /\ m * cpu = cpu * m
    BY <1>5, <2>1, ProductLeq
  <2>3. cpu * n <= r - 2
    BY <1>1, <1>2, <2>1, <2>2
  <2>4. n * 1 <= n * cpu
    BY <1>5
  <2>5. n \in 1 .. Word
    BY <1>2, <1>5, <2>2, <2>3, <2>4
  <2> QED BY <1>1, <1>2, <1>3, <2>3, <2>5
<1>6. Cardinality(S) \in Nat /\ m <= Cardinality(S)
  BY <1>5, Counted
<1>7. MaxSlack = 1 + Cardinality(S)
  BY <1>3 DEF MaxSlack
<1> QED BY <1>4, <1>6, <1>7

\* MaxAgain bounds what is counted again when an event is set for 0 ticks.
LEMMA WithinAgain ==
    ASSUME NEW rates \in Rates, NEW i \in Items, NEW j \in Items,
           NEW now \in Nat, now < rates["CPU"], NEW began \in Nat,
           began = muldiv(muldiv(now, rates[Clock[i]], rates["CPU"]), rates["CPU"], rates[Clock[i]])
    PROVE  MaxAgain \in Nat
           /\ muldiv(now, rates[Clock[j]], rates["CPU"])
                - muldiv(began, rates[Clock[j]], rates["CPU"]) <= MaxAgain
<1>1. PICK cpu \in Nat \ {0} : cpu = rates["CPU"]
  BY RatesTyped
<1>2. PICK r \in Nat \ {0} : r = rates[Clock[j]] /\ r < Word /\ Word \in Nat
  BY RatesFit
<1>3. PICK S \in SUBSET (1 .. Word) :
         S = {n \in 1..Word : \E s \in Rates, k, l \in Items :
                \E t \in 0..s["CPU"] - 1 :
                   LET tick == muldiv(t, s[Clock[k]], s["CPU"])
                       b    == muldiv(tick, s["CPU"], s[Clock[k]])
                   IN  n <= muldiv(t, s[Clock[l]], s["CPU"]) - muldiv(b, s[Clock[l]], s["CPU"])}
  OBVIOUS
<1>4. MaxAgain = Cardinality(S)
  BY <1>3, Zenon DEF MaxAgain
<1>5. PICK x \in Nat, y \in Nat : x = muldiv(now, r, cpu) /\ x < r /\ y = muldiv(began, r, cpu)
  <2>1. muldiv(now, r, cpu) \in 0 .. r - 1
    BY <1>1, <1>2, ConvertedLess
  <2>2. muldiv(began, r, cpu) \in Nat
    <3>1. began <= began
      OBVIOUS
    <3> QED BY <1>1, <1>2, <3>1, ConvertedLeq
  <2> QED BY <2>1, <2>2
<1>6. PICK m \in Nat : m = IF x <= y THEN 0 ELSE x - y
  BY <1>5
<1>7. ASSUME NEW n \in 1 .. m PROVE n \in S
  <2>1. n \in 1 .. Word /\ n <= x - y
    BY <1>2, <1>5, <1>6, <1>7
  <2>2. now \in 0 .. cpu - 1
    BY <1>1
  <2>3. n <= muldiv(now, rates[Clock[j]], rates["CPU"]) - muldiv(began, rates[Clock[j]], rates["CPU"])
    BY <1>1, <1>2, <1>5, <2>1
  <2> QED BY <1>1, <1>3, <2>1, <2>2, <2>3
<1>8. Cardinality(S) \in Nat /\ m <= Cardinality(S)
  BY <1>7, Counted
<1> QED BY <1>1, <1>2, <1>4, <1>5, <1>6, <1>8

----------------------------------------------------------------------------
(***************************************************************************)
(* What the devices see of the events, in terms of the items, the rates    *)
(* and a time.                                                             *)
(***************************************************************************)

TicksAt(items, rates, i, c) ==
    items[i].second * rates[Clock[i]] + items[i].tick - muldiv(c, rates[Clock[i]], rates["CPU"])

LeftAt(items, rates, c) ==
    [i \in Items |-> IF items[i].second >= 0 THEN TicksAt(items, rates, i, c) ELSE None]

LEMMA LeftIs == Left = LeftAt(sched_items, clock_rates, Observed)
BY DEF Left, LeftAt, TicksAt, Ticks, Rate, Enabled

LEMMA LeftIsNext == Left' = LeftAt(sched_items', clock_rates', Observed')
BY DEF Left, LeftAt, TicksAt, Ticks, Rate, Enabled

LEMMA TicksTyped ==
    ASSUME NEW rates \in Rates, NEW items, ItemsAt(items, rates), NEW i \in Items, NEW c \in Nat
    PROVE  TicksAt(items, rates, i, c) \in Int
<1>1. items[i] \in ItemRecord
  BY DEF ItemsAt
<1>2. PICK s \in Int, k \in Nat : s = items[i].second /\ k = items[i].tick
  BY <1>1 DEF ItemRecord
<1>3. PICK r \in Nat \ {0}, cpu \in Nat \ {0} : r = rates[Clock[i]] /\ cpu = rates["CPU"]
  BY RatesTyped
<1>4. muldiv(c, r, cpu) \in Nat
  BY <1>3, ConvertedLeq
<1>5. s * r \in Int
  BY <1>2, <1>3
<1> QED BY <1>2, <1>3, <1>4, <1>5 DEF TicksAt

LEMMA TicksNow ==
    ASSUME SInv, NEW i \in Items
    PROVE  Ticks(i, Now) \in Int
<1>1. Ticks(i, Now) = TicksAt(sched_items, clock_rates, i, Now)
  BY DEF Ticks, TicksAt, Rate
<1> QED BY <1>1, ClockTyped, TicksTyped

LEMMA RepeatedTotal ==
    ASSUME NEW rates \in Rates, NEW i \in Items, NEW item,
           item.tick \in Nat, item.tick < rates[Clock[i]], NEW ticks \in Nat
    PROVE  LET r == Repeated(item, i, ticks, rates)
           IN  /\ r.second \in Nat /\ r.tick \in Nat
               /\ r.second * rates[Clock[i]] + r.tick = item.tick + ticks
<1>1. PICK rate \in Nat \ {0} : rate = rates[Clock[i]]
  BY RatesTyped
<1>2. PICK q \in Nat, m \in 0 .. rate - 1 : q = ticks \div rate /\ m = ticks % rate
  BY Quotient
<1>3. PICK t \in Nat : t = item.tick /\ t < rate
  BY <1>1
<1>4. PICK r : r = Repeated(item, i, ticks, rates)
  OBVIOUS
<1>5. /\ r.second = q + (IF t >= rate - m THEN 1 ELSE 0)
      /\ r.tick = m + t - (IF t >= rate - m THEN rate ELSE 0)
  BY <1>1, <1>2, <1>3, <1>4 DEF Repeated
<1>6. ticks = rate * q + m
  BY <1>2, SMT
<1>7. rate * q = q * rate /\ (q + 1) * rate = q * rate + rate
  OBVIOUS
<1>8. PICK p \in Nat : p = q * rate
  BY Product
<1>9. r.second * rate + r.tick = t + ticks
  <2>1. CASE t >= rate - m
    BY <2>1, <1>2, <1>3, <1>5, <1>6, <1>7, <1>8
  <2>2. CASE ~(t >= rate - m)
    BY <2>2, <1>2, <1>3, <1>5, <1>6, <1>7, <1>8
  <2> QED BY <2>1, <2>2
<1>10. r.second \in Nat /\ r.tick \in Nat
  BY <1>2, <1>3, <1>5
<1> QED BY <1>1, <1>3, <1>4, <1>9, <1>10

----------------------------------------------------------------------------
(***************************************************************************)
(* The time passes.                                                        *)
(***************************************************************************)

\* Countdown's actions, of what is left before and after.
RunningIn(l) == {i \in Items : l[i] # None}

PassTo(l, m) ==
    /\ m \in [Items -> Int \cup {None}]
    /\ \A i \in Items : m[i] # None <=> i \in RunningIn(l)
    /\ \A i \in RunningIn(l) : l[i] - m[i] \in MaxPass[i]
    /\ \A i, j \in RunningIn(l) : Clock[i] = Clock[j] => l[i] - m[i] = l[j] - m[j]

LEMMA Passes ==
    ASSUME NEW rates \in Rates, NEW items, ItemsAt(items, rates),
           NEW c \in Nat, NEW d \in Nat, c <= d, d <= rates["CPU"] + MaxDelta
    PROVE  PassTo(LeftAt(items, rates, c), LeftAt(items, rates, d))
<1>1. PICK l, m : l = LeftAt(items, rates, c) /\ m = LeftAt(items, rates, d)
  OBVIOUS
<1>2. None \notin Int
  BY SchedAssumption
<1>3. ASSUME NEW i \in Items
      PROVE  /\ TicksAt(items, rates, i, c) \in Int /\ TicksAt(items, rates, i, d) \in Int
             /\ TicksAt(items, rates, i, c) - TicksAt(items, rates, i, d) \in MaxPass[i]
             /\ TicksAt(items, rates, i, c) - TicksAt(items, rates, i, d)
                  = muldiv(d, rates[Clock[i]], rates["CPU"]) - muldiv(c, rates[Clock[i]], rates["CPU"])
  <2>1. items[i] \in ItemRecord
    BY DEF ItemsAt
  <2>2. PICK s \in Int, k \in Nat : s = items[i].second /\ k = items[i].tick
    BY <2>1 DEF ItemRecord
  <2>3. PICK r \in Nat \ {0}, cpu \in Nat \ {0} : r = rates[Clock[i]] /\ cpu = rates["CPU"]
    BY RatesTyped
  <2>4. PICK x \in Nat, y \in Nat : x = muldiv(c, r, cpu) /\ y = muldiv(d, r, cpu) /\ x <= y
    <3>1. /\ muldiv(c, r, cpu) \in Nat /\ muldiv(d, r, cpu) \in Nat
          /\ muldiv(c, r, cpu) <= muldiv(d, r, cpu)
      BY ConvertedLeq
    <3> QED BY <3>1
  <2>5. PICK z \in Int : z = s * r
    BY <2>2, <2>3
  <2>6. TicksAt(items, rates, i, c) = z + k - x /\ TicksAt(items, rates, i, d) = z + k - y
    BY <2>2, <2>3, <2>4, <2>5 DEF TicksAt
  <2>7. PICK a \in Int, b \in Int : a = z + k - x /\ b = z + k - y
    BY <2>2, <2>4, <2>5
  <2>8. b <= a /\ a - b = y - x
    BY <2>2, <2>4, <2>5, <2>7
  <2>9. TicksAt(items, rates, i, c) = a /\ TicksAt(items, rates, i, d) = b
    BY <2>6, <2>7
  <2>10. y - x \in MaxPass[i]
    <3>1. cpu + MaxDelta \in Nat
      BY SchedAssumption
    <3>2. PICK z1 \in Nat : z1 = muldiv(cpu + MaxDelta, r, cpu) /\ y <= z1
      <4>1. d <= cpu + MaxDelta
        BY <2>3
      <4> QED BY <2>4, <3>1, <4>1, ConvertedLeq
    <3>3. y - x \in 0 .. z1
      BY <2>4, <3>2
    <3> QED BY <2>3, <3>2, <3>3 DEF MaxPass
  <2> QED BY <2>3, <2>4, <2>8, <2>9, <2>10
<1>4. ASSUME NEW i \in Items
      PROVE  /\ items[i].second >= 0 => l[i] = TicksAt(items, rates, i, c)
                                        /\ m[i] = TicksAt(items, rates, i, d)
             /\ ~(items[i].second >= 0) => l[i] = None /\ m[i] = None
  BY <1>1 DEF LeftAt
<1>5. \A i \in Items : i \in RunningIn(l) <=> items[i].second >= 0
  BY <1>2, <1>3, <1>4 DEF RunningIn
<1>6. m \in [Items -> Int \cup {None}]
  BY <1>1, <1>3 DEF LeftAt
<1>7. \A i \in Items : m[i] # None <=> i \in RunningIn(l)
  BY <1>2, <1>3, <1>4, <1>5
<1>8. RunningIn(l) \subseteq Items
  BY DEF RunningIn
<1>9. \A i \in RunningIn(l) : l[i] - m[i] \in MaxPass[i]
  BY <1>3, <1>4, <1>5, <1>8
<1>10. ASSUME NEW i \in RunningIn(l), NEW j \in RunningIn(l), Clock[i] = Clock[j]
       PROVE  l[i] - m[i] = l[j] - m[j]
  <2>1. l[i] - m[i] = muldiv(d, rates[Clock[i]], rates["CPU"]) - muldiv(c, rates[Clock[i]], rates["CPU"])
    BY <1>3, <1>4, <1>5, <1>8
  <2>2. l[j] - m[j] = muldiv(d, rates[Clock[j]], rates["CPU"]) - muldiv(c, rates[Clock[j]], rates["CPU"])
    BY <1>3, <1>4, <1>5, <1>8
  <2> QED BY <2>1, <2>2, <1>10
<1> QED BY <1>1, <1>6, <1>7, <1>9, <1>10 DEF PassTo

LEMMA PassIs == PassTo(Left, Left') => Timers!Pass
BY DEF PassTo, RunningIn, Timers!Pass, Timers!Running

ObservedFacts ==
    /\ Observed \in Nat /\ next_cputick \in Nat /\ cycle_count_delta \in Int /\ block \in Nat
    /\ Now = next_cputick + cycle_count_delta
    /\ call # Idle => Observed = Now
    /\ call = Idle => /\ Observed <= next_cputick /\ Observed <= Now - block
                      /\ Observed = next_cputick \/ Observed = Now - block

LEMMA ObservedIs == SInv => ObservedFacts
<1> SUFFICES ASSUME SInv PROVE ObservedFacts
  OBVIOUS
<1>1. PICK n \in Nat, d \in Int, b \in Nat :
         n = next_cputick /\ d = cycle_count_delta /\ b = block
  BY ClockTyped
<1>2. n + d \in Nat /\ b <= n + d /\ Now = n + d /\ (call # Idle => b = 0)
  BY <1>1, ClockTyped
<1>3. CASE call # Idle
  <2>1. Observed = Now - 0
    BY <1>3 DEF Observed
  <2>2. Observed = n + d /\ Observed = Now
    BY <1>2, <2>1
  <2> QED BY <1>1, <1>2, <1>3, <2>2 DEF ObservedFacts
<1>4. CASE call = Idle
  <2>1. Observed = IF d - b >= 0 THEN n ELSE Now - b
    BY <1>1, <1>4 DEF Observed
  <2>2. CASE d - b >= 0
    BY <1>1, <1>2, <1>4, <2>1, <2>2 DEF ObservedFacts
  <2>3. CASE ~(d - b >= 0)
    BY <1>1, <1>2, <1>4, <2>1, <2>3 DEF ObservedFacts
  <2> QED BY <2>2, <2>3
<1> QED BY <1>3, <1>4

LEMMA ObservedIsNext == SInv' => ObservedFacts'
BY ObservedIs, PTL

NowFits == Now \in Nat /\ Now <= clock_rates["CPU"] + MaxDelta

LEMMA NowFitsNext == SInv' => NowFits'
<1>1. SInv => NowFits
  BY ClockTyped DEF NowFits
<1> QED BY <1>1, PTL

\* The CPU executes instructions, and reaches the main loop or a device.
LEMMA TimeMoves ==
    ASSUME SInv, SInv', Execute \/ Fault \/ MainLoop \/ \E c \in Requests : Request(c)
    PROVE  Timers!Pass
<1>1. /\ UNCHANGED itemVars /\ call = Idle /\ ObservedFacts /\ ObservedFacts'
  <2>1. UNCHANGED itemVars /\ call = Idle
    <3>1. CASE Interpret \/ FastForward \/ KeypadRead
      BY <3>1 DEF Interpret, FastForward, KeypadRead
    <3>2. CASE \E k \in BlockSizes : EnterBlock(k)
      BY <3>2 DEF EnterBlock
    <3>3. CASE Fault \/ MainLoop
      BY <3>3 DEF Fault, MainLoop
    <3>4. CASE \E c \in Requests : Request(c)
      BY <3>4 DEF Request
    <3> QED BY <3>1, <3>2, <3>3, <3>4 DEF Execute
  <2> QED BY <2>1, ObservedIs, ObservedIsNext
<1>2. PICK n \in Nat, d \in Int, b \in Nat :
         n = next_cputick /\ d = cycle_count_delta /\ b = block /\ Now = n + d
  BY ClockTyped
<1>3. next_cputick' = n /\ Now' = n + cycle_count_delta'
  BY <1>1, <1>2 DEF itemVars, ObservedFacts
<1>4. PICK o \in Nat : o = Observed /\ o <= n /\ o <= n + d - b
  BY <1>1, <1>2 DEF ObservedFacts
<1>5. PICK p \in Nat, e \in Int, f \in Nat :
         /\ p = Observed' /\ e = cycle_count_delta' /\ f = block'
         /\ call' # Idle => p = n + e
         /\ call' = Idle => p = n \/ p = n + e - f
  <2>1. PICK p \in Nat, e \in Int, f \in Nat :
           p = Observed' /\ e = cycle_count_delta' /\ f = block'
    BY <1>1 DEF ObservedFacts
  <2>2. PICK w \in Int : w = n + e /\ w = Now'
    <3>1. Now' = n + e
      BY <1>3, <2>1, Zenon
    <3>2. n + e \in Int
      BY <2>1
    <3> QED BY <3>1, <3>2
  <2>3. call' # Idle => p = w
    BY <1>1, <2>1, <2>2 DEF ObservedFacts
  <2>4. call' = Idle => p = n \/ p = w - f
    BY <1>1, <1>3, <2>1, <2>2 DEF ObservedFacts
  <2>5. /\ call' # Idle => p = n + e
        /\ call' = Idle => p = n \/ p = n + e - f
    BY <2>2, <2>3, <2>4
  <2> QED BY <2>1, <2>5, Zenon
<1>6. o <= p
  <2>1. CASE Interpret
    BY <2>1, <1>1, <1>2, <1>4, <1>5 DEF Interpret
  <2>2. CASE FastForward
    BY <2>2, <1>1, <1>2, <1>4, <1>5 DEF FastForward
  <2>3. CASE KeypadRead
    <3>1. Skip \in Nat
      BY SchedAssumption
    <3> QED BY <2>3, <3>1, <1>1, <1>2, <1>4, <1>5 DEF KeypadRead
  <2>4. ASSUME NEW k \in BlockSizes, EnterBlock(k) PROVE o <= p
    <3>1. k \in Nat
      BY SchedAssumption
    <3> QED BY <2>4, <3>1, <1>1, <1>2, <1>4, <1>5 DEF EnterBlock
  <2>5. CASE Fault
    BY <2>5, <1>1, <1>2, <1>4, <1>5 DEF Fault
  <2>6. CASE MainLoop
    BY <2>6, <1>1, <1>2, <1>4, <1>5 DEF MainLoop
  <2>7. ASSUME NEW c \in Requests, Request(c) PROVE o <= p
    BY <2>7, <1>1, <1>2, <1>4, <1>5 DEF Request
  <2> QED BY <2>1, <2>2, <2>3, <2>4, <2>5, <2>6, <2>7 DEF Execute
<1>7. clock_rates' = clock_rates /\ sched_items' = sched_items
  BY <1>1 DEF itemVars
<1>8. p <= clock_rates["CPU"] + MaxDelta
  <2>1. PICK w \in Nat, cpu \in Nat : /\ w = Now' /\ w <= cpu + MaxDelta /\ cpu = clock_rates["CPU"]
                                     /\ n <= cpu
    <3>1. /\ Now' \in Nat /\ Now' <= clock_rates'["CPU"] + MaxDelta
          /\ clock_rates' = clock_rates
      BY <1>7, NowFitsNext DEF NowFits
    <3>2. clock_rates["CPU"] \in Nat /\ next_cputick <= clock_rates["CPU"]
      BY ClockTyped
    <3> QED BY <1>2, <3>1, <3>2
  <2>2. MaxDelta \in Nat /\ w = n + e
    BY <1>3, <1>5, <2>1, SchedAssumption
  <2>3. p <= cpu + MaxDelta
    <3>1. p = n \/ p = n + e - f \/ p = n + e
      BY <1>5, Zenon
    <3>2. p <= w \/ p <= n
      BY <2>2, <3>1
    <3> QED BY <2>1, <2>2, <3>2
  <2> QED BY <2>1, <2>3
<1>9. PassTo(LeftAt(sched_items, clock_rates, o), LeftAt(sched_items, clock_rates, p))
  BY <1>6, <1>8, ClockTyped, Passes
<1> QED BY <1>4, <1>5, <1>7, <1>9, LeftIs, LeftIsNext, PassIs

----------------------------------------------------------------------------
(***************************************************************************)
(* The pending events happen.                                              *)
(***************************************************************************)

LEMMA UpdatedNow ==
    ASSUME SInv', NEW t \in Nat, sched_update_next_event(t)
    PROVE  Now' = t
<1>1. PICK n \in Nat : n = next_cputick'
  BY ObservedIsNext DEF ObservedFacts
<1>2. cycle_count_delta' = t - n
  BY <1>1 DEF sched_update_next_event
<1>3. Now' = n + (t - n)
  BY <1>1, <1>2 DEF Now
<1>4. n + (t - n) = t
  OBVIOUS
<1> QED BY <1>3, <1>4

\* A new second changes what the events are kept as, not what is left of them.
LEMMA SecondsDoNotShow ==
    ASSUME SInv, NewSecond
    PROVE  Left' = Left
<1>1. /\ next_index = None /\ cycle_count_delta >= 0 /\ call # Idle
      /\ sched_items' = [i \in Items |-> [sched_items[i] EXCEPT
                             !.second = IF @ >= 0 THEN @ - 1 ELSE @]]
      /\ clock_rates' = clock_rates /\ call' = call /\ block' = block
      /\ sched_update_next_event(Now - clock_rates["CPU"])
  BY DEF NewSecond, Pending
<1>2. SInv' /\ Enabled' = Enabled
  BY NewSecondInv
<1>3. PICK cpu \in Nat \ {0} : cpu = clock_rates["CPU"]
  BY ClockTyped
<1>4. PICK t \in Nat : Now = t + cpu /\ t = Now - clock_rates["CPU"]
  <2>1. next_cputick = cpu
    BY <1>1, <1>3, ClockTyped DEF NextFirst
  <2>2. Now = cpu + cycle_count_delta /\ cycle_count_delta \in Nat
    BY <1>1, <2>1, ClockTyped
  <2> QED BY <1>3, <2>2
<1>5. Now' = t
  BY <1>1, <1>2, <1>4, UpdatedNow
<1>6. Observed = t + cpu /\ Observed' = t
  BY <1>1, <1>2, <1>4, <1>5, ObservedIs, ObservedIsNext DEF ObservedFacts
<1>7. ASSUME NEW i \in Items
      PROVE  /\ sched_items'[i].second >= 0 <=> sched_items[i].second >= 0
             /\ sched_items[i].second >= 0 =>
                   TicksAt(sched_items', clock_rates, i, t) = TicksAt(sched_items, clock_rates, i, t + cpu)
  <2>1. /\ sched_items[i] \in ItemRecord
        /\ sched_items'[i] = [sched_items[i] EXCEPT !.second = IF @ >= 0 THEN @ - 1 ELSE @]
    BY <1>1, ClockTyped DEF ItemsAt
  <2>2. PICK s \in Int, k \in Nat : s = sched_items[i].second /\ k = sched_items[i].tick
    BY <2>1 DEF ItemRecord
  <2>3. sched_items'[i].second >= 0 <=> s >= 0
    BY <1>2, <2>2 DEF Enabled
  <2>4. sched_items'[i].tick = k /\ (s >= 0 => sched_items'[i].second = s - 1)
    BY <2>1, <2>2 DEF ItemRecord
  <2>5. PICK r \in Nat \ {0} : r = clock_rates[Clock[i]]
    BY ClockTyped, RatesTyped
  <2>6. PICK x \in Nat, y \in Nat : x = muldiv(t, r, cpu) /\ y = muldiv(t + cpu, r, cpu) /\ y = x + r
    <3>1. /\ muldiv(t, r, cpu) \in Nat /\ muldiv(t + cpu, r, cpu) \in Nat
          /\ muldiv(t + cpu, r, cpu) = muldiv(t, r, cpu) + r
      BY ConvertedSecond
    <3> QED BY <3>1
  <2>7. PICK p \in Int, q \in Int : p = s * r /\ q = (s - 1) * r /\ q = p - r
    BY <2>2, <2>5
  <2>8. TicksAt(sched_items, clock_rates, i, t + cpu) = p + k - y
    BY <1>3, <2>2, <2>5, <2>6, <2>7 DEF TicksAt
  <2>9. ASSUME s >= 0 PROVE TicksAt(sched_items', clock_rates, i, t) = q + k - x
    BY <1>3, <2>4, <2>5, <2>6, <2>7, <2>9 DEF TicksAt
  <2>10. p + k - y = q + k - x
    BY <2>2, <2>6, <2>7
  <2> QED BY <2>2, <2>3, <2>8, <2>9, <2>10
<1>8. LeftAt(sched_items', clock_rates, t) = LeftAt(sched_items, clock_rates, t + cpu)
  BY <1>7, Zenon DEF LeftAt
<1> QED BY <1>1, <1>6, <1>8, LeftIs, LeftIsNext

\* One item is changed, at the same time.
ItemShows(items, new, rates, c, i, r) ==
    /\ LeftAt(new, rates, c) = [LeftAt(items, rates, c) EXCEPT ![i] = LeftAt(new, rates, c)[i]]
    /\ LeftAt(new, rates, c)[i]
         = IF r.second >= 0
           THEN r.second * rates[Clock[i]] + r.tick - muldiv(c, rates[Clock[i]], rates["CPU"])
           ELSE None

LEMMA LeftChanged ==
    ASSUME NEW rates \in Rates, NEW items, ItemsAt(items, rates), NEW c \in Nat,
           NEW i \in Items, NEW r, NEW new, new = [items EXCEPT ![i] = r]
    PROVE  ItemShows(items, new, rates, c, i, r)
<1>1. PICK l, m : l = LeftAt(items, rates, c) /\ m = LeftAt(new, rates, c)
  OBVIOUS
<1>2. new[i] = r /\ \A j \in Items : j # i => new[j] = items[j]
  BY DEF ItemsAt
<1>3. l = [j \in Items |-> l[j]] /\ m = [j \in Items |-> m[j]]
  BY <1>1 DEF LeftAt
<1>4. \A j \in Items : j # i => m[j] = l[j]
  BY <1>1, <1>2 DEF LeftAt, TicksAt
<1>5. m = [l EXCEPT ![i] = m[i]]
  BY <1>3, <1>4
<1>6. m[i] = IF r.second >= 0
             THEN r.second * rates[Clock[i]] + r.tick - muldiv(c, rates[Clock[i]], rates["CPU"])
             ELSE None
  BY <1>1, <1>2 DEF LeftAt, TicksAt
<1> QED BY <1>1, <1>5, <1>6, Zenon DEF ItemShows

LEMMA EventCounts ==
    ASSUME SInv, NEW i \in Items, NEW ticks \in Repeats[i] \cup {None}, Fire(i, ticks)
    PROVE  Timers!Fire(i)
<1>1. PICK off : off = [sched_items[i] EXCEPT !.second = -1]
  OBVIOUS
<1>2. PICK r : r = IF ticks = None THEN off ELSE Repeated(off, i, ticks, clock_rates)
  OBVIOUS
<1>3. /\ next_index = i /\ cycle_count_delta >= 0 /\ call # Idle
      /\ sched_items' = [sched_items EXCEPT ![i] = r]
      /\ clock_rates' = clock_rates /\ call' = call
      /\ sched_update_next_event(Now)
  BY <1>1, <1>2 DEF Fire, Pending
<1>4. (ticks # None => ticks \in Nat \ {0}) /\ None \notin Int
  <2>1. Repeats[i] \subseteq 1 .. Word - 1 /\ Word \in Nat
    BY SchedAssumption
  <2> QED BY <2>1, SchedAssumption
<1>5. SInv'
  BY <1>4, FireInv
<1>6. i # None /\ sched_items[i].second = 0 /\ next_cputick = sched_items[i].cputick
  <2>1. i # None
    BY SchedAssumption
  <2> QED BY <2>1, <1>3, ClockTyped DEF NextFirst, Candidates
<1>7. PICK cpu \in Nat \ {0}, rate \in Nat \ {0} : cpu = clock_rates["CPU"] /\ rate = clock_rates[Clock[i]]
  BY ClockTyped, RatesTyped
<1>8. PICK k \in Nat : /\ k = sched_items[i].tick /\ k < rate
                      /\ next_cputick = muldiv(k, cpu, rate)
  BY <1>6, <1>7, ClockTyped DEF ItemsAt, ItemRecord
<1>9. PICK now \in Nat : now = Now /\ next_cputick <= now
  BY <1>3, ClockTyped
<1>10. Observed = now /\ Observed' = now
  <2>1. Now' = now
    BY <1>3, <1>5, <1>9, UpdatedNow
  <2> QED BY <2>1, <1>3, <1>5, <1>9, ObservedIs, ObservedIsNext DEF ObservedFacts
<1>11. PICK t \in Nat : t = muldiv(now, rate, cpu) /\ cpu * (k - t - 1) <= rate - 2
  <2>1. PICK b \in Nat : b = muldiv(next_cputick, rate, cpu) /\ cpu * (k - b - 1) <= rate - 2
    BY <1>8, ConvertedBack
  <2>2. PICK t \in Nat : t = muldiv(now, rate, cpu) /\ b <= t
    <3>1. next_cputick \in Nat
      BY ClockTyped
    <3>2. /\ muldiv(now, rate, cpu) \in Nat
          /\ muldiv(next_cputick, rate, cpu) <= muldiv(now, rate, cpu)
      BY <1>9, <3>1, ConvertedLeq
    <3> QED BY <2>1, <3>2
  <2>3. (k - t - 1) * cpu <= (k - b - 1) * cpu
    <3>1. PICK d \in Nat : d = t - b
      BY <2>1, <2>2
    <3>2. d * cpu \in Nat
      BY Product
    <3>3. (k - b - 1) * cpu = (k - t - 1) * cpu + d * cpu
      <4>1. k - b - 1 = (k - t - 1) + d
        BY <3>1, <2>1, <2>2
      <4>2. k - t - 1 \in Int
        BY <2>2
      <4> QED BY <4>1, <4>2
    <3>4. (k - t - 1) * cpu \in Int
      BY <2>2
    <3> QED BY <3>2, <3>3, <3>4
  <2>4. (k - t - 1) * cpu = cpu * (k - t - 1) /\ (k - b - 1) * cpu = cpu * (k - b - 1)
    BY <2>1, <2>2
  <2>5. cpu * (k - t - 1) \in Int /\ cpu * (k - b - 1) \in Int
    BY <2>1, <2>2
  <2> QED BY <2>1, <2>2, <2>3, <2>4, <2>5
<1>12. PICK l, m : /\ l = LeftAt(sched_items, clock_rates, now) /\ l = Left
                  /\ m = LeftAt(sched_items', clock_rates, now) /\ m = Left'
  BY <1>3, <1>10, LeftIs, LeftIsNext
<1>13. l[i] = k - t
  <2>1. l[i] = TicksAt(sched_items, clock_rates, i, now)
    BY <1>6, <1>12 DEF LeftAt
  <2>2. TicksAt(sched_items, clock_rates, i, now) = 0 * rate + k - t
    BY <1>6, <1>7, <1>8, <1>11 DEF TicksAt
  <2> QED BY <2>1, <2>2
<1>14. l[i] # None /\ l[i] <= MaxSlack
  <2>1. k - t \in Int /\ k - t <= MaxSlack
    BY <1>7, <1>11, ClockTyped, WithinSlack
  <2> QED BY <2>1, <1>4, <1>13
<1>15. /\ m = [l EXCEPT ![i] = m[i]]
       /\ m[i] = IF r.second >= 0 THEN r.second * rate + r.tick - t ELSE None
  <2>1. clock_rates \in Rates /\ ItemsAt(sched_items, clock_rates)
    BY ClockTyped
  <2>2. sched_items' = [sched_items EXCEPT ![i] = r] /\ clock_rates' = clock_rates
    BY <1>3
  <2>3. m = LeftAt(sched_items', clock_rates, now) /\ l = LeftAt(sched_items, clock_rates, now)
    BY <1>12, <2>2
  <2>4. PICK new : new = sched_items'
    OBVIOUS
  <2>5. PICK items, rates : items = sched_items /\ rates = clock_rates
    OBVIOUS
  <2>6. /\ rates \in Rates /\ ItemsAt(items, rates) /\ now \in Nat
        /\ new = [items EXCEPT ![i] = r]
        /\ m = LeftAt(new, rates, now) /\ l = LeftAt(items, rates, now)
        /\ cpu = rates["CPU"] /\ rate = rates[Clock[i]]
    BY <2>1, <2>2, <2>3, <2>4, <2>5, <1>7
  <2>7. ItemShows(items, new, rates, now, i, r)
    BY <2>6, LeftChanged
  <2> QED BY <2>6, <2>7, <1>11, Zenon DEF ItemShows
<1>16. off.second = -1 /\ off.tick = k
  BY <1>1, <1>8, ClockTyped DEF ItemsAt, ItemRecord
<1>17. m[i] = None \/ (m[i] \in Int /\ m[i] > l[i])
  <2>1. CASE ticks = None
    BY <2>1, <1>2, <1>15, <1>16
  <2>2. CASE ticks # None
    <3>1. r.second \in Nat /\ r.tick \in Nat /\ r.second * rate + r.tick = k + ticks
      BY <2>2, <1>2, <1>4, <1>7, <1>8, <1>16, ClockTyped, RepeatedTotal
    <3>2. m[i] = k + ticks - t
      <4>1. m[i] = r.second * rate + r.tick - t
        <5>1. r.second >= 0
          BY <3>1
        <5> QED BY <5>1, <1>15, Zenon
      <4>2. PICK x : x = r.second * rate + r.tick
        OBVIOUS
      <4>3. x = k + ticks /\ m[i] = x - t
        BY <3>1, <4>1, <4>2
      <4> QED BY <1>4, <2>2, <4>3
    <3> QED BY <2>2, <3>2, <1>4, <1>13
  <2> QED BY <2>1, <2>2
<1> QED BY <1>12, <1>14, <1>15, <1>17 DEF Timers!Fire, Timers!Running

----------------------------------------------------------------------------
(***************************************************************************)
(* The function that let them happen does the rest.                        *)
(***************************************************************************)

\* Where an item is changed and the time is not, only that item shows it.
LEMMA OneShows ==
    ASSUME SInv, NEW i \in Items, NEW r, NEW now \in Nat,
           sched_items' = [sched_items EXCEPT ![i] = r], clock_rates' = clock_rates,
           Observed = now, Observed' = now
    PROVE  /\ Left' = [Left EXCEPT ![i] = Left'[i]]
           /\ Left'[i] = IF r.second >= 0
                         THEN r.second * clock_rates[Clock[i]] + r.tick
                                - muldiv(now, clock_rates[Clock[i]], clock_rates["CPU"])
                         ELSE None
<1>1. PICK new, items, rates : new = sched_items' /\ items = sched_items /\ rates = clock_rates
  OBVIOUS
<1>2. /\ rates \in Rates /\ ItemsAt(items, rates) /\ new = [items EXCEPT ![i] = r]
      /\ Left = LeftAt(items, rates, now) /\ Left' = LeftAt(new, rates, now)
  BY <1>1, ClockTyped, LeftIs, LeftIsNext
<1>3. ItemShows(items, new, rates, now, i, r)
  BY <1>2, LeftChanged
<1> QED BY <1>1, <1>2, <1>3, Zenon DEF ItemShows

\* The next event stays after the present time, unless it is one just changed.
LEMMA NextAfter ==
    ASSUME SInv, SInv', Processed, clock_rates' = clock_rates,
           NEW i \in Items, \A j \in Items : j # i => sched_items'[j] = sched_items[j]
    PROVE  next_index' = i \/ Now < next_cputick'
<1> SUFFICES ASSUME next_index' # i PROVE Now < next_cputick'
  OBVIOUS
<1>1. /\ Now \in Nat /\ next_cputick \in Nat /\ Now < next_cputick
      /\ clock_rates["CPU"] \in Nat /\ next_cputick <= clock_rates["CPU"]
  <2>1. PICK cpu \in Nat, n \in Nat, d \in Int :
           cpu = clock_rates["CPU"] /\ n = next_cputick /\ d = cycle_count_delta /\ n <= cpu
    BY ClockTyped
  <2>2. Now = n + d /\ Now \in Nat /\ d < 0
    BY <2>1, ClockTyped DEF Processed
  <2> QED BY <2>1, <2>2
<1>2. NextFirst /\ NextFirst' /\ next_index' \in Items \cup {None}
  <2>1. NextFirst /\ NextFirst' /\ TypeOK'
    BY DEF SInv
  <2>2. Typed'
    BY <2>1, TypesOfItemsNext
  <2> QED BY <2>1, <2>2 DEF Typed
<1>3. CASE next_index' = None
  <2>1. next_cputick' = clock_rates["CPU"]
    BY <1>2, <1>3 DEF NextFirst
  <2> QED BY <1>1, <2>1
<1>4. CASE next_index' # None
  <2>1. PICK k \in Items : k = next_index' /\ k # i
    BY <1>2, <1>4
  <2>2. k \in Candidates(sched_items', clock_rates') /\ next_cputick' = sched_items'[k].cputick
    BY <1>2, <1>4, <2>1 DEF NextFirst
  <2>3. k \in Candidates(sched_items, clock_rates) /\ next_cputick' = sched_items[k].cputick
    BY <2>1, <2>2 DEF Candidates
  <2>4. next_index # None /\ next_cputick <= sched_items[k].cputick
    BY <1>2, <2>3 DEF NextFirst
  <2>5. sched_items[k].cputick \in Nat
    BY ClockTyped DEF ItemsAt, ItemRecord
  <2> QED BY <1>1, <2>3, <2>4, <2>5
<1> QED BY <1>3, <1>4

\* The CPU goes on at the present time, or at that of an event set before it.
LEMMA Resumed ==
    ASSUME SInv', NEW now \in Nat, Now' = now, call' = Idle, block' = 0
    PROVE  /\ now <= next_cputick' => Observed' = now
           /\ next_cputick' <= now => Observed' = next_cputick'
<1>1. ObservedFacts'
  BY ObservedIsNext
<1>2. PICK n \in Nat, o \in Nat : n = next_cputick' /\ o = Observed'
  BY <1>1 DEF ObservedFacts
<1>3. o <= n /\ o <= now - 0 /\ (o = n \/ o = now - 0)
  BY <1>1, <1>2 DEF ObservedFacts
<1> QED BY <1>2, <1>3

LEMMA FinishFacts ==
    ASSUME SInv, Finish
    PROVE  /\ SInv' /\ Processed /\ call' = Idle /\ block' = 0 /\ call \in Calls
           /\ Observed = Now /\ Now \in Nat /\ Now < next_cputick /\ Now < clock_rates["CPU"]
<1>1. Processed /\ call' = Idle /\ block' = block /\ call # Idle
  BY DEF Finish, Processed
<1> QED BY <1>1, ClockTyped, FinishInv, ObservedIs DEF ObservedFacts, Processed

LEMMA ReturnCounts ==
    ASSUME SInv, Finish, call.op \in {"loop", "remaining"}
    PROVE  Left' = Left
<1>1. UNCHANGED <<itemVars, cycle_count_delta>>
  BY DEF Finish
<1>2. Now' = Now /\ next_cputick' = next_cputick
  BY <1>1 DEF Now, itemVars
<1>3. Observed' = Observed
  <2>1. PICK now \in Nat, n \in Nat : now = Now /\ n = next_cputick /\ now < n
    BY FinishFacts, ClockTyped
  <2> QED BY <1>2, <2>1, FinishFacts, Resumed
<1> QED BY <1>1, <1>3, LeftIs, LeftIsNext DEF itemVars

LEMMA ClearCounts ==
    ASSUME SInv, Finish, call.op = "clear"
    PROVE  \E i \in Items : Timers!Change(i)
<1>1. PICK i \in Items : i = call.item
  BY FinishFacts, CallTyped
<1>2. /\ sched_items' = [sched_items EXCEPT ![i].second = -1]
      /\ clock_rates' = clock_rates /\ sched_update_next_event(Now)
  BY <1>1 DEF Finish
<1>3. PICK r : r = [sched_items[i] EXCEPT !.second = -1]
  OBVIOUS
<1>4. r.second = -1 /\ sched_items' = [sched_items EXCEPT ![i] = r]
  BY <1>2, <1>3, ClockTyped DEF ItemsAt, ItemRecord
<1>5. PICK now \in Nat : now = Now
  BY FinishFacts
<1>6. Now' = now
  BY <1>2, <1>5, FinishFacts, UpdatedNow
<1>7. now < next_cputick'
  <2>1. next_index' # i
    <3>1. sched_items'[i].second = -1
      BY <1>4, ClockTyped DEF ItemsAt
    <3>2. i \notin Candidates(sched_items', clock_rates') /\ i # None
      BY <3>1, SchedAssumption DEF Candidates
    <3>3. NextFirst'
      BY FinishFacts DEF SInv
    <3> QED BY <3>2, <3>3 DEF NextFirst
  <2>2. \A j \in Items : j # i => sched_items'[j] = sched_items[j]
    BY <1>4, ClockTyped DEF ItemsAt
  <2> QED BY <1>2, <1>5, <2>1, <2>2, FinishFacts, NextAfter
<1>8. Observed' = now /\ Observed = now
  <2>1. PICK n \in Nat : n = next_cputick'
    BY FinishFacts, ObservedIsNext DEF ObservedFacts
  <2> QED BY <1>5, <1>6, <1>7, <2>1, FinishFacts, Resumed
<1>9. /\ Left' = [Left EXCEPT ![i] = Left'[i]]
      /\ Left'[i] = None
  <2>1. ~(r.second >= 0)
    BY <1>4
  <2> QED BY <1>2, <1>4, <1>8, <2>1, OneShows
<1> QED BY <1>9 DEF Timers!Change

LEMMA TicksOfCall ==
    ASSUME call \in Calls, call.op = "set"
    PROVE  call.item \in Items /\ call.ticks \in SetTicks[call.item] /\ call.ticks \in Nat
<1>1. call \in Requests
  <2>1. Idle.op # "set" /\ Loop.op # "set"
    BY DEF Idle, Loop
  <2> QED BY <2>1 DEF Calls
<1>2. PICK i \in Items : call \in [op : {"set"}, item : {i}, ticks : SetTicks[i]]
  <2>1. call \notin [op : {"clear", "remaining"}, item : Items] \cup [op : {"clocks"}, rates : Rates]
    OBVIOUS
  <2> QED BY <1>1, <2>1 DEF Requests
<1>3. SetTicks[i] \subseteq Nat
  BY SchedAssumption
<1> QED BY <1>2, <1>3

\* An event is set for 0 ticks from now, in terms of what is left before and after.
SetNowTo(l, m, i) ==
    /\ m \in [Items -> Int \cup {None}]
    /\ m[i] \in 0 .. MaxSlack
    /\ \A j \in Items \ {i} : IF j \in RunningIn(l)
          THEN m[j] # None /\ m[j] - l[j] \in 0 .. MaxAgain
          ELSE m[j] = None

LEMMA SetNowIs == ASSUME NEW i, SetNowTo(Left, Left', i) PROVE Timers!SetNow(i)
BY DEF SetNowTo, RunningIn, Timers!SetNow, Timers!Running

LEMMA SetsNow ==
    ASSUME NEW rates \in Rates, NEW items, ItemsAt(items, rates), NEW new, ItemsAt(new, rates),
           NEW i \in Items, NEW r, new = [items EXCEPT ![i] = r],
           NEW now \in Nat, now < rates["CPU"], NEW from \in Nat,
           from = muldiv(now, rates[Clock[i]], rates["CPU"]),
           r.second = 0, r.tick = from,
           NEW began \in Nat, began < now,
           began = muldiv(from, rates["CPU"], rates[Clock[i]])
    PROVE  SetNowTo(LeftAt(items, rates, now), LeftAt(new, rates, began), i)
<1>1. PICK l, m, n : /\ l = LeftAt(items, rates, now) /\ m = LeftAt(new, rates, began)
                    /\ n = LeftAt(new, rates, now)
  OBVIOUS
<1>2. None \notin Int
  BY SchedAssumption
<1>3. PICK cpu \in Nat \ {0}, rate \in Nat \ {0} : cpu = rates["CPU"] /\ rate = rates[Clock[i]]
  BY RatesTyped
<1>4. m \in [Items -> Int \cup {None}]
  <2>1. \A j \in Items : TicksAt(new, rates, j, began) \in Int
    BY TicksTyped
  <2> QED BY <1>1, <2>1 DEF LeftAt
<1>5. m[i] \in 0 .. MaxSlack
  <2>1. PICK t \in Nat : /\ t = muldiv(began, rate, cpu) /\ t <= from
                         /\ cpu * (from - t - 1) <= rate - 2
    <3>1. began = muldiv(from, cpu, rate)
      BY <1>3
    <3>2. /\ muldiv(began, rate, cpu) \in Nat /\ muldiv(began, rate, cpu) <= from
          /\ cpu * (from - muldiv(began, rate, cpu) - 1) <= rate - 2
      BY <3>1, ConvertedBack
    <3> QED BY <3>2
  <2>2. MaxSlack \in Nat /\ from - t <= MaxSlack
    <3>1. from - t \in Int
      BY <2>1
    <3> QED BY <1>3, <2>1, <3>1, WithinSlack
  <2>3. new[i] = r
    BY DEF ItemsAt
  <2>4. m[i] = 0 * rate + from - t
    BY <1>1, <1>3, <2>1, <2>3 DEF LeftAt, TicksAt
  <2> QED BY <2>1, <2>2, <2>4
<1>6. ASSUME NEW j \in Items \ {i}
      PROVE  IF j \in RunningIn(l) THEN m[j] # None /\ m[j] - l[j] \in 0 .. MaxAgain
                                   ELSE m[j] = None
  <2>1. new[j] = items[j] /\ items[j] \in ItemRecord
    BY DEF ItemsAt
  <2>2. PICK s \in Int, k \in Nat : s = items[j].second /\ k = items[j].tick
    BY <2>1 DEF ItemRecord
  <2>3. CASE s >= 0
    <3>1. PICK q \in Nat \ {0} : q = rates[Clock[j]]
      BY RatesTyped
    <3>2. PICK x \in Nat, y \in Nat : x = muldiv(began, q, cpu) /\ y = muldiv(now, q, cpu) /\ x <= y
      <4>1. /\ muldiv(began, q, cpu) \in Nat /\ muldiv(now, q, cpu) \in Nat
            /\ muldiv(began, q, cpu) <= muldiv(now, q, cpu)
        <5>1. began <= now
          OBVIOUS
        <5> QED BY <5>1, ConvertedLeq
      <4> QED BY <4>1
    <3>3. MaxAgain \in Nat /\ y - x <= MaxAgain
      BY <1>3, <3>1, <3>2, WithinAgain
    <3>4. PICK z \in Int : z = s * q
      BY <2>2, <3>1
    <3>5. l[j] = z + k - y /\ m[j] = z + k - x
      <4>1. l[j] = s * q + k - y
        BY <1>1, <1>3, <2>2, <2>3, <3>1, <3>2 DEF LeftAt, TicksAt
      <4>2. m[j] = s * q + k - x
        BY <1>1, <1>3, <2>1, <2>2, <2>3, <3>1, <3>2 DEF LeftAt, TicksAt
      <4> QED BY <3>4, <4>1, <4>2, Zenon
    <3>6. m[j] # None /\ l[j] # None /\ m[j] - l[j] \in 0 .. MaxAgain
      <4>1. PICK a \in Int, b \in Int : a = z + k - y /\ b = z + k - x
        BY <2>2, <3>2, <3>4
      <4>2. a # None /\ b # None /\ b - a \in 0 .. MaxAgain
        BY <1>2, <2>2, <3>2, <3>3, <3>4, <4>1
      <4> QED BY <3>5, <4>1, <4>2, Zenon
    <3> QED BY <3>6 DEF RunningIn
  <2>4. CASE ~(s >= 0)
    <3>1. l[j] = None /\ m[j] = None
      BY <1>1, <2>1, <2>2, <2>4 DEF LeftAt
    <3> QED BY <3>1 DEF RunningIn
  <2> QED BY <2>3, <2>4
<1> QED BY <1>1, <1>4, <1>5, <1>6 DEF SetNowTo

LEMMA SetCounts ==
    ASSUME SInv, Finish, call.op = "set"
    PROVE  \E i \in Items : Timers!Change(i) \/ Timers!SetNow(i)
<1>1. PICK i \in Items, ticks \in Nat :
         i = call.item /\ ticks = call.ticks /\ ticks \in SetTicks[i]
  BY FinishFacts, TicksOfCall
<1>2. PICK cpu \in Nat \ {0}, rate \in Nat \ {0} : cpu = clock_rates["CPU"] /\ rate = clock_rates[Clock[i]]
  BY ClockTyped, RatesTyped
<1>3. PICK now \in Nat : now = Now /\ now < cpu /\ Observed = now
  BY <1>2, FinishFacts
<1>4. PICK from \in Nat : from = muldiv(now, rate, cpu) /\ from < rate
  <2>1. muldiv(now, rate, cpu) \in 0 .. rate - 1
    BY <1>2, <1>3, ConvertedLess
  <2> QED BY <2>1
<1>5. PICK item : item = [sched_items[i] EXCEPT !.tick = from]
  OBVIOUS
<1>6. PICK r : r = Repeated(item, i, ticks, clock_rates)
  OBVIOUS
<1>7. /\ sched_items' = [sched_items EXCEPT ![i] = r]
      /\ clock_rates' = clock_rates /\ sched_update_next_event(now)
  <2>1. /\ sched_items' = [sched_items EXCEPT ![i] =
               Repeated([@ EXCEPT !.tick = from], i, ticks, clock_rates)]
        /\ clock_rates' = clock_rates /\ sched_update_next_event(now)
    BY <1>1, <1>2, <1>3, <1>4 DEF Finish, Rate
  <2> QED BY <2>1, <1>5, <1>6
<1>8. /\ r.second \in Nat /\ r.tick \in Nat /\ r.second * rate + r.tick = from + ticks
      /\ r.cputick = muldiv(r.tick, cpu, rate) /\ r.second >= 0
  <2>1. item.tick = from
    BY <1>5, ClockTyped DEF ItemsAt, ItemRecord
  <2>2. /\ r.second \in Nat /\ r.tick \in Nat
        /\ r.second * clock_rates[Clock[i]] + r.tick = item.tick + ticks
    BY <1>2, <1>4, <1>6, <2>1, ClockTyped, RepeatedTotal
  <2>3. r.cputick = muldiv(r.tick, cpu, rate)
    BY <1>2, <1>4, <1>6, <2>1, ClockTyped, RepeatedItem
  <2> QED BY <1>2, <2>1, <2>2, <2>3
<1>9. Now' = now /\ SInv' /\ call' = Idle /\ block' = 0
  BY <1>7, FinishFacts, UpdatedNow
<1>10. ASSUME Observed' = now PROVE Timers!Change(i)
  <2>1. /\ Left' = [Left EXCEPT ![i] = Left'[i]]
        /\ Left'[i] = r.second * rate + r.tick - from
    BY <1>2, <1>3, <1>4, <1>7, <1>8, <1>10, OneShows
  <2>2. PICK x : x = r.second * rate + r.tick
    OBVIOUS
  <2>3. x = from + ticks /\ Left'[i] = x - from
    BY <1>8, <2>1, <2>2
  <2> QED BY <2>1, <2>3 DEF Timers!Change
<1>11. CASE next_index' # i
  <2>1. \A j \in Items : j # i => sched_items'[j] = sched_items[j]
    BY <1>7, ClockTyped DEF ItemsAt
  <2>2. now < next_cputick'
    BY <1>3, <1>7, <1>9, <1>11, <2>1, FinishFacts, NextAfter
  <2>3. PICK n \in Nat : n = next_cputick'
    BY <1>9, ObservedIsNext DEF ObservedFacts
  <2> QED BY <1>9, <1>10, <2>2, <2>3, Resumed
<1>12. CASE next_index' = i
  <2>1. /\ sched_items'[i].second = 0 /\ next_cputick' = sched_items'[i].cputick
    <3>1. NextFirst' /\ i # None
      BY <1>9, SchedAssumption DEF SInv
    <3> QED BY <1>12, <3>1 DEF NextFirst, Candidates
  <2>2. sched_items'[i] = r
    BY <1>7, ClockTyped DEF ItemsAt
  <2>3. PICK began \in Nat : began = next_cputick' /\ began = muldiv(r.tick, cpu, rate)
    BY <1>8, <1>9, <2>1, <2>2, ObservedIsNext DEF ObservedFacts
  <2>4. r.second = 0 /\ r.tick = from + ticks
    <3>1. r.second = 0
      BY <2>1, <2>2
    <3> QED BY <3>1, <1>2, <1>8
  <2>5. CASE now <= began
    BY <1>9, <1>10, <2>3, <2>5, Resumed
  <2>6. CASE began < now
    <3>1. ticks = 0 /\ r.tick = from
      <4>1. ~(from < r.tick)
        <5> SUFFICES ASSUME from < r.tick PROVE FALSE
          OBVIOUS
        <5>1. PICK k \in Nat : k = r.tick
          BY <1>8
        <5>2. muldiv(now, rate, cpu) < k /\ began = muldiv(k, cpu, rate)
          BY <1>4, <2>3, <5>1
        <5>3. now <= began
          BY <5>2, ConvertedAfter
        <5> QED BY <2>6, <5>3
      <4> QED BY <1>8, <2>4, <4>1
    <3>2. Observed' = began
      BY <1>9, <2>3, <2>6, Resumed
    <3>3. PICK new, items, rates : new = sched_items' /\ items = sched_items /\ rates = clock_rates
      OBVIOUS
    <3>4. /\ rates \in Rates /\ ItemsAt(items, rates) /\ ItemsAt(new, rates)
          /\ new = [items EXCEPT ![i] = r] /\ cpu = rates["CPU"] /\ rate = rates[Clock[i]]
      <4>1. ItemsAt(sched_items', clock_rates')
        <5>1. Typed'
          BY <1>9, TypesOfItemsNext DEF SInv
        <5> QED BY <5>1 DEF Typed
      <4> QED BY <4>1, <1>2, <1>7, <3>3, ClockTyped
    <3>5. PICK l, m : /\ l = LeftAt(items, rates, now) /\ l = Left
                     /\ m = LeftAt(new, rates, began) /\ m = Left'
      BY <1>3, <1>7, <3>2, <3>3, LeftIs, LeftIsNext
    <3>6. SetNowTo(l, m, i)
      <4>1. /\ now < rates["CPU"] /\ from = muldiv(now, rates[Clock[i]], rates["CPU"])
            /\ r.second = 0 /\ r.tick = from
            /\ began = muldiv(from, rates["CPU"], rates[Clock[i]])
        BY <1>1, <1>3, <1>4, <2>3, <2>4, <3>1, <3>4
      <4>2. SetNowTo(LeftAt(items, rates, now), LeftAt(new, rates, began), i)
        BY <2>6, <3>4, <4>1, SetsNow
      <4> QED BY <3>5, <4>2
    <3> QED BY <3>5, <3>6, SetNowIs
  <2> QED BY <1>3, <2>3, <2>5, <2>6
<1> QED BY <1>11, <1>12

\* The clocks change: an item keeps what a u32 holds of the ticks it has to wait.
LEMMA ItemKeepsTicks ==
    ASSUME SInv, NEW rates \in Rates,
           NEW c \in Nat, c < rates["CPU"], NEW i \in Enabled, NEW r,
           r = Repeated([sched_items[i] EXCEPT
                             !.tick = muldiv(c, rates[Clock[i]], rates["CPU"])], i,
                        event_ticks_remaining(i, Now), rates)
    PROVE  \E from \in Nat, left \in Nat :
              /\ from = muldiv(c, rates[Clock[i]], rates["CPU"])
              /\ left = event_ticks_remaining(i, Now)
              /\ r.second \in Nat /\ r.tick \in Nat
              /\ r.cputick = muldiv(r.tick, rates["CPU"], rates[Clock[i]])
              /\ r.second * rates[Clock[i]] + r.tick = from + left
<1>1. i \in Items /\ sched_items[i] \in ItemRecord
  BY ClockTyped DEF Enabled, ItemsAt
<1>2. PICK from \in Nat : /\ from = muldiv(c, rates[Clock[i]], rates["CPU"])
                         /\ from < rates[Clock[i]]
  <2>1. rates[Clock[i]] \in Nat \ {0} /\ rates["CPU"] \in Nat \ {0}
    BY <1>1, RatesTyped
  <2>2. muldiv(c, rates[Clock[i]], rates["CPU"]) \in 0 .. rates[Clock[i]] - 1
    BY <2>1, ConvertedLess
  <2> QED BY <2>1, <2>2
<1>3. PICK left \in Nat : left = event_ticks_remaining(i, Now)
  <2>1. PICK t \in Int : t = Ticks(i, Now)
    BY <1>1, TicksNow
  <2>2. Word \in Nat \ {0}
    BY SchedAssumption
  <2>3. t % Word \in Nat
    BY <2>1, <2>2
  <2> QED BY <2>1, <2>3 DEF event_ticks_remaining
<1>4. PICK item : item = [sched_items[i] EXCEPT !.tick = from]
  OBVIOUS
<1>5. item.tick = from /\ r = Repeated(item, i, left, rates)
  BY <1>1, <1>2, <1>3, <1>4 DEF ItemRecord
<1>6. /\ r.second \in Nat /\ r.tick \in Nat
      /\ r.second * rates[Clock[i]] + r.tick = from + left
  BY <1>1, <1>2, <1>5, RepeatedTotal
<1>7. r.cputick = muldiv(r.tick, rates["CPU"], rates[Clock[i]])
  BY <1>1, <1>2, <1>5, RepeatedItem
<1> QED BY <1>2, <1>3, <1>6, <1>7

\* The rates, the time and the items that sched_set_clocks() leaves.
ClocksChanged(rates, cpu, c, now) ==
    /\ cpu = rates["CPU"] /\ c < cpu /\ now = Now /\ Observed = now
    /\ clock_rates' = rates /\ sched_update_next_event(c)
    /\ \A i \in Items \ Enabled :
          ~(sched_items[i].second >= 0) /\ ~(sched_items'[i].second >= 0)
    /\ \A i \in Enabled :
          \E from \in Nat, left \in Nat, s \in Nat, k \in Nat :
             /\ from = muldiv(c, rates[Clock[i]], cpu) /\ left = event_ticks_remaining(i, now)
             /\ s = sched_items'[i].second /\ k = sched_items'[i].tick
             /\ sched_items'[i].cputick = muldiv(k, cpu, rates[Clock[i]])
             /\ s * rates[Clock[i]] + k = from + left

LEMMA ClocksAre ==
    ASSUME SInv, Finish, call.op = "clocks"
    PROVE  \E rates \in Rates, cpu \in Nat \ {0}, c \in Nat, now \in Nat :
              ClocksChanged(rates, cpu, c, now)
<1>1. PICK rates \in Rates : rates = call.rates
  BY FinishFacts, CallTyped
<1>2. PICK cpu \in Nat \ {0} : cpu = rates["CPU"]
  BY RatesTyped
<1>3. PICK now \in Nat : now = Now /\ Observed = now /\ now < clock_rates["CPU"]
  BY FinishFacts
<1>4. PICK c \in Nat : c = muldiv(now, cpu, clock_rates["CPU"]) /\ c < cpu
  <2>1. muldiv(now, cpu, clock_rates["CPU"]) \in 0 .. cpu - 1
    BY <1>2, <1>3, ClockTyped, ConvertedLess
  <2> QED BY <2>1
<1>5. /\ clock_rates' = rates /\ sched_update_next_event(c)
      /\ sched_items' = [i \in Items |->
             IF i \in Enabled
             THEN Repeated([sched_items[i] EXCEPT
                               !.tick = muldiv(c, rates[Clock[i]], cpu)], i,
                           event_ticks_remaining(i, now), rates)
             ELSE sched_items[i]]
  <2>1. SetClocks(rates)
    BY <1>1 DEF Finish
  <2> QED BY <2>1, <1>2, <1>3, <1>4 DEF SetClocks
<1>6. ASSUME NEW i \in Enabled
      PROVE  \E from \in Nat, left \in Nat, s \in Nat, k \in Nat :
                /\ from = muldiv(c, rates[Clock[i]], cpu) /\ left = event_ticks_remaining(i, now)
                /\ s = sched_items'[i].second /\ k = sched_items'[i].tick
                /\ sched_items'[i].cputick = muldiv(k, cpu, rates[Clock[i]])
                /\ s * rates[Clock[i]] + k = from + left
  <2>1. PICK r : r = sched_items'[i]
    OBVIOUS
  <2>2. i \in Items
    BY DEF Enabled
  <2>3. r = Repeated([sched_items[i] EXCEPT
                          !.tick = muldiv(c, rates[Clock[i]], rates["CPU"])], i,
                     event_ticks_remaining(i, Now), rates)
    BY <1>2, <1>3, <1>5, <2>1, <2>2
  <2>4. PICK from \in Nat, left \in Nat :
           /\ from = muldiv(c, rates[Clock[i]], rates["CPU"])
           /\ left = event_ticks_remaining(i, Now)
           /\ r.second \in Nat /\ r.tick \in Nat
           /\ r.cputick = muldiv(r.tick, rates["CPU"], rates[Clock[i]])
           /\ r.second * rates[Clock[i]] + r.tick = from + left
    BY <1>2, <1>4, <2>3, ItemKeepsTicks
  <2> QED BY <1>2, <1>3, <2>1, <2>4
<1>7. ASSUME NEW i \in Items \ Enabled
      PROVE  ~(sched_items[i].second >= 0) /\ ~(sched_items'[i].second >= 0)
  BY <1>5 DEF Enabled
<1>8. ClocksChanged(rates, cpu, c, now)
  BY <1>2, <1>3, <1>4, <1>5, <1>6, <1>7 DEF ClocksChanged
<1> QED BY <1>8

\* What a device sees of the time then: it goes on, unless an event that was a
\* multiple of 2^32 ticks away is set for now.
LEMMA ClocksObserved ==
    ASSUME SInv, Finish, NEW rates \in Rates, NEW cpu \in Nat \ {0}, NEW c \in Nat,
           NEW now \in Nat, ClocksChanged(rates, cpu, c, now)
    PROVE  \E o \in Nat :
              /\ o = Observed' /\ o <= c
              /\ (\A i \in Enabled : event_ticks_remaining(i, now) >= 1) => o = c
              /\ \A j \in Items : muldiv(c, rates[Clock[j]], cpu)
                                    - muldiv(o, rates[Clock[j]], cpu) \in 0 .. MaxAgain
<1>1. NextFirst' /\ next_index' \in Items \cup {None} /\ clock_rates' = rates /\ cpu = rates["CPU"]
      /\ c < cpu
  <2>1. Typed' /\ NextFirst'
    BY FinishFacts, TypesOfItemsNext DEF SInv
  <2> QED BY <2>1 DEF Typed, ClocksChanged
<1>2. Now' = c
  BY FinishFacts, UpdatedNow DEF ClocksChanged
<1>3. PICK n \in Nat : n = next_cputick'
  BY FinishFacts, ObservedIsNext DEF ObservedFacts
<1>4. ASSUME c <= n PROVE Observed' = c
  BY <1>2, <1>3, <1>4, FinishFacts, Resumed
<1>5. MaxAgain \in Nat
  <2>1. PICK S \in SUBSET (1 .. Word) : MaxAgain = Cardinality(S)
    BY Zenon DEF MaxAgain
  <2>2. 1 .. 0 \subseteq S
    OBVIOUS
  <2> QED BY <2>1, <2>2, Counted
<1>6. CASE c <= n
  <2>1. ASSUME NEW j \in Items
        PROVE  muldiv(c, rates[Clock[j]], cpu) - muldiv(c, rates[Clock[j]], cpu) \in 0 .. MaxAgain
    <3>1. PICK x \in Nat : x = muldiv(c, rates[Clock[j]], cpu)
      <4>1. rates[Clock[j]] \in Nat \ {0}
        BY RatesTyped
      <4>2. muldiv(c, rates[Clock[j]], cpu) \in 0 .. rates[Clock[j]] - 1
        BY <1>1, <4>1, ConvertedLess
      <4> QED BY <4>1, <4>2
    <3>2. x - x \in 0 .. MaxAgain
      BY <1>5
    <3> QED BY <3>1, <3>2
  <2> QED BY <1>4, <1>6, <2>1
<1>7. CASE n < c
  <2>1. PICK i \in Items : i = next_index' /\ i # None
    <3>1. next_index' # None
      BY <1>1, <1>3, <1>7 DEF NextFirst
    <3> QED BY <1>1, <3>1
  <2>2. sched_items'[i].second = 0 /\ next_cputick' = sched_items'[i].cputick
    BY <1>1, <2>1 DEF NextFirst, Candidates
  <2>3. i \in Enabled
    BY <2>2 DEF ClocksChanged
  <2>4. PICK from \in Nat, left \in Nat, s \in Nat, k \in Nat :
           /\ from = muldiv(c, rates[Clock[i]], cpu) /\ left = event_ticks_remaining(i, now)
           /\ s = sched_items'[i].second
           /\ sched_items'[i].cputick = muldiv(k, cpu, rates[Clock[i]])
           /\ s * rates[Clock[i]] + k = from + left
    BY <2>3 DEF ClocksChanged
  <2>5. PICK rate \in Nat \ {0} : rate = rates[Clock[i]]
    BY RatesTyped
  <2>6. k = from + left
    <3>1. s = 0
      BY <2>2, <2>4
    <3> QED BY <2>4, <2>5, <3>1
  <2>7. n = muldiv(k, cpu, rate)
    BY <1>3, <2>2, <2>4, <2>5
  <2>8. left = 0 /\ k = from
    <3>1. ~(from < k)
      <4> SUFFICES ASSUME from < k PROVE FALSE
        OBVIOUS
      <4>1. muldiv(c, rate, cpu) < k
        BY <2>4, <2>5
      <4>2. c <= muldiv(k, cpu, rate)
        BY <4>1, ConvertedAfter
      <4> QED BY <1>7, <2>7, <4>2
    <3> QED BY <2>6, <3>1
  <2>9. Observed' = n
    BY <1>2, <1>3, <1>7, FinishFacts, Resumed
  <2>10. ASSUME NEW j \in Items
         PROVE  muldiv(c, rates[Clock[j]], cpu) - muldiv(n, rates[Clock[j]], cpu) \in 0 .. MaxAgain
    <3>1. PICK q \in Nat \ {0} : q = rates[Clock[j]]
      BY RatesTyped
    <3>2. PICK x \in Nat, y \in Nat : x = muldiv(n, q, cpu) /\ y = muldiv(c, q, cpu) /\ x <= y
      <4>1. /\ muldiv(n, q, cpu) \in Nat /\ muldiv(c, q, cpu) \in Nat
            /\ muldiv(n, q, cpu) <= muldiv(c, q, cpu)
        <5>1. n <= c
          BY <1>7
        <5> QED BY <5>1, ConvertedLeq
      <4> QED BY <4>1
    <3>3. MaxAgain \in Nat /\ y - x <= MaxAgain
      <4>1. n = muldiv(muldiv(c, rates[Clock[i]], rates["CPU"]), rates["CPU"], rates[Clock[i]])
        BY <1>1, <2>4, <2>5, <2>7, <2>8
      <4>2. c < rates["CPU"]
        BY <1>1
      <4>3. /\ MaxAgain \in Nat
            /\ muldiv(c, rates[Clock[j]], rates["CPU"])
                 - muldiv(n, rates[Clock[j]], rates["CPU"]) <= MaxAgain
        BY <4>1, <4>2, WithinAgain
      <4> QED BY <1>1, <3>1, <3>2, <4>3
    <3> QED BY <3>1, <3>2, <3>3
  <2>11. n <= c /\ ~(event_ticks_remaining(i, now) >= 1)
    BY <1>7, <2>4, <2>8
  <2> QED BY <1>3, <2>3, <2>9, <2>10, <2>11
<1> QED BY <1>3, <1>6, <1>7

\* What is left of an item then, at the time that a device sees.
LEMMA LeftAfterClocks ==
    ASSUME SInv, Finish, NEW rates \in Rates, NEW cpu \in Nat \ {0}, NEW c \in Nat,
           NEW now \in Nat, ClocksChanged(rates, cpu, c, now), NEW i \in Enabled, NEW o \in Nat
    PROVE  /\ sched_items'[i].second >= 0
           /\ TicksAt(sched_items', clock_rates', i, o)
                = event_ticks_remaining(i, now)
                    + (muldiv(c, rates[Clock[i]], cpu) - muldiv(o, rates[Clock[i]], cpu))
           /\ event_ticks_remaining(i, now) \in Nat
<1>1. PICK from \in Nat, left \in Nat, s \in Nat, k \in Nat :
         /\ from = muldiv(c, rates[Clock[i]], cpu) /\ left = event_ticks_remaining(i, now)
         /\ s = sched_items'[i].second /\ k = sched_items'[i].tick
         /\ s * rates[Clock[i]] + k = from + left
  BY DEF ClocksChanged
<1>2. clock_rates' = rates /\ cpu = rates["CPU"]
  BY DEF ClocksChanged
<1>3. PICK rate \in Nat \ {0} : rate = rates[Clock[i]]
  BY RatesTyped DEF Enabled
<1>4. PICK y \in Nat : y = muldiv(o, rate, cpu)
  <2>1. muldiv(o, rate, cpu) \in Nat
    <3>1. o <= o
      OBVIOUS
    <3> QED BY <3>1, ConvertedLeq
  <2> QED BY <2>1
<1>5. TicksAt(sched_items', clock_rates', i, o) = s * rate + k - y
  BY <1>1, <1>2, <1>3, <1>4, Zenon DEF TicksAt
<1>6. PICK p \in Nat : p = s * rate
  BY Product
<1>7. p + k - y = left + (from - y)
  <2>1. p + k = from + left
    BY <1>1, <1>3, <1>6
  <2> QED BY <2>1
<1> QED BY <1>1, <1>3, <1>4, <1>5, <1>6, <1>7

LEMMA ClocksCounts ==
    ASSUME SInv, Finish, call.op = "clocks"
    PROVE  Left' = Left \/ Timers!Wrap
<1>1. PICK rates \in Rates, cpu \in Nat \ {0}, c \in Nat, now \in Nat :
         ClocksChanged(rates, cpu, c, now)
  BY ClocksAre
<1>2. PICK o \in Nat :
         /\ o = Observed' /\ o <= c
         /\ (\A i \in Enabled : event_ticks_remaining(i, now) >= 1) => o = c
         /\ \A j \in Items : muldiv(c, rates[Clock[j]], cpu)
                               - muldiv(o, rates[Clock[j]], cpu) \in 0 .. MaxAgain
  BY <1>1, ClocksObserved
<1>3. now = Now /\ Observed = now
  BY <1>1 DEF ClocksChanged
<1>4. Word \in Nat \ {0} /\ None \notin Int
  BY SchedAssumption
<1>5. Enabled \subseteq Items
  BY DEF Enabled
<1>6. PICK l, m : l = Left /\ m = Left'
  OBVIOUS
<1>7. ASSUME NEW i \in Items
      PROVE  /\ i \notin Enabled => l[i] = None /\ m[i] = None
             /\ i \in Enabled => \E t \in Int, left \in Nat, d \in 0 .. MaxAgain :
                                    /\ t = Ticks(i, now) /\ t >= 1 /\ l[i] = t
                                    /\ left = t % Word /\ left = event_ticks_remaining(i, now)
                                    /\ (o = c => d = 0)
                                    /\ m[i] = left + d
  <2>1. /\ l = LeftAt(sched_items, clock_rates, now)
        /\ m = LeftAt(sched_items', clock_rates', o)
    BY <1>2, <1>3, <1>6, LeftIs, LeftIsNext
  <2>2. ASSUME i \notin Enabled PROVE l[i] = None /\ m[i] = None
    <3>1. ~(sched_items[i].second >= 0) /\ ~(sched_items'[i].second >= 0)
      BY <1>1, <2>2 DEF ClocksChanged
    <3> QED BY <2>1, <3>1 DEF LeftAt
  <2>3. ASSUME i \in Enabled
        PROVE  \E t \in Int, left \in Nat, d \in 0 .. MaxAgain :
                  /\ t = Ticks(i, now) /\ t >= 1 /\ l[i] = t
                  /\ left = t % Word /\ left = event_ticks_remaining(i, now)
                  /\ (o = c => d = 0)
                  /\ m[i] = left + d
    <3>1. PICK t \in Int : t = Ticks(i, now)
      BY <1>3, <2>3, TicksNow
    <3>2. t >= 1
      BY <1>3, <2>3, <3>1, FinishFacts, NoneMissedInv DEF NoneMissed
    <3>3. sched_items[i].second >= 0
      BY <2>3 DEF Enabled
    <3>4. l[i] = t
      BY <2>1, <3>1, <3>3 DEF LeftAt, TicksAt, Ticks, Rate
    <3>5. PICK left \in Nat : left = event_ticks_remaining(i, now)
      BY <1>1, <2>3, LeftAfterClocks
    <3>6. left = t % Word
      BY <3>1, <3>5 DEF event_ticks_remaining
    <3>7. PICK d \in 0 .. MaxAgain :
             d = muldiv(c, rates[Clock[i]], cpu) - muldiv(o, rates[Clock[i]], cpu)
      BY <1>2
    <3>8. o = c => d = 0
      <4>1. PICK x \in Nat : x = muldiv(c, rates[Clock[i]], cpu)
        <5>1. rates[Clock[i]] \in Nat \ {0}
          BY RatesTyped
        <5>2. c <= c
          OBVIOUS
        <5>3. muldiv(c, rates[Clock[i]], cpu) \in Nat
          BY <5>1, <5>2, ConvertedLeq
        <5> QED BY <5>3
      <4> QED BY <3>7, <4>1
    <3>9. m[i] = left + d
      BY <1>1, <2>1, <2>3, <3>5, <3>7, LeftAfterClocks DEF LeftAt
    <3> QED BY <3>1, <3>2, <3>4, <3>5, <3>6, <3>8, <3>9
  <2> QED BY <2>2, <2>3
<1>8. CASE \A i \in Enabled : Ticks(i, now) < Word
  <2>1. ASSUME NEW i \in Enabled PROVE event_ticks_remaining(i, now) >= 1
    <3>1. PICK t \in Int, left \in Nat : /\ t = Ticks(i, now) /\ t >= 1 /\ left = t % Word
                                        /\ left = event_ticks_remaining(i, now)
      BY <1>5, <1>7
    <3>2. t < Word
      BY <1>8, <3>1
    <3>3. t % Word = t
      BY <1>4, <3>1, <3>2
    <3> QED BY <3>1, <3>3
  <2>2. o = c
    BY <1>2, <2>1
  <2>3. ASSUME NEW i \in Items PROVE l[i] = m[i]
    <3>1. CASE i \notin Enabled
      BY <1>7, <3>1
    <3>2. CASE i \in Enabled
      <4>1. PICK t \in Int, left \in Nat, d \in 0 .. MaxAgain :
               /\ t = Ticks(i, now) /\ t >= 1 /\ l[i] = t
               /\ left = t % Word /\ d = 0 /\ m[i] = left + d
        BY <1>7, <2>2, <3>2
      <4>2. t < Word
        BY <1>8, <3>2, <4>1
      <4>3. t % Word = t
        BY <1>4, <4>1, <4>2
      <4> QED BY <4>1, <4>3
    <3> QED BY <3>1, <3>2
  <2>4. /\ l = [i \in Items |-> l[i]] /\ m = [i \in Items |-> m[i]]
    BY <1>6, LeftIs, LeftIsNext DEF LeftAt
  <2> QED BY <1>6, <2>3, <2>4
<1>9. CASE \E i \in Enabled : ~(Ticks(i, now) < Word)
  <2>1. \A i \in Items : i \in Enabled <=> l[i] # None
    BY <1>4, <1>7
  <2>2. ASSUME NEW i \in Enabled, ~(Ticks(i, now) < Word)
        PROVE  l[i] # None /\ l[i] >= Word
    <3>1. PICK t \in Int : t = Ticks(i, now) /\ l[i] = t
      BY <1>5, <1>7
    <3> QED BY <1>4, <2>2, <3>1
  <2>3. ASSUME NEW i \in Items
        PROVE  /\ m[i] \in Int \cup {None}
               /\ l[i] # None => m[i] # None /\ m[i] - (l[i] % Word) \in 0 .. MaxAgain
               /\ l[i] = None => m[i] = None
    <3>1. CASE i \notin Enabled
      BY <1>7, <3>1
    <3>2. CASE i \in Enabled
      <4>1. PICK t \in Int, left \in Nat, d \in 0 .. MaxAgain :
               l[i] = t /\ left = t % Word /\ m[i] = left + d
        BY <1>7, <3>2
      <4>2. left + d \in Int /\ left + d - left = d
        OBVIOUS
      <4> QED BY <1>4, <4>1, <4>2
    <3> QED BY <3>1, <3>2
  <2>4. m \in [Items -> Int \cup {None}]
    <3>1. m = [i \in Items |-> m[i]]
      BY <1>6, LeftIsNext DEF LeftAt
    <3> QED BY <2>3, <3>1
  <2>5. \E i \in Items : l[i] # None /\ l[i] >= Word
    BY <1>5, <1>9, <2>2
  <2>6. Timers!Wrap
    BY <1>6, <2>3, <2>4, <2>5 DEF Timers!Wrap, Timers!Running
  <2> QED BY <2>6
<1> QED BY <1>8, <1>9

----------------------------------------------------------------------------
(***************************************************************************)
(* The refinement.                                                         *)
(***************************************************************************)

LEMMA NothingLeft ==
    ASSUME NEW items, items = [i \in Items |->
               [second |-> IF i \in AtReset THEN 0 ELSE -1, tick |-> 0, cputick |-> 0]]
    PROVE  LeftAt(items, ResetRates, 0) \in [Items -> {None, 0}]
<1>1. ASSUME NEW i \in Items, items[i].second >= 0 PROVE TicksAt(items, ResetRates, i, 0) = 0
  <2>1. PICK rate \in Nat \ {0}, cpu \in Nat \ {0} : rate = ResetRates[Clock[i]] /\ cpu = ResetRates["CPU"]
    BY SchedAssumption, RatesTyped
  <2>2. muldiv(0, rate, cpu) = 0
    <3>1. PICK q \in Nat : q = 0 \div cpu /\ cpu * q <= 0
      BY Quotient
    <3>2. q = 0 /\ 0 * rate = 0
      BY <3>1
    <3> QED BY <3>1, <3>2 DEF muldiv
  <2>3. items[i].second = 0 /\ items[i].tick = 0
    BY <1>1
  <2>4. 0 * rate + 0 - 0 = 0
    OBVIOUS
  <2> QED BY <2>1, <2>2, <2>3, <2>4 DEF TicksAt
<1> QED BY <1>1 DEF LeftAt

LEMMA InitCounts == ASSUME Init PROVE Timers!Init
<1>1. SInv /\ call # Idle /\ clock_rates = ResetRates
  BY InitSInv DEF Init, Loop, Idle
<1>2. PICK items : /\ items = sched_items
                  /\ items = [i \in Items |->
                        [second |-> IF i \in AtReset THEN 0 ELSE -1, tick |-> 0, cputick |-> 0]]
  BY DEF Init
<1>3. Observed = 0
  <2>1. Now = 0
    <3>1. PICK n \in Nat : n = next_cputick
      BY <1>1, ClockTyped
    <3>2. Now = n + (-n)
      BY <3>1 DEF Init, Now
    <3> QED BY <3>2
  <2> QED BY <1>1, <2>1, ObservedIs DEF ObservedFacts
<1>4. LeftAt(items, ResetRates, 0) \in [Items -> {None, 0}]
  BY <1>2, NothingLeft
<1>5. Left = LeftAt(items, ResetRates, 0)
  BY <1>1, <1>2, <1>3, LeftIs
<1> QED BY <1>4, <1>5 DEF Timers!Init

LEMMA ResetCounts == ASSUME SchedReset PROVE Timers!Reset
<1>1. SInv' /\ call' = Loop /\ call' # Idle /\ clock_rates' = ResetRates
  BY SchedResetInv DEF SchedReset, Loop, Idle
<1>2. PICK items : /\ items = sched_items'
                  /\ items = [i \in Items |->
                        [second |-> IF i \in AtReset THEN 0 ELSE -1, tick |-> 0, cputick |-> 0]]
  BY DEF SchedReset
<1>3. Observed' = 0
  <2>1. Now' = 0
    <3>1. sched_update_next_event(0)
      BY DEF SchedReset
    <3> QED BY <1>1, <3>1, UpdatedNow
  <2> QED BY <1>1, <2>1, ObservedIsNext DEF ObservedFacts
<1>4. LeftAt(items, ResetRates, 0) \in [Items -> {None, 0}]
  BY <1>2, NothingLeft
<1>5. Left' = LeftAt(items, ResetRates, 0)
  BY <1>1, <1>2, <1>3, LeftIsNext
<1> QED BY <1>4, <1>5 DEF Timers!Reset

\* Each step of the scheduler is a step of its countdowns, or leaves them alone.
LEMMA StepCounts ==
    ASSUME SInv, [Next]_schedVars
    PROVE  [Timers!Next]_Left
<1>1. SInv'
  BY SchedStepInv
<1>2. CASE Execute \/ Fault \/ MainLoop \/ \E c \in Requests : Request(c)
  BY <1>1, <1>2, TimeMoves DEF Timers!Next
<1>3. CASE NewSecond
  BY <1>3, SecondsDoNotShow
<1>4. ASSUME NEW i \in Items, NEW ticks \in Repeats[i] \cup {None}, Fire(i, ticks)
      PROVE  [Timers!Next]_Left
  <2>1. Timers!Fire(i)
    BY <1>4, EventCounts
  <2> QED BY <2>1 DEF Timers!Next
<1>5. CASE Finish
  <2>1. call.op \in {"loop", "remaining", "set", "clear", "clocks"}
    BY <1>5 DEF Finish
  <2>2. CASE call.op \in {"loop", "remaining"}
    BY <1>5, <2>2, ReturnCounts
  <2>3. CASE call.op = "set"
    BY <1>5, <2>3, SetCounts DEF Timers!Next
  <2>4. CASE call.op = "clear"
    BY <1>5, <2>4, ClearCounts DEF Timers!Next
  <2>5. CASE call.op = "clocks"
    BY <1>5, <2>5, ClocksCounts DEF Timers!Next
  <2> QED BY <2>1, <2>2, <2>3, <2>4, <2>5
<1>6. CASE UNCHANGED schedVars
  <2>1. /\ clock_rates' = clock_rates /\ sched_items' = sched_items
        /\ next_cputick' = next_cputick /\ cycle_count_delta' = cycle_count_delta
        /\ call' = call /\ block' = block
    BY <1>6 DEF schedVars
  <2>2. Observed' = Observed
    BY <2>1 DEF Observed, Now
  <2> QED BY <2>1, <2>2, LeftIs, LeftIsNext
<1> QED BY <1>2, <1>3, <1>4, <1>5, <1>6 DEF Next, Turn

\* Whatever the watchdog does is a step of the scheduler, or its reset.
LEMMA WatchdogIsSched ==
    ASSUME IInv, [WNext]_vars
    PROVE  [Next]_schedVars \/ SchedReset
<1>1. /\ Execute \/ Fault \/ MainLoop \/ Turn \/ Finish => Next
      /\ \A c \in Requests : Request(c) => Next
  BY DEF Next
<1>2. ASSUME NEW i \in Items, NEW ticks \in Repeats[i] \cup {None}, Fire(i, ticks) PROVE Next
  BY <1>1, <1>2 DEF Turn
<1>3. CASE Elsewhere
  <2>1. NewSecond => Next
    BY <1>1 DEF Turn
  <2> QED BY <1>1, <1>2, <1>3, <2>1 DEF Elsewhere, OtherRequests
<1>4. CASE Timeout
  <2>1. Fire(WATCHDOG, None) \/ Fire(WATCHDOG, load)
    BY <1>4 DEF Timeout
  <2>2. CASE Fire(WATCHDOG, None)
    BY <1>2, <2>2, DogConstants
  <2>3. CASE Fire(WATCHDOG, load)
    <3>1. load \in Nat
      BY Typing, DogConstants DEF DogTypes
    <3>2. Dog
      BY <2>3, <3>1, Typing, DogConstants, FireInv DEF Dog
    <3>3. load \in Repeats[WATCHDOG]
      BY <3>2, Typing, WatchdogAssumption DEF DogInv, DogTypes
    <3> QED BY <1>2, <2>3, <3>3, DogConstants
  <2> QED BY <2>1, <2>2, <2>3
<1>5. CASE Return
  BY <1>1, <1>5 DEF Return
<1>6. ASSUME NEW l \in Loads \ {0}, Reload(l) PROVE Next
  <2>1. PICK c : c = [op |-> "set", item |-> WATCHDOG, ticks |-> l]
    OBVIOUS
  <2>2. c \in [op : {"set"}, item : {WATCHDOG}, ticks : SetTicks[WATCHDOG]]
    BY <2>1, DogConstants
  <2>3. c \in Requests
    BY <2>2, DogConstants DEF Requests
  <2>4. Request(c)
    BY <1>6, <2>1 DEF Reload
  <2> QED BY <1>1, <2>3, <2>4
<1>7. ASSUME Request([op |-> "clear", item |-> WATCHDOG]) PROVE Next
  <2>1. PICK c : c = [op |-> "clear", item |-> WATCHDOG]
    OBVIOUS
  <2>2. c \in [op : {"clear", "remaining"}, item : Items]
    BY <2>1, DogConstants
  <2>3. c \in Requests
    BY <2>2 DEF Requests
  <2> QED BY <1>1, <1>7, <2>1, <2>3
<1>8. CASE Write
  <2>1. ASSUME NEW l \in Loads, WriteLoad(l) PROVE Next \/ UNCHANGED schedVars
    <3>1. CASE control.run
      <4>1. l # 0 /\ Reload(l)
        BY <2>1, <3>1 DEF WriteLoad
      <4> QED BY <1>6, <4>1
    <3>2. CASE ~control.run
      BY <2>1, <3>2 DEF WriteLoad
    <3> QED BY <3>1, <3>2
  <2>2. load \in Loads /\ (control.run => load # 0)
    BY Typing DEF DogTypes, DogInv
  <2>3. ASSUME NEW bits \in Bits, WriteControl(bits) PROVE Next \/ UNCHANGED schedVars
    <3>1. CASE bits.run /\ ~control.run /\ Reload(load)
      <4>1. load # 0
        BY <2>3, <3>1 DEF WriteControl
      <4> QED BY <1>6, <2>2, <3>1, <4>1
    <3>2. CASE Request([op |-> "clear", item |-> WATCHDOG])
      BY <1>7, <3>2
    <3>3. CASE UNCHANGED <<schedVars, after>>
      BY <3>3
    <3> QED BY <2>3, <3>1, <3>2, <3>3 DEF WriteControl
  <2>4. CASE WriteClear
    BY <1>6, <2>2, <2>4 DEF WriteClear
  <2> QED BY <1>8, <2>1, <2>3, <2>4 DEF Write
<1>9. CASE WriteLock
  BY <1>9 DEF WriteLock
<1>10. CASE Reset \/ PeriodZero
  BY <1>10 DEF Reset, PeriodZero
<1>11. CASE UNCHANGED vars
  BY <1>11 DEF vars
<1> QED BY <1>3, <1>4, <1>5, <1>8, <1>9, <1>10, <1>11 DEF WNext

\* The scheduler is a set of countdowns of ticks, on whatever clocks and across
\* seconds, changed rates, blocks given back and resets: an event comes at most
\* MaxSlack ticks early, one that repeats does so from when it was due, an event
\* that is set for 0 ticks adds at most MaxAgain to the others, and a change of
\* the clocks takes 2^32 ticks, or a multiple, from an event that has to wait for
\* more, and nothing from one that has not.
THEOREM SchedulerCountsDown == (Spec => CountsDown) /\ (WSpec => CountsDown)
<1>1. Init => Timers!Init
  BY InitCounts
<1>2. WInit => Timers!Init
  BY InitCounts DEF WInit
<1>3. SInv /\ [Next]_schedVars => [Timers!Next]_Left
  BY StepCounts
<1>4. IInv /\ [WNext]_vars => [Timers!Next]_Left
  <2> SUFFICES ASSUME IInv, [WNext]_vars PROVE [Timers!Next]_Left
    OBVIOUS
  <2>1. SInv
    BY Typing
  <2>2. SchedReset => [Timers!Next]_Left
    BY ResetCounts DEF Timers!Next
  <2> QED BY <2>1, <2>2, <1>3, WatchdogIsSched
<1>5. Spec => CountsDown
  BY <1>1, <1>3, SchedAlways, PTL DEF Spec, CountsDown, Timers!Spec
<1>6. WSpec => CountsDown
  BY <1>2, <1>4, WAlways, PTL DEF WSpec, CountsDown, Timers!Spec
<1> QED BY <1>5, <1>6

=============================================================================
