----------------------------- MODULE IntCtlProofs -----------------------------
(***************************************************************************)
(* The lines of the CPU tell the pending interrupts, for any sources,      *)
(* priorities and limits that the registers hold.                          *)
(***************************************************************************)
EXTENDS IntCtl, TLAPS, WellFoundedInduction

\* What the registers of the classic controller hold.
Registers ==
    /\ emulate_cx \in BOOLEAN
    /\ sticky_status \subseteq Sources
    /\ status \subseteq Sources
    /\ mask \in [Fiq -> SUBSET Sources]
    /\ priority \in [Sources -> 0..7]
    /\ priority_limit \in [Fiq -> 0..15]

IInv == Registers /\ LinesTellPending

----------------------------------------------------------------------------
(***************************************************************************)
(* Some interrupt is current whenever one is eligible.                     *)
(***************************************************************************)

LEMMA LeastNatural ==
    ASSUME NEW T \in SUBSET Nat, T # {}
    PROVE  \E m \in T : \A k \in T : m <= k
<1>1. PICK m \in T : \A k \in T : ~(<<k, m>> \in OpToRel(<, Nat))
  BY NatLessThanWellFounded, WFMin, Zenon
<1>2. \A k \in T : ~(k < m)
  BY <1>1, Zenon DEF OpToRel
<1> QED BY <1>2

\* get_current_int() finds an interrupt if there is one, the most urgent.
LEMMA CurrentIsEligible ==
    ASSUME Registers, NEW q \in Fiq, NEW default, Eligible(q) # {}
    PROVE  get_current_int(q, default) \in Eligible(q)
<1>1. Eligible(q) \in SUBSET Sources
  BY DEF Eligible, Registers
<1>2. Sources \in SUBSET Nat
  BY IntCtlAssumption
<1>3. \A s \in Eligible(q) : priority[s] \in Nat
  BY <1>1 DEF Registers
<1>4. PICK p \in {priority[s] : s \in Eligible(q)} :
               \A r \in {priority[s] : s \in Eligible(q)} : p <= r
  <2>1. {priority[s] : s \in Eligible(q)} \in SUBSET Nat
    BY <1>3
  <2>2. {priority[s] : s \in Eligible(q)} # {}
    OBVIOUS
  <2> QED BY <2>1, <2>2, LeastNatural
<1>5. PICK s \in {t \in Eligible(q) : priority[t] = p} :
               \A t \in {u \in Eligible(q) : priority[u] = p} : s <= t
  <2>1. {t \in Eligible(q) : priority[t] = p} \in SUBSET Nat
    BY <1>1, <1>2
  <2>2. {t \in Eligible(q) : priority[t] = p} # {}
    BY <1>4
  <2> QED BY <2>1, <2>2, LeastNatural
<1>6. \A t \in Eligible(q) :
          priority[s] < priority[t] \/ (priority[s] = priority[t] /\ s <= t)
  <2> SUFFICES ASSUME NEW t \in Eligible(q)
               PROVE  priority[s] < priority[t] \/ (priority[s] = priority[t] /\ s <= t)
    OBVIOUS
  <2>1. priority[s] = p /\ p <= priority[t]
    BY <1>4, <1>5
  <2>2. CASE priority[t] = p
    BY <2>1, <2>2, <1>5
  <2>3. CASE priority[t] # p
    BY <2>1, <2>3, <1>3, <1>5
  <2> QED BY <2>2, <2>3
<1> QED BY <1>5, <1>6 DEF get_current_int

\* It is one of the sources, if only interrupt 0.
LEMMA CurrentIsSource ==
    ASSUME Registers, NEW q \in Fiq
    PROVE  get_current_int(q, 0) \in Sources
<1>1. CASE Eligible(q) = {}
  BY <1>1, IntCtlAssumption DEF get_current_int
<1>2. CASE Eligible(q) # {}
  BY <1>2, CurrentIsEligible DEF Eligible, Registers
<1> QED BY <1>1, <1>2

----------------------------------------------------------------------------
(***************************************************************************)
(* Updates raise every line that is due.                                   *)
(***************************************************************************)

LEMMA UpdateTells ==
    ASSUME NEW left \in SUBSET Sources, update(left), ~emulate_cx, ~emulate_cx',
           sticky_status \subseteq Sources
    PROVE  LinesTellPending' /\ status' \subseteq Sources /\ sticky_status' \subseteq Sources
BY DEF update, LinesTellPending

LEMMA UpdateCxTells ==
    ASSUME update_cx, emulate_cx, emulate_cx'
    PROVE  LinesTellPending'
BY DEF update_cx, LinesTellPending

----------------------------------------------------------------------------
(***************************************************************************)
(* The invariant.                                                          *)
(***************************************************************************)

LEMMA InitInv == Init => IInv
BY DEF Init, IInv, Registers, LinesTellPending, Eligible, CxLines, Fiq

\* A step that only rewrites the registers and updates keeps the invariant.
LEMMA UpdatedInv ==
    ASSUME IInv, UNCHANGED emulate_cx,
           NEW left \in SUBSET Sources,
           mask' \in [Fiq -> SUBSET Sources], priority' \in [Sources -> 0..7],
           priority_limit' \in [Fiq -> 0..15],
           IF emulate_cx THEN update_cx ELSE update(left)
    PROVE  IInv'
<1>1. CASE emulate_cx
  <2>1. LinesTellPending'
    BY <1>1, UpdateCxTells
  <2> QED BY <1>1, <2>1 DEF IInv, Registers, update_cx
<1>2. CASE ~emulate_cx
  BY <1>2, UpdateTells DEF IInv, Registers
<1> QED BY <1>1, <1>2

LEMMA DevicesInv ==
    ASSUME IInv, NEW s \in Sources, NEW on \in BOOLEAN, int_set(s, on)
    PROVE  IInv'
<1>1. sticky_status \in SUBSET Sources
  BY DEF IInv, Registers
<1>2. UNCHANGED <<emulate_cx, mask, priority, priority_limit>>
  BY DEF int_set, rest
<1>3. IF emulate_cx THEN update_cx ELSE update(sticky_status)
  BY DEF int_set
<1> QED BY <1>1, <1>2, <1>3, UpdatedInv DEF IInv, Registers

LEMMA ResetInv == ASSUME IInv, Reset PROVE IInv'
BY DEF IInv, Registers, Reset, LinesTellPending, Fiq

\* An acknowledgement lowers the limit, so that fewer are eligible, or says that
\* it raises it.
LEMMA AcknowledgeInv ==
    ASSUME IInv, ~emulate_cx, NEW q \in Fiq, Acknowledge(q)
    PROVE  IInv'
<1> DEFINE limit == priority[get_current_int(q, 0)]
<1>1. limit \in 0..7
  BY CurrentIsSource DEF IInv, Registers
<1>2. /\ priority_limit' = [priority_limit EXCEPT ![q] = limit]
      /\ unseen' = (unseen \/ limit > priority_limit[q])
      /\ UNCHANGED <<mask, sticky_status, status, interrupts, emulate_cx, priority>>
  BY DEF Acknowledge
<1> HIDE DEF limit
<1>3. Registers'
  BY <1>1, <1>2 DEF IInv, Registers
<1>4. LinesTellPending'
  <2> SUFFICES ASSUME ~unseen' PROVE {r \in Fiq : Eligible(r)' # {}} \subseteq interrupts
    BY <1>2 DEF LinesTellPending
  <2>1. ~unseen /\ ~(limit > priority_limit[q])
    BY <1>2, Zenon
  <2>2. \A r \in Fiq : priority_limit'[r] <= priority_limit[r]
    BY <1>1, <1>2, <2>1 DEF IInv, Registers
  <2>3. \A r \in Fiq : Eligible(r)' \subseteq Eligible(r)
    <3> SUFFICES ASSUME NEW r \in Fiq, NEW s \in Eligible(r)' PROVE s \in Eligible(r)
      OBVIOUS
    <3>1. s \in status \cap mask[r] /\ priority[s] < priority_limit'[r]
      BY <1>2 DEF Eligible
    <3>2. priority[s] \in 0..7 /\ priority_limit[r] \in 0..15 /\ priority_limit'[r] \in 0..15
      BY <1>3, <3>1 DEF IInv, Registers
    <3>3. priority[s] < priority_limit[r]
      BY <2>2, <3>1, <3>2
    <3> QED BY <3>1, <3>3 DEF Eligible
  <2>4. {r \in Fiq : Eligible(r) # {}} \subseteq interrupts
    BY <2>1 DEF IInv, LinesTellPending
  <2> QED BY <2>3, <2>4
<1> QED BY <1>3, <1>4 DEF IInv

\* The end of an interrupt lowers a line only if nothing is eligible for it.
LEMMA EndInv ==
    ASSUME IInv, ~emulate_cx, NEW q \in Fiq, EndOfInterrupt(q)
    PROVE  IInv'
<1>1. /\ interrupts' = IF get_current_int(q, NoSource) = NoSource
                       THEN interrupts \ {q} ELSE interrupts
      /\ UNCHANGED <<emulate_cx, sticky_status, status, mask, priority, priority_limit, unseen>>
  BY DEF EndOfInterrupt, inputs, rest
<1>2. Eligible(q) # {} => get_current_int(q, NoSource) # NoSource
  BY CurrentIsEligible, IntCtlAssumption DEF IInv, Registers, Eligible
<1>3. \A r \in Fiq : Eligible(r)' = Eligible(r)
  BY <1>1 DEF Eligible
<1>4. Registers'
  BY <1>1 DEF IInv, Registers
<1>5. LinesTellPending'
  BY <1>1, <1>2, <1>3 DEF IInv, LinesTellPending
<1> QED BY <1>4, <1>5 DEF IInv

\* The other accesses of the classic controller.
LEMMA ClassicInv == ASSUME IInv, ClassicStep PROVE IInv'
<1> USE DEF Fiq
<1>1. ~emulate_cx
  BY DEF ClassicStep
<1>2. IInv /\ Registers /\ sticky_status \in SUBSET Sources
  BY DEF IInv, Registers
<1>3. ASSUME NEW value \in SUBSET Sources, ClearSticky(value) PROVE IInv'
  <2>1. UNCHANGED <<emulate_cx, mask, priority, priority_limit>> /\ update(sticky_status \ value)
    BY <1>3 DEF ClearSticky, inputs, rest
  <2>2. sticky_status \ value \in SUBSET Sources
    BY <1>2
  <2> QED BY <1>1, <1>2, <2>1, <2>2, UpdatedInv DEF Registers
<1>4. ASSUME NEW value \in SUBSET Sources, SetSticky(value) PROVE IInv'
  <2>1. UNCHANGED <<emulate_cx, mask, priority, priority_limit>> /\ update(sticky_status)
    BY <1>4 DEF SetSticky, rest
  <2> QED BY <1>1, <1>2, <2>1, UpdatedInv DEF Registers
<1>5. ASSUME NEW value \in SUBSET Sources, NEW q \in Fiq, Enable(q, value) \/ Disable(q, value)
      PROVE  IInv'
  <2>1. /\ UNCHANGED <<emulate_cx, priority, priority_limit>>
        /\ update(sticky_status)
        /\ \/ mask' = [mask EXCEPT ![q] = @ \cup value]
           \/ mask' = [mask EXCEPT ![q] = @ \ value]
    BY <1>5 DEF Enable, Disable, rest
  <2>2. mask' \in [Fiq -> SUBSET Sources]
    BY <1>2, <2>1 DEF Registers
  <2> QED BY <1>1, <1>2, <2>1, <2>2, UpdatedInv DEF Registers
<1>6. ASSUME NEW q \in Fiq, NEW value \in Limits, SetLimit(q, value) PROVE IInv'
  <2>1. /\ UNCHANGED <<emulate_cx, mask, priority>> /\ update(sticky_status)
        /\ priority_limit' = [priority_limit EXCEPT ![q] = value]
    BY <1>6 DEF SetLimit, rest
  <2>2. priority_limit' \in [Fiq -> 0..15]
    BY <1>2, <2>1, IntCtlAssumption DEF Registers
  <2> QED BY <1>1, <1>2, <2>1, <2>2, UpdatedInv DEF Registers
<1>7. ASSUME NEW value \in Inverted, SetNoninverted(Sources \ value) PROVE IInv'
  <2>1. UNCHANGED <<emulate_cx, mask, priority, priority_limit>> /\ update(sticky_status)
    BY <1>7 DEF SetNoninverted, rest
  <2> QED BY <1>1, <1>2, <2>1, UpdatedInv DEF Registers
<1>8. ASSUME NEW s \in Sources, NEW value \in Priorities, SetPriority(s, value) PROVE IInv'
  BY <1>2, <1>8, IntCtlAssumption
     DEF SetPriority, inputs, IInv, Registers, LinesTellPending
<1>9. ASSUME NEW q \in Fiq, Acknowledge(q) \/ EndOfInterrupt(q) PROVE IInv'
  BY <1>1, <1>2, <1>9, AcknowledgeInv, EndInv
<1> QED BY <1>3, <1>4, <1>5, <1>6, <1>7, <1>8, <1>9 DEF ClassicStep

\* And those of the controller of the CX.
LEMMA CxInv == ASSUME IInv, CxStep PROVE IInv'
<1>1. PICK value \in SUBSET Sources :
          mask' \in {[mask EXCEPT ![1] = value],
                     [mask EXCEPT ![0] = @ \cup value], [mask EXCEPT ![0] = @ \ value]}
  BY DEF CxStep
<1>2. mask' \in [Fiq -> SUBSET Sources]
  BY <1>1 DEF IInv, Registers, Fiq
<1>3. emulate_cx /\ update_cx /\ UNCHANGED <<emulate_cx, priority, priority_limit>>
  BY DEF CxStep, rest
<1>4. sticky_status \in SUBSET Sources
  BY DEF IInv, Registers
<1> QED BY <1>2, <1>3, <1>4, UpdatedInv DEF IInv, Registers

\* No interrupt that may be taken is left without its line of the CPU, on either
\* controller, whatever the devices and the program do (interrupt.c:19-36,
\* 54-66): except from a change of priorities, a read of 0x24 that raises the limit,
\* or a reset, to the next update.
THEOREM LinesAreTold == Spec => []LinesTellPending
<1>1. Init => IInv
  BY InitInv
<1>2. IInv /\ [Next]_vars => IInv'
  <2> SUFFICES ASSUME IInv, [Next]_vars PROVE IInv'
    OBVIOUS
  <2>1. ASSUME NEW s \in Sources, NEW on \in BOOLEAN, int_set(s, on) PROVE IInv'
    BY <2>1, DevicesInv
  <2>2. CASE Reset
    BY <2>2, ResetInv
  <2>3. CASE ClassicStep
    BY <2>3, ClassicInv
  <2>4. CASE CxStep
    BY <2>4, CxInv
  <2>5. CASE UNCHANGED vars
    BY <2>5 DEF vars, inputs, derived, rest, IInv, Registers, LinesTellPending,
                Eligible, CxLines
  <2> QED BY <2>1, <2>2, <2>3, <2>4, <2>5 DEF Next
<1>3. IInv => LinesTellPending
  BY DEF IInv
<1> QED BY <1>1, <1>2, <1>3, PTL DEF Spec

=============================================================================
