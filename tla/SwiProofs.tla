----------------------------- MODULE SwiProofs -----------------------------
(***************************************************************************)
(* Proofs about Swi.  Types are correct for every depth of nesting.  The   *)
(* handler behaves as a call stack in the two regimes its slots are made   *)
(* for: syscalls nested at most twice that all return, and syscalls that   *)
(* never nest, even when some of them leave through longjmp.               *)
(***************************************************************************)
EXTENDS Swi, TLAPS

\* What the handler supports.  Swi_exec_in_exec is a run outside
\* of it.
Supported == MaxDepth = 1 \/ (MaxDepth = 2 /\ UnwindTo = {})

USE DEF SVC, Ideal!SVC, States, Ideal!States

----------------------------------------------------------------------------
LEMMA ZeroIsPsr == ZeroPsr \in Ideal!Psr
BY DEF ZeroPsr, Ideal!Psr

\* Entering the handler stores well-formed words in one slot.
LEMMA SaveCallerType ==
    ASSUME TypeOK, NEW s \in Sites
    PROVE  SaveCaller(s) \in Slots
BY DEF TypeOK, SaveCaller, Slots, Link, Ideal!Psr

\* Leaving it restores a well-formed status register from well-formed slots.
LEMMA BackToCallerType ==
    ASSUME TypeOK, NEW t \in Slots, BackToCaller(t)
    PROVE  /\ cpsr' \in Ideal!Psr
           /\ pc' \in Sites \cup {NoSite}
           /\ saved' \in Slots
<1>1. ZeroPsr \in Ideal!Psr
  BY ZeroIsPsr
<1>2. saved' \in Slots
  BY <1>1 DEF BackToCaller, Slots
<1>3. /\ cpsr' \in Ideal!Psr
      /\ pc' \in Sites \cup {NoSite}
  BY DEF BackToCaller, Slots, Link, Ideal!Psr, TypeOK
<1> QED BY <1>2, <1>3

\* Dropping the innermost callers keeps a call stack.
LEMMA PrefixOfCalls ==
    ASSUME NEW cs \in Seq(Ideal!Caller), NEW n \in 0 .. Len(cs)
    PROVE  /\ SubSeq(cs, 1, n) \in Seq(Ideal!Caller)
           /\ Len(SubSeq(cs, 1, n)) = n
           /\ \A i \in 1 .. n : SubSeq(cs, 1, n)[i] = cs[i]
OBVIOUS

\* A call stack has a length, and only the empty one has length 0.
LEMMA LengthOfCalls ==
    ASSUME NEW cs \in Seq(Ideal!Caller)
    PROVE  Len(cs) \in Nat /\ (cs = <<>> <=> Len(cs) = 0)
OBVIOUS

\* Within Supported, syscalls nest twice at most.
LEMMA DepthBound ==
    ASSUME Supported, NEW n \in Nat
    PROVE  /\ n # 0 /\ n <= MaxDepth => n \in {1, 2}
           /\ n # 0 /\ n < MaxDepth => n = 1 /\ UnwindTo = {}
BY SwiAssumption DEF Supported

LEMMA NewCaller ==
    ASSUME TypeOK, NEW s \in Sites
    PROVE  [site |-> s, flags |-> cpsr.flags, state |-> cpsr.state] \in Ideal!Caller
BY DEF TypeOK, Ideal!Psr, Ideal!Caller

----------------------------------------------------------------------------
(***************************************************************************)
(* Type correctness.                                                       *)
(***************************************************************************)

LEMMA InitType == Init => TypeOK
BY SwiAssumption, ZeroIsPsr
   DEF Init, Ideal!Init, TypeOK, Slots, Link, Ideal!Psr, ZeroPsr

LEMMA StepType == TypeOK /\ [Next]_vars => TypeOK'
<1> SUFFICES ASSUME TypeOK, [Next]_vars PROVE TypeOK'
  OBVIOUS
<1>1. CASE UNCHANGED vars
  BY <1>1 DEF vars, TypeOK
<1>2. ASSUME NEW flags \in SUBSET FlagBits, NEW mask \in SUBSET MaskBits,
             NEW state \in States, Compute(flags, mask, state)
      PROVE  TypeOK'
  BY <1>2 DEF Compute, Ideal!Compute, TypeOK, Ideal!Psr
<1>3. ASSUME NEW s \in Sites, NEW flags \in SUBSET FlagBits, Swi(s, flags)
      PROVE  TypeOK'
  <2>1. saved' \in Slots
    BY <1>3, SaveCallerType DEF Swi
  <2>2. calls' \in Seq(Ideal!Caller) /\ Len(calls') <= MaxDepth
    BY <1>3, NewCaller, SwiAssumption DEF Swi, TypeOK
  <2>3. cpsr' \in Ideal!Psr /\ pc' \in Sites \cup {NoSite}
    BY <1>3 DEF Swi, TypeOK, Ideal!Psr
  <2> QED BY <2>1, <2>2, <2>3 DEF TypeOK
<1>4. ASSUME NEW s \in Sites, SwiVariable(s) PROVE TypeOK'
  <2>1. SaveCaller(s) \in Slots
    BY SaveCallerType
  <2> QED BY <1>4, <2>1, BackToCallerType DEF SwiVariable, TypeOK
<1>5. CASE Return
  <2>1. calls' \in Seq(Ideal!Caller) /\ Len(calls') <= MaxDepth
    BY <1>5, PrefixOfCalls, SwiAssumption DEF Return, TypeOK
  <2>2. BackToCaller(saved) /\ saved \in Slots
    BY <1>5 DEF Return, TypeOK
  <2> QED BY <2>1, <2>2, BackToCallerType DEF TypeOK
<1>6. ASSUME NEW n \in UnwindTo, Unwind(n) PROVE TypeOK'
  <2>1. calls' \in Seq(Ideal!Caller) /\ Len(calls') <= MaxDepth
    BY <1>6, PrefixOfCalls, SwiAssumption DEF Unwind, Ideal!Unwind, TypeOK
  <2>2. cpsr' \in Ideal!Psr
    BY <1>6 DEF Unwind, Ideal!Unwind, TypeOK, Ideal!Psr
  <2> QED BY <1>6, <2>1, <2>2 DEF Unwind, Ideal!Unwind, TypeOK
<1> QED BY <1>1, <1>2, <1>3, <1>4, <1>5, <1>6 DEF Next

\* The registers, the slots and the call stack keep their types, however
\* deep the syscalls nest and whether or not they come back.
THEOREM TypeCorrect == Spec => []TypeOK
<1>1. Init => TypeOK
  BY InitType
<1>2. TypeOK /\ [Next]_vars => TypeOK'
  BY StepType
<1> QED BY <1>1, <1>2, PTL DEF Spec

----------------------------------------------------------------------------
(***************************************************************************)
(* The handler is a call stack within Supported.  The strengthening says,  *)
(* besides TopSaved, what waits in the first slot while the second is in   *)
(* use, and when the slots are free.                                       *)
(***************************************************************************)

\* No return ever loads an empty slot, whose word zero is no processor mode:
\* the handler and its callers all run in supervisor mode.
InSupervisorMode == cpsr.mode = SVC

IInv == TypeOK /\ InSupervisorMode /\ TopSaved /\ OuterSaved /\ SlotsGivenBack

LEMMA InitInv == Init => IInv
<1> SUFFICES ASSUME Init PROVE IInv
  OBVIOUS
<1>1. calls = <<>> /\ saved.spsr = ZeroPsr /\ saved.spsr2 = ZeroPsr
  BY DEF Init, Ideal!Init
<1>2. InSupervisorMode
  BY DEF Init, Ideal!Init, InSupervisorMode
<1> QED
  BY <1>1, <1>2, InitType DEF IInv, TopSaved, OuterSaved, SlotsGivenBack

\* The first slot is free only outside of every syscall, and so is the second.
LEMMA FirstFree ==
    ASSUME IInv, saved.spsr = ZeroPsr
    PROVE  calls = <<>> /\ saved.spsr2 = ZeroPsr
<1>1. saved.spsr2 = ZeroPsr
  BY DEF IInv, SlotsGivenBack
<1>2. NextSlot.psr.mode = 0
  BY <1>1 DEF NextSlot, ZeroPsr
<1> QED BY <1>1, <1>2 DEF IInv, TopSaved, Holds

\* Within Supported a syscall that starts inside a syscall finds the second
\* slot free.
LEMMA SecondFree ==
    ASSUME Supported, IInv, calls # <<>>, Len(calls) < MaxDepth
    PROVE  Len(calls) = 1 /\ UnwindTo = {} /\ saved.spsr2 = ZeroPsr
<1>1. Len(calls) \in Nat /\ Len(calls) # 0
  BY LengthOfCalls DEF IInv, TypeOK
<1>2. Len(calls) = 1 /\ UnwindTo = {}
  BY <1>1, DepthBound
<1> QED BY <1>2 DEF IInv, SlotsGivenBack

\* The words that the entry of the handler stores.
LEMMA Saved ==
    ASSUME IInv, NEW s \in Sites
    PROVE  LET psr  == [cpsr EXCEPT !.state = "ARM"]
               link == [site |-> s, state |-> cpsr.state]
               t    == SaveCaller(s)
           IN  /\ psr # ZeroPsr
               /\ psr.mode = SVC
               /\ psr.flags = cpsr.flags
               /\ saved.spsr = ZeroPsr =>
                     /\ t.spsr = psr /\ t.lr = link
                     /\ t.spsr2 = saved.spsr2 /\ t.lr2 = saved.lr2
               /\ saved.spsr # ZeroPsr =>
                     /\ t.spsr2 = psr /\ t.lr2 = link
                     /\ t.spsr = saved.spsr /\ t.lr = saved.lr
BY DEF IInv, TypeOK, InSupervisorMode, SaveCaller, Slots, Ideal!Psr, ZeroPsr

LEMMA SwiStep ==
    ASSUME Supported, IInv, NEW s \in Sites, NEW flags \in SUBSET FlagBits,
           Swi(s, flags), TypeOK'
    PROVE  IInv'
<1> DEFINE c == [site |-> s, flags |-> cpsr.flags, state |-> cpsr.state]
<1>1. /\ calls' = Append(calls, c)
      /\ Len(calls') = Len(calls) + 1
      /\ calls'[Len(calls')] = c
      /\ Len(calls) = 1 => calls'[1] = calls[1]
  BY DEF Swi, IInv, TypeOK
<1>2. InSupervisorMode'
  BY DEF Swi, IInv, TypeOK, InSupervisorMode, Ideal!Psr
<1>3. saved' = SaveCaller(s)
  BY DEF Swi
<1>4. CASE saved.spsr = ZeroPsr
  <2>1. calls = <<>> /\ saved.spsr2 = ZeroPsr
    BY <1>4, FirstFree
  <2>2. saved'.spsr # ZeroPsr /\ saved'.spsr2 = ZeroPsr
    BY <1>3, <1>4, <2>1, Saved
  <2>3. TopSaved'
    <3>1. /\ saved'.spsr.mode = SVC /\ saved'.spsr.flags = cpsr.flags
          /\ saved'.lr = [site |-> s, state |-> cpsr.state]
      BY <1>3, <1>4, Saved
    <3> QED BY <1>1, <2>2, <3>1 DEF TopSaved, NextSlot, Holds, Ideal!Top
  <2>4. OuterSaved' /\ SlotsGivenBack'
    BY <1>1, <2>1, <2>2 DEF OuterSaved, SlotsGivenBack
  <2> QED BY <1>2, <2>3, <2>4 DEF IInv
<1>5. CASE saved.spsr # ZeroPsr
  <2>1. saved'.spsr # ZeroPsr /\ saved'.spsr2 # ZeroPsr
    BY <1>3, <1>5, Saved
  <2>2. TopSaved'
    <3>1. /\ saved'.spsr2.mode = SVC /\ saved'.spsr2.flags = cpsr.flags
          /\ saved'.lr2 = [site |-> s, state |-> cpsr.state]
      BY <1>3, <1>5, Saved
    <3> QED BY <1>1, <2>1, <3>1 DEF TopSaved, NextSlot, Holds, Ideal!Top
  <2>3. OuterSaved' /\ SlotsGivenBack'
    <3>1. CASE calls = <<>>
      <4>1. UnwindTo # {}
        BY <1>5, <3>1 DEF IInv, SlotsGivenBack
      <4> QED BY <1>1, <2>1, <3>1, <4>1 DEF OuterSaved, SlotsGivenBack
    <3>2. CASE calls # <<>>
      <4>1. Len(calls) = 1 /\ saved.spsr2 = ZeroPsr
        BY <3>2, SecondFree DEF Swi
      <4>2. Holds(saved.spsr, saved.lr, calls[1])
        BY <3>2, <4>1 DEF IInv, TopSaved, NextSlot, Ideal!Top
      <4>3. Holds(saved'.spsr, saved'.lr, calls'[1])
        BY <1>1, <1>3, <1>5, <4>1, <4>2, Saved DEF Holds
      <4> QED BY <1>1, <2>1, <4>1, <4>3 DEF OuterSaved, SlotsGivenBack
    <3> QED BY <3>1, <3>2
  <2> QED BY <1>2, <2>2, <2>3 DEF IInv
<1> QED BY <1>4, <1>5

\* A variable is read within one action: the entry and the return it goes
\* through cancel out, whatever the slots held.
LEMMA ReadVariableCancels ==
    ASSUME Supported, IInv, NEW s \in Sites, SwiVariable(s)
    PROVE  /\ cpsr' = cpsr
           /\ pc' = s
           /\ calls' = calls
           /\ saved'.spsr = saved.spsr
           /\ saved'.spsr2 = ZeroPsr
           /\ saved.spsr # ZeroPsr => saved'.lr = saved.lr
<1> DEFINE t == SaveCaller(s)
<1>1. t \in Slots
  BY SaveCallerType DEF IInv
<1>2. BackToCaller(t) /\ calls' = calls
  BY DEF SwiVariable
<1>3. CASE saved.spsr = ZeroPsr
  <2>1. saved.spsr2 = ZeroPsr
    BY <1>3, FirstFree
  <2>2. /\ t.spsr2 = ZeroPsr
        /\ t.spsr = [cpsr EXCEPT !.state = "ARM"]
        /\ t.lr = [site |-> s, state |-> cpsr.state]
    BY <1>3, <2>1, Saved
  <2> HIDE DEF t
  <2>3. /\ saved' = [t EXCEPT !.spsr = ZeroPsr]
        /\ pc' = s
        /\ cpsr' = [mode |-> t.spsr.mode, flags |-> t.spsr.flags,
                   mask |-> cpsr.mask, state |-> cpsr.state]
    BY <1>2, <2>2 DEF BackToCaller
  <2>4. cpsr' = cpsr
    BY <2>2, <2>3 DEF IInv, TypeOK, Ideal!Psr
  <2> QED BY <1>1, <1>2, <1>3, <2>2, <2>3, <2>4 DEF Slots
<1>4. CASE saved.spsr # ZeroPsr
  <2>1. /\ t.spsr2 # ZeroPsr
        /\ t.spsr2 = [cpsr EXCEPT !.state = "ARM"]
        /\ t.lr2 = [site |-> s, state |-> cpsr.state]
        /\ t.spsr = saved.spsr /\ t.lr = saved.lr
    BY <1>4, Saved
  <2> HIDE DEF t
  <2>2. /\ saved' = [t EXCEPT !.spsr2 = ZeroPsr]
        /\ pc' = s
        /\ cpsr' = [mode |-> t.spsr2.mode, flags |-> t.spsr2.flags,
                   mask |-> cpsr.mask, state |-> cpsr.state]
    BY <1>2, <2>1 DEF BackToCaller
  <2>3. cpsr' = cpsr
    BY <2>1, <2>2 DEF IInv, TypeOK, Ideal!Psr
  <2> QED BY <1>1, <1>2, <2>1, <2>2, <2>3 DEF Slots
<1> QED BY <1>3, <1>4

LEMMA SwiVariableStep ==
    ASSUME Supported, IInv, NEW s \in Sites, SwiVariable(s), TypeOK'
    PROVE  IInv'
<1>1. /\ cpsr' = cpsr
      /\ calls' = calls
      /\ saved'.spsr = saved.spsr
      /\ saved'.spsr2 = ZeroPsr
      /\ saved.spsr # ZeroPsr => saved'.lr = saved.lr
  BY ReadVariableCancels
<1>2. InSupervisorMode' /\ SlotsGivenBack'
  BY <1>1 DEF IInv, InSupervisorMode, SlotsGivenBack
<1>3. TopSaved' /\ OuterSaved'
  <2>1. CASE calls = <<>>
    BY <1>1, <2>1 DEF TopSaved, OuterSaved
  <2>2. CASE calls # <<>>
    <3>1. Len(calls) = 1 /\ saved.spsr2 = ZeroPsr
      BY <2>2, SecondFree DEF SwiVariable
    <3>2. saved.spsr # ZeroPsr
      BY <2>2, FirstFree
    <3> QED
      BY <1>1, <2>2, <3>1, <3>2 DEF IInv, TopSaved, OuterSaved, NextSlot, Holds, Ideal!Top
  <2> QED BY <2>1, <2>2
<1> QED BY <1>2, <1>3 DEF IInv

\* Within Supported one or two syscalls are in progress, or none.
LEMMA CallDepth ==
    ASSUME Supported, IInv, calls # <<>>
    PROVE  Len(calls) \in {1, 2}
<1>1. Len(calls) \in Nat /\ Len(calls) # 0 /\ Len(calls) <= MaxDepth
  BY LengthOfCalls DEF IInv, TypeOK
<1> QED BY <1>1, DepthBound

\* The return of a syscall goes through the slot of its own caller.
LEMMA ReturnSlot ==
    ASSUME Supported, IInv, Return
    PROVE  /\ Ideal!Return
           /\ cpsr'.mode = SVC
           /\ Len(calls') = Len(calls) - 1
           /\ Len(calls) = 1 =>
                 saved'.spsr2 = ZeroPsr /\ (UnwindTo = {} => saved'.spsr = ZeroPsr)
           /\ Len(calls) = 2 =>
                 /\ saved'.spsr2 = ZeroPsr
                 /\ saved'.spsr = saved.spsr /\ saved'.lr = saved.lr
                 /\ calls'[1] = calls[1]
<1> DEFINE n == Len(calls)
<1>1. /\ calls \in Seq(Ideal!Caller) /\ calls # <<>>
      /\ n \in {1, 2}
      /\ calls' = SubSeq(calls, 1, n - 1)
  BY CallDepth DEF Return, IInv, TypeOK
<1>2. /\ Len(calls') = n - 1
      /\ n = 2 => calls'[1] = calls[1]
  <2>1. CASE n = 1
    BY <1>1, <2>1, PrefixOfCalls
  <2>2. CASE n = 2
    BY <1>1, <2>2, PrefixOfCalls
  <2> QED BY <1>1, <2>1, <2>2
<1>3. Ideal!Top \in Ideal!Caller
  BY <1>1 DEF Ideal!Top
<1>4. /\ NextSlot.psr.mode = SVC
      /\ NextSlot.psr.flags = Ideal!Top.flags
      /\ NextSlot.link = [site |-> Ideal!Top.site, state |-> Ideal!Top.state]
  BY <1>1 DEF IInv, TopSaved, Holds
<1>5. /\ cpsr' = [mode |-> NextSlot.psr.mode, flags |-> NextSlot.psr.flags,
                mask |-> cpsr.mask, state |-> NextSlot.link.state]
      /\ pc' = NextSlot.link.site
  BY DEF Return, BackToCaller, NextSlot
<1>6. NextSlot.psr \in Ideal!Psr
  BY DEF IInv, TypeOK, Slots, NextSlot
<1>7. cpsr'.mode = SVC
  BY <1>4, <1>5, <1>6 DEF Ideal!Psr
<1>8. cpsr' = [mode |-> cpsr.mode, flags |-> Ideal!Top.flags,
               mask |-> cpsr.mask, state |-> Ideal!Top.state]
  <2>1. NextSlot.psr.mode = cpsr.mode
    BY <1>4 DEF IInv, InSupervisorMode
  <2>2. NextSlot.link.state = Ideal!Top.state
    BY <1>4
  <2> QED BY <1>4, <1>5, <2>1, <2>2
<1>9. Ideal!Return
  <2>1. pc' = Ideal!Top.site
    BY <1>4, <1>5
  <2> QED BY <1>1, <1>8, <2>1 DEF Ideal!Return
<1>10. saved \in Slots
  BY DEF IInv, TypeOK
<1>11. ASSUME n = 1
       PROVE  saved'.spsr2 = ZeroPsr /\ (UnwindTo = {} => saved'.spsr = ZeroPsr)
  <2>1. UnwindTo = {} => saved.spsr2 = ZeroPsr
    BY <1>11 DEF IInv, SlotsGivenBack
  <2> QED BY <1>10, <2>1 DEF Return, BackToCaller, Slots
<1>12. ASSUME n = 2
       PROVE  /\ saved'.spsr2 = ZeroPsr
              /\ saved'.spsr = saved.spsr /\ saved'.lr = saved.lr
  <2>1. saved.spsr2 # ZeroPsr
    BY <1>12 DEF IInv, OuterSaved
  <2> QED BY <1>10, <2>1 DEF Return, BackToCaller, Slots
<1> QED BY <1>1, <1>2, <1>7, <1>9, <1>11, <1>12

LEMMA ReturnStep ==
    ASSUME Supported, IInv, Return, TypeOK'
    PROVE  IInv'
<1>1. InSupervisorMode'
  BY ReturnSlot DEF InSupervisorMode
<1>2. Len(calls) \in {1, 2}
  BY CallDepth DEF Return
<1>3. calls' \in Seq(Ideal!Caller)
  BY DEF TypeOK
<1>4. CASE Len(calls) = 1
  <2>1. /\ Len(calls') = 0 /\ calls' = <<>>
        /\ saved'.spsr2 = ZeroPsr /\ (UnwindTo = {} => saved'.spsr = ZeroPsr)
    BY <1>3, <1>4, ReturnSlot
  <2> QED BY <1>1, <2>1 DEF IInv, TopSaved, OuterSaved, SlotsGivenBack
<1>5. CASE Len(calls) = 2
  <2>1. /\ Len(calls') = 1
        /\ saved'.spsr2 = ZeroPsr
        /\ saved'.spsr = saved.spsr /\ saved'.lr = saved.lr
        /\ calls'[1] = calls[1]
    BY <1>5, ReturnSlot
  <2>2. Holds(saved'.spsr, saved'.lr, calls'[1])
    BY <1>5, <2>1 DEF IInv, OuterSaved, Holds
  <2>3. TopSaved'
    BY <2>1, <2>2 DEF TopSaved, NextSlot, Ideal!Top, Holds
  <2>4. OuterSaved' /\ SlotsGivenBack'
    BY <2>1 DEF OuterSaved, SlotsGivenBack
  <2> QED BY <1>1, <2>3, <2>4 DEF IInv
<1> QED BY <1>2, <1>4, <1>5

\* Within Supported only a syscall that is not nested unwinds.
LEMMA UnwindStep ==
    ASSUME Supported, IInv, NEW n \in UnwindTo, Unwind(n), TypeOK'
    PROVE  IInv'
<1>1. UnwindTo # {} /\ n = 0 /\ saved' = saved
  <2>1. Len(calls) \in Nat /\ Len(calls) <= MaxDepth
    BY LengthOfCalls DEF IInv, TypeOK
  <2>2. n \in Nat /\ n < Len(calls) /\ saved' = saved
    BY SwiAssumption DEF Unwind, Ideal!Unwind
  <2> QED BY <2>1, <2>2, SwiAssumption DEF Supported
<1>2. calls \in Seq(Ideal!Caller) /\ 0 \in 0 .. Len(calls)
  BY DEF IInv, TypeOK
<1>3. calls' \in Seq(Ideal!Caller) /\ Len(calls') = 0
  BY <1>1, <1>2, PrefixOfCalls DEF Unwind, Ideal!Unwind
<1>4. calls' = <<>>
  BY <1>3
<1>5. InSupervisorMode'
  BY DEF Unwind, Ideal!Unwind, IInv, TypeOK, InSupervisorMode, Ideal!Psr
<1> QED BY <1>1, <1>3, <1>4, <1>5 DEF IInv, TopSaved, OuterSaved, SlotsGivenBack

LEMMA ComputeStep ==
    ASSUME IInv, TypeOK',
           NEW flags \in SUBSET FlagBits, NEW mask \in SUBSET MaskBits,
           NEW state \in States, Compute(flags, mask, state)
    PROVE  IInv'
<1>1. calls' = calls /\ saved' = saved /\ cpsr'.mode = cpsr.mode
  BY DEF Compute, Ideal!Compute, IInv, TypeOK, Ideal!Psr
<1> QED
  BY <1>1 DEF IInv, InSupervisorMode, TopSaved, OuterSaved, SlotsGivenBack,
              NextSlot, Holds, Ideal!Top

LEMMA StepInv == Supported /\ IInv /\ [Next]_vars => IInv'
<1> SUFFICES ASSUME Supported, IInv, [Next]_vars PROVE IInv'
  OBVIOUS
<1>1. TypeOK'
  BY StepType DEF IInv
<1>2. CASE UNCHANGED vars
  BY <1>2 DEF vars, IInv, TypeOK, InSupervisorMode, TopSaved, OuterSaved,
              SlotsGivenBack, NextSlot, Holds, Ideal!Top
<1>3. CASE Next
  BY <1>1, <1>3, ComputeStep, SwiStep, SwiVariableStep, ReturnStep, UnwindStep
     DEF Next
<1> QED BY <1>2, <1>3

LEMMA Invariance == Supported /\ Spec => []IInv
<1>1. Init => IInv
  BY InitInv
<1>2. Supported /\ IInv /\ [Next]_vars => IInv'
  BY StepInv
<1> SUFFICES ASSUME Supported PROVE Spec => []IInv
  OBVIOUS
<1>3. IInv /\ [Next]_vars => IInv'
  BY <1>2
<1> QED BY <1>1, <1>3, PTL DEF Spec

----------------------------------------------------------------------------
\* The slot back_to_caller picks is the slot of the innermost syscall.
THEOREM SlotOfInnermost == Supported /\ Spec => []TopSaved
<1>1. IInv => TopSaved
  BY DEF IInv
<1> QED BY <1>1, Invariance, PTL

\* The outer of two nested syscalls waits untouched in the first slot.
THEOREM OuterWaits == Supported /\ Spec => []OuterSaved
<1>1. IInv => OuterSaved
  BY DEF IInv
<1> QED BY <1>1, Invariance, PTL

\* No slot is lost.
THEOREM NoSlotLost == Supported /\ Spec => []SlotsGivenBack
<1>1. IInv => SlotsGivenBack
  BY DEF IInv
<1> QED BY <1>1, Invariance, PTL

\* Every return restores the caller.
THEOREM ReturnsAreRight == Supported /\ Spec => ReturnsToCaller
<1>1. Supported /\ IInv => [Return => Ideal!Return]_vars
  BY ReturnSlot
<1> SUFFICES ASSUME Supported PROVE Spec => ReturnsToCaller
  OBVIOUS
<1>2. IInv => [Return => Ideal!Return]_vars
  BY <1>1
<1>3. Spec => []IInv
  BY Invariance
<1> QED BY <1>2, <1>3, PTL DEF ReturnsToCaller

\* The slots implement a call stack: every step of the handler is a step of
\* SyscallStack or leaves its variables alone.
THEOREM Refinement == Supported /\ Spec => ImplementsCallStack
<1>1. Init => Ideal!Init
  BY DEF Init
<1>2. ASSUME Supported, IInv, [Next]_vars
      PROVE  [Ideal!Next]_(Ideal!abstractVars)
  <2>1. CASE UNCHANGED vars
    BY <2>1 DEF vars, Ideal!abstractVars
  <2>2. ASSUME NEW flags \in SUBSET FlagBits, NEW mask \in SUBSET MaskBits,
               NEW state \in States, Compute(flags, mask, state)
        PROVE  Ideal!Next
    BY <2>2 DEF Compute, Ideal!Next
  <2>3. ASSUME NEW s \in Sites, NEW flags \in SUBSET FlagBits, Swi(s, flags)
        PROVE  Ideal!Next
    BY <2>3 DEF Swi, Ideal!Call, Ideal!Next
  <2>4. ASSUME NEW s \in Sites, SwiVariable(s) PROVE Ideal!Next
    <3>1. Ideal!ReadVariable(s)
      BY <1>2, <2>4, ReadVariableCancels DEF Ideal!ReadVariable, SwiVariable
    <3> QED BY <3>1 DEF Ideal!Next
  <2>5. CASE Return
    BY <1>2, <2>5, ReturnSlot DEF Ideal!Next
  <2>6. ASSUME NEW n \in UnwindTo, Unwind(n) PROVE Ideal!Next
    BY <2>6 DEF Unwind, Ideal!Next
  <2> QED BY <1>2, <2>1, <2>2, <2>3, <2>4, <2>5, <2>6 DEF Next
<1> SUFFICES ASSUME Supported PROVE Spec => ImplementsCallStack
  OBVIOUS
<1>3. IInv /\ [Next]_vars => [Ideal!Next]_(Ideal!abstractVars)
  BY <1>2
<1>4. Spec => []IInv
  BY Invariance
<1> QED BY <1>1, <1>3, <1>4, PTL DEF Spec, ImplementsCallStack, Ideal!Spec
=============================================================================
