---------------------------- MODULE LoaderProofs ----------------------------
(***************************************************************************)
(* Proofs about Loader, for every heap, every depth of nesting, every set  *)
(* of files and callers, and malloc() failing or not; and, in the last two *)
(* parts, about LuaExt, which runs on top of it.                           *)
(***************************************************************************)
EXTENDS LuaExt, FiniteSetTheorems, TLAPS

NoDebugger == Debugger = "never"

\* GDB attaches and detaches between programs only, and no program it loads is
\* given up half-way, which would free its block.
GdbWaits == NoDebugger \/ (Debugger = "idle" /\ "broken" \notin Files)

USE DEF Masks, Uses, Formats

----------------------------------------------------------------------------
(***************************************************************************)
(* The inductive invariant.  Its parts say of each frame what the frame's  *)
(* own return will rely on, whatever runs on top of it.                    *)
(***************************************************************************)

NotDebugged == NoDebugger => emu_debug_alloc_ptr = NULL

DebugBlockHeld == emu_debug_alloc_ptr # NULL => heap[emu_debug_alloc_ptr] = "debug"

\* The blocks of a frame on heap h: the image is in the debug block if there is
\* one, at address e.
Held(h, e, f) ==
    /\ IF e = NULL THEN h[f.base] = "image" ELSE f.base = e
    /\ h[f.savedscr] = "screen" /\ h[f.argv] = "argv"

FramesHeld == \A i \in DOMAIN frames : Held(heap, emu_debug_alloc_ptr, frames[i])

FramesApart ==
    \A i, j \in DOMAIN frames : i # j =>
       /\ emu_debug_alloc_ptr = NULL => frames[i].base # frames[j].base
       /\ frames[i].savedscr # frames[j].savedscr
       /\ frames[i].argv # frames[j].argv

\* A request that has not been overtaken by an inner program is still known.
AskedKnown ==
    \A i \in DOMAIN frames : frames[i].asked = "last" =>
        i = Len(frames) /\ is_current_prgm_resident

\* The outermost frame knows what to give back to the OS.
OutermostKnows ==
    IF frames = <<>>
    THEN intmask = "on" /\ (plh_noscrredraw \/ screen = 0)
    ELSE frames[1].intmask = "on" /\ (plh_noscrredraw \/ frames[1].picture = 0)

\* Programs in the debug block are loaded over each other, residents too.
ResidentsKept == NoDebugger => ResidentsLive

IInv ==
    /\ TypeOK /\ NotDebugged /\ DebugBlockHeld
    /\ FramesHeld /\ FramesApart
    /\ ResidentsKept
    /\ AskedKnown /\ OutermostKnows

----------------------------------------------------------------------------
(***************************************************************************)
(* Sequences and records.                                                  *)
(***************************************************************************)

LEMMA FramesLength ==
    ASSUME NEW fs \in Seq(Frame)
    PROVE  /\ Len(fs) \in Nat /\ DOMAIN fs = 1 .. Len(fs)
           /\ fs = <<>> <=> Len(fs) = 0
           /\ \A i \in 1 .. Len(fs) : fs[i] \in Frame
OBVIOUS

LEMMA PrefixOfFrames ==
    ASSUME NEW fs \in Seq(Frame), NEW n \in 0 .. Len(fs)
    PROVE  /\ SubSeq(fs, 1, n) \in Seq(Frame)
           /\ Len(SubSeq(fs, 1, n)) = n
           /\ \A i \in 1 .. n : SubSeq(fs, 1, n)[i] = fs[i]
OBVIOUS

LEMMA PushedFrame ==
    ASSUME NEW fs \in Seq(Frame), NEW f \in Frame
    PROVE  /\ Append(fs, f) \in Seq(Frame)
           /\ Len(Append(fs, f)) = Len(fs) + 1
           /\ \A i \in 1 .. Len(fs) : Append(fs, f)[i] = fs[i]
           /\ Append(fs, f)[Len(fs) + 1] = f
OBVIOUS

LEMMA AskingFrame ==
    ASSUME NEW f \in Frame, NEW w \in {"never", "early", "last"}
    PROVE  /\ Asking(f, w) \in Frame
           /\ Asking(f, w).base = f.base
           /\ Asking(f, w).savedscr = f.savedscr
           /\ Asking(f, w).argv = f.argv
           /\ Asking(f, w).resident_ptr = f.resident_ptr
           /\ Asking(f, w).intmask = f.intmask
           /\ Asking(f, w).picture = f.picture
           /\ Asking(f, w).asked = w
BY DEF Frame, Asking

\* Frames that differ at most in what their programs asked for.
SameBlocks(f, g) ==
    /\ f.base = g.base /\ f.savedscr = g.savedscr /\ f.argv = g.argv
    /\ f.resident_ptr = g.resident_ptr
    /\ f.intmask = g.intmask /\ f.picture = g.picture

LEMMA OuterFrames ==
    ASSUME TypeOK
    PROVE  /\ Outer \in Seq(Frame)
           /\ Len(Outer) = Len(frames)
           /\ \A i \in 1 .. Len(frames) : SameBlocks(Outer[i], frames[i])
           /\ AskedKnown => \A i \in 1 .. Len(frames) : Outer[i].asked # "last"
<1>1. /\ Len(frames) \in Nat /\ DOMAIN frames = 1 .. Len(frames)
      /\ \A i \in 1 .. Len(frames) : frames[i] \in Frame
  BY FramesLength DEF TypeOK
<1>2. ASSUME NEW i \in 1 .. Len(frames)
      PROVE  /\ Outer[i] \in Frame /\ SameBlocks(Outer[i], frames[i])
             /\ AskedKnown => Outer[i].asked # "last"
  <2>1. CASE i = Len(frames) /\ frames[i].asked = "last"
    <3>1. Outer[i] = Asking(frames[i], "early")
      BY <1>1, <2>1 DEF Outer
    <3> QED BY <1>1, <3>1, AskingFrame DEF SameBlocks
  <2>2. CASE ~(i = Len(frames) /\ frames[i].asked = "last")
    <3>1. Outer[i] = frames[i]
      BY <1>1, <2>2 DEF Outer
    <3> QED BY <1>1, <2>2, <3>1 DEF SameBlocks, AskedKnown
  <2> QED BY <2>1, <2>2
<1>3. Outer = [i \in 1 .. Len(frames) |-> Outer[i]]
  BY <1>1 DEF Outer
<1>4. Outer \in Seq(Frame) /\ Len(Outer) = Len(frames)
  BY <1>1, <1>2, <1>3
<1> QED BY <1>2, <1>4

----------------------------------------------------------------------------
(***************************************************************************)
(* The heap.                                                               *)
(***************************************************************************)

LEMMA MallocReturns ==
    ASSUME NEW h \in [Addr -> Uses], NEW p \in Malloc(h), p # NULL
    PROVE  p \in Addr /\ h[p] = "free"
BY DEF Malloc, FreeBlocks

LEMMA AllocHeap ==
    ASSUME NEW h \in [Addr -> Uses], NEW p \in Addr, NEW use \in Uses
    PROVE  /\ Alloc(h, p, use) \in [Addr -> Uses]
           /\ Alloc(h, p, use)[p] = use
           /\ \A a \in Addr : a # p => Alloc(h, p, use)[a] = h[a]
BY DEF Alloc

LEMMA FreedHeap ==
    ASSUME NEW h \in [Addr -> Uses], NEW ps
    PROVE  /\ Freed(h, ps) \in [Addr -> Uses]
           /\ \A a \in Addr : Freed(h, ps)[a] = IF a \in ps THEN "free" ELSE h[a]
BY DEF Freed

\* A program that is loaded takes a free block, or the debug block.
LEMMA BlockOfImage ==
    ASSUME TypeOK, DebugBlockHeld, NEW base \in LoadBlocks \ {NULL}
    PROVE  /\ base \in Addr
           /\ Loaded(base) \in [Addr -> Uses]
           /\ Loaded(base)[base] # "free"
           /\ IF emu_debug_alloc_ptr = NULL
              THEN heap[base] = "free" /\ Loaded(base)[base] = "image"
              ELSE base = emu_debug_alloc_ptr
           /\ \A a \in Addr : a # base => Loaded(base)[a] = heap[a]
           /\ \A a \in Addr : heap[a] # "free" => Loaded(base)[a] = heap[a]
<1>1. heap \in [Addr -> Uses] /\ emu_debug_alloc_ptr \in Addr \cup {NULL}
  BY DEF TypeOK
<1>2. CASE emu_debug_alloc_ptr = NULL
  <2>1. LoadBlocks = Malloc(heap) /\ Loaded(base) = Alloc(heap, base, "image")
    BY <1>2 DEF LoadBlocks, Loaded
  <2>2. base \in Addr /\ heap[base] = "free"
    BY <1>1, <2>1, MallocReturns
  <2>3. PICK h : h = Loaded(base)
    OBVIOUS
  <2>4. /\ h \in [Addr -> Uses] /\ h[base] = "image"
        /\ \A a \in Addr : a # base => h[a] = heap[a]
    BY <1>1, <2>1, <2>2, <2>3, AllocHeap
  <2> QED BY <1>2, <2>2, <2>3, <2>4
<1>3. CASE emu_debug_alloc_ptr # NULL
  <2>1. base = emu_debug_alloc_ptr /\ Loaded(base) = heap
    BY <1>3 DEF LoadBlocks, Loaded
  <2> QED BY <1>1, <1>3, <2>1 DEF DebugBlockHeld
<1> QED BY <1>2, <1>3

\* Who stays resident: the program asked for it, or its caller did.
Stays(resident_ptr, ret) ==
    is_current_prgm_resident \/ (ret # Dead /\ resident_ptr # NULL)

InUse(h, p) == p \in Addr /\ h[p] # "free"

\* The end of ld_exec_with_args() frees blocks in use, of its own call only,
\* and keeps the image of a program that stays and the debug block.
QuitDone(h, base, scr, argv, res, ret) ==
    /\ heap' \in [Addr -> Uses]
    /\ badfree' = badfree
    /\ \A a \in Addr : a # base /\ a # scr /\ a # argv => heap'[a] = h[a]
    /\ Stays(res, ret) \/ emu_debug_alloc_ptr # NULL =>
          (base # scr /\ base # argv => heap'[base] = h[base])

LEMMA QuitFrees ==
    ASSUME badfree \in BOOLEAN,
           NEW h \in [Addr -> Uses], NEW format,
           NEW base, InUse(h, base),
           NEW scr, scr = NULL \/ InUse(h, scr),
           NEW argv, argv = NULL \/ InUse(h, argv),
           NEW res, NEW ret,
           Quit(h, format, base, scr, argv, res, ret)
    PROVE  QuitDone(h, base, scr, argv, res, ret)
<1> DEFINE image == IF emu_debug_alloc_ptr = NULL /\ format # "LD_ERROR_BIN"
                    THEN {base} ELSE {}
           ps == {scr} \cup (IF Stays(res, ret) THEN {} ELSE image \cup {argv})
<1>1. heap' = Freed(h, ps) /\ badfree' = (badfree \/ BadFree(h, ps))
  BY DEF Quit, Stays
<1>2. ps \subseteq {base, scr, argv}
  OBVIOUS
<1>3. Stays(res, ret) \/ emu_debug_alloc_ptr # NULL => ps \subseteq {scr, argv}
  OBVIOUS
<1> HIDE DEF ps
<1>4. ~BadFree(h, ps)
  BY <1>2 DEF BadFree, InUse
<1>5. badfree' = badfree
  BY <1>1, <1>4, Zenon
<1> QED BY <1>1, <1>2, <1>3, <1>5, FreedHeap DEF InUse, QuitDone

----------------------------------------------------------------------------
(***************************************************************************)
(* Steps that leave the frames alone.                                      *)
(***************************************************************************)

LEMMA InitInv == Init => IInv
<1> SUFFICES ASSUME Init PROVE IInv
  OBVIOUS
<1>1. frames = <<>> /\ frames \in Seq(Frame) /\ Len(frames) = 0 /\ DOMAIN frames = {}
  BY DEF Init
<1>2. TypeOK
  <2>1. heap \in [Addr -> Uses] /\ residents \subseteq Addr
    BY DEF Init
  <2>2. /\ ld_bin_format \in Formats /\ emu_debug_alloc_ptr \in Addr \cup {NULL}
        /\ intmask \in Masks
    BY DEF Init
  <2>3. screen \in 0 .. MaxFrames /\ Len(frames) <= MaxFrames
    BY <1>1, LoaderAssumption DEF Init
  <2>4. /\ badfree \in BOOLEAN /\ is_current_prgm_resident \in BOOLEAN
        /\ plh_isstartup \in BOOLEAN /\ plh_noscrredraw \in BOOLEAN
    BY DEF Init
  <2> QED BY <1>1, <2>1, <2>2, <2>3, <2>4 DEF TypeOK
<1>3. NotDebugged /\ DebugBlockHeld /\ residents = {}
  BY DEF Init, NotDebugged, DebugBlockHeld
<1>4. FramesHeld /\ FramesApart /\ ResidentsKept /\ AskedKnown
  BY <1>1, <1>3 DEF FramesHeld, FramesApart, ResidentsKept, ResidentsLive, AskedKnown
<1>5. OutermostKnows
  BY <1>1 DEF Init, OutermostKnows
<1> QED BY <1>2, <1>3, <1>4, <1>5 DEF IInv

\* Each frame's type and blocks.
LEMMA FrameFacts ==
    ASSUME IInv
    PROVE  /\ Len(frames) \in Nat /\ DOMAIN frames = 1 .. Len(frames)
           /\ frames = <<>> <=> Len(frames) = 0
           /\ \A i \in 1 .. Len(frames) :
                 /\ frames[i] \in Frame
                 /\ frames[i].base \in Addr /\ frames[i].savedscr \in Addr
                 /\ frames[i].argv \in Addr
                 /\ frames[i].intmask \in Masks /\ frames[i].picture \in 0 .. MaxFrames
                 /\ Held(heap, emu_debug_alloc_ptr, frames[i])
                 /\ NoDebugger => frames[i].base \notin residents
<1>1. frames \in Seq(Frame) /\ FramesHeld /\ ResidentsKept
  BY DEF IInv, TypeOK
<1>2. /\ Len(frames) \in Nat /\ DOMAIN frames = 1 .. Len(frames)
      /\ frames = <<>> <=> Len(frames) = 0
      /\ \A i \in 1 .. Len(frames) : frames[i] \in Frame
  BY <1>1, FramesLength
<1>3. \A f \in Frame : /\ f.base \in Addr /\ f.savedscr \in Addr /\ f.argv \in Addr
                       /\ f.intmask \in Masks /\ f.picture \in 0 .. MaxFrames
  BY DEF Frame
<1> QED BY <1>1, <1>2, <1>3 DEF FramesHeld, ResidentsKept, ResidentsLive

\* A step that changes free blocks only disturbs no frame and no resident.
LEMMA FreeBlocksOnly ==
    ASSUME IInv,
           \A a \in Addr : heap[a] # "free" => heap'[a] = heap[a],
           frames' = frames, residents' = residents,
           emu_debug_alloc_ptr' = emu_debug_alloc_ptr,
           is_current_prgm_resident' = is_current_prgm_resident
    PROVE  (NotDebugged /\ DebugBlockHeld /\ FramesHeld /\ FramesApart
            /\ ResidentsKept /\ AskedKnown)'
<1>1. \A i \in DOMAIN frames : Held(heap', emu_debug_alloc_ptr, frames[i])
  BY FrameFacts DEF Held
<1>2. residents \subseteq Addr /\ emu_debug_alloc_ptr \in Addr \cup {NULL}
  BY DEF IInv, TypeOK
<1>3. ResidentsKept'
  BY <1>2 DEF IInv, ResidentsKept, ResidentsLive
<1>4. (NotDebugged /\ DebugBlockHeld)'
  BY <1>2 DEF IInv, NotDebugged, DebugBlockHeld
<1> QED
  BY <1>1, <1>3, <1>4 DEF IInv, FramesHeld, FramesApart, AskedKnown

LEMMA Unchanged ==
    ASSUME IInv, UNCHANGED vars
    PROVE  IInv' /\ badfree' = badfree
<1> USE DEF vars, heapVars, formatVars, plhVars
<1>1. TypeOK'
  BY DEF IInv, TypeOK
<1>2. OutermostKnows'
  BY DEF IInv, OutermostKnows
<1>3. (NotDebugged /\ DebugBlockHeld /\ FramesHeld /\ FramesApart
       /\ ResidentsKept /\ AskedKnown)'
  BY FreeBlocksOnly
<1> QED BY <1>1, <1>2, <1>3 DEF IInv

LEMMA CannotLoadKeepsHeap ==
    ASSUME GdbWaits, IInv, CannotLoad
    PROVE  heap' = heap /\ badfree' = badfree
<1> USE LoaderAssumption
<1>1. Freed(heap, {NULL}) = heap /\ ~BadFree(heap, {NULL}) /\ badfree \in BOOLEAN
  BY DEF IInv, TypeOK, Freed, BadFree
\* A file given up half-way frees no block.
<1>2. "broken" \in Files => emu_debug_alloc_ptr = NULL
  BY DEF GdbWaits, IInv, NotDebugged
<1>3. \/ heap' = heap /\ badfree' = badfree
      \/ /\ emu_debug_alloc_ptr = NULL
         /\ heap' = Freed(heap, {NULL})
         /\ badfree' = (badfree \/ BadFree(heap, {NULL}))
  BY <1>2, Zenon DEF CannotLoad, heapVars
<1>4. CASE heap' = heap /\ badfree' = badfree
  BY <1>4
<1>5. CASE /\ heap' = Freed(heap, {NULL})
           /\ badfree' = (badfree \/ BadFree(heap, {NULL}))
  BY <1>1, <1>5, Zenon
<1> QED BY <1>3, <1>4, <1>5

LEMMA CannotLoadInv ==
    ASSUME GdbWaits, IInv, CannotLoad
    PROVE  IInv' /\ badfree' = badfree
<1>1. heap' = heap /\ badfree' = badfree
  BY CannotLoadKeepsHeap
<1>2. (NotDebugged /\ DebugBlockHeld /\ FramesHeld /\ FramesApart
       /\ ResidentsKept /\ AskedKnown)'
  BY <1>1, FreeBlocksOnly DEF CannotLoad
<1>3. TypeOK'
  BY <1>1 DEF CannotLoad, IInv, TypeOK, plhVars
<1>4. OutermostKnows'
  BY <1>1, ZenonT(30) DEF CannotLoad, IInv, OutermostKnows, plhVars
<1> QED BY <1>1, <1>2, <1>3, <1>4 DEF IInv

\* A program that cannot be started leaves every block in use as it was: it was
\* loaded to free blocks, which are freed again or, if a flag of an earlier
\* program says so, kept.
LEMMA NoMemoryHeap ==
    ASSUME IInv, NEW res, NoMemory(res)
    PROVE  /\ heap' \in [Addr -> Uses] /\ badfree' = badfree
           /\ \A a \in Addr : heap[a] # "free" => heap'[a] = heap[a]
<1>1. /\ TypeOK /\ DebugBlockHeld /\ badfree \in BOOLEAN
      /\ heap \in [Addr -> Uses]
  BY DEF IInv, TypeOK
<1>2. PICK file, base, h :
        /\ file \in Files \cap {"ndless", "bflt"}
        /\ base \in LoadBlocks \ {NULL}
        /\ h = Loaded(base)
        /\ \/ Quit(h, FormatOf(file), base, NULL, NULL, res, Dead)
           \/ \E scr \in Malloc(h) \ {NULL} :
                 Quit(Alloc(h, scr, "screen"), FormatOf(file), base, scr, NULL, res, Dead)
  BY DEF NoMemory
<1>3. /\ base \in Addr /\ base # NULL /\ h \in [Addr -> Uses] /\ h[base] # "free"
      /\ emu_debug_alloc_ptr = NULL => heap[base] = "free"
      /\ \A a \in Addr : heap[a] # "free" => h[a] = heap[a]
  BY <1>1, <1>2, BlockOfImage, LoaderAssumption
<1>4. ASSUME NEW scr \in Malloc(h) \ {NULL},
             Quit(Alloc(h, scr, "screen"), FormatOf(file), base, scr, NULL, res, Dead)
      PROVE  /\ heap' \in [Addr -> Uses] /\ badfree' = badfree
             /\ \A a \in Addr : heap[a] # "free" => heap'[a] = heap[a]
  <2>1. scr \in Addr /\ h[scr] = "free" /\ scr # base
    BY <1>3, MallocReturns
  <2>2. PICK k : k = Alloc(h, scr, "screen")
    OBVIOUS
  <2>3. /\ k \in [Addr -> Uses] /\ k[scr] = "screen"
        /\ \A a \in Addr : a # scr => k[a] = h[a]
    BY <1>3, <2>1, <2>2, AllocHeap
  <2>4. InUse(k, base) /\ InUse(k, scr)
    BY <1>3, <2>1, <2>3 DEF InUse
  <2>5. QuitDone(k, base, scr, NULL, res, Dead)
    BY <1>1, <1>4, <2>2, <2>3, <2>4, QuitFrees
  <2>6. ASSUME NEW a \in Addr, heap[a] # "free" PROVE heap'[a] = heap[a]
    <3>1. h[a] = heap[a] /\ a # NULL /\ a # scr /\ k[a] = heap[a]
      BY <1>3, <2>1, <2>3, <2>6, LoaderAssumption
    <3>2. a = base => emu_debug_alloc_ptr # NULL
      BY <1>3, <2>6
    <3> QED BY <1>3, <2>1, <2>5, <3>1, <3>2 DEF QuitDone
  <2> QED BY <2>5, <2>6 DEF QuitDone
<1>5. CASE Quit(h, FormatOf(file), base, NULL, NULL, res, Dead)
  <2>1. InUse(h, base)
    BY <1>3 DEF InUse
  <2>2. QuitDone(h, base, NULL, NULL, res, Dead)
    BY <1>1, <1>3, <1>5, <2>1, QuitFrees
  <2>3. ASSUME NEW a \in Addr, heap[a] # "free" PROVE heap'[a] = heap[a]
    <3>1. h[a] = heap[a] /\ a # NULL
      BY <1>3, <2>3, LoaderAssumption
    <3>2. a = base => emu_debug_alloc_ptr # NULL
      BY <1>3, <2>3
    <3> QED BY <1>3, <2>2, <3>1, <3>2 DEF QuitDone
  <2> QED BY <2>2, <2>3 DEF QuitDone
<1> QED BY <1>2, <1>4, <1>5

LEMMA NoMemoryInv ==
    ASSUME IInv, NEW res, NoMemory(res)
    PROVE  IInv' /\ badfree' = badfree
<1>1. /\ heap' \in [Addr -> Uses] /\ badfree' = badfree
      /\ \A a \in Addr : heap[a] # "free" => heap'[a] = heap[a]
  BY NoMemoryHeap
<1>2. /\ frames' = frames /\ is_current_prgm_resident' = is_current_prgm_resident
      /\ emu_debug_alloc_ptr' = emu_debug_alloc_ptr
      /\ plh_isstartup' = plh_isstartup /\ plh_noscrredraw' = plh_noscrredraw
      /\ intmask' = intmask /\ screen' = screen /\ residents' = residents
      /\ ld_bin_format' \in Formats
  <2>1. \A f \in Files : FormatOf(f) \in Formats
    BY DEF FormatOf
  <2> QED BY <2>1 DEF NoMemory, plhVars
<1>3. (NotDebugged /\ DebugBlockHeld /\ FramesHeld /\ FramesApart
       /\ ResidentsKept /\ AskedKnown)'
  BY <1>1, <1>2, FreeBlocksOnly
<1>4. TypeOK'
  BY <1>1, <1>2 DEF IInv, TypeOK
<1>5. OutermostKnows'
  BY <1>2, ZenonT(30) DEF IInv, OutermostKnows
<1> QED BY <1>1, <1>3, <1>4, <1>5 DEF IInv

----------------------------------------------------------------------------
(***************************************************************************)
(* A program is called: a frame is pushed.                                 *)
(***************************************************************************)

\* Where malloc() puts the three blocks of a program: they are not the same, and
\* not in use but for the debug block.
NewBlocks(base, scr, argv) ==
    /\ base \in Addr /\ scr \in Addr /\ argv \in Addr
    /\ IF emu_debug_alloc_ptr = NULL THEN heap[base] = "free"
                                     ELSE base = emu_debug_alloc_ptr
    /\ heap[scr] = "free" /\ heap[argv] = "free"
    /\ base # scr /\ base # argv /\ scr # argv

Entered(base, scr, argv) ==
    /\ heap' \in [Addr -> Uses]
    /\ emu_debug_alloc_ptr = NULL => heap'[base] = "image"
    /\ heap'[scr] = "screen" /\ heap'[argv] = "argv"
    /\ \A a \in Addr : heap[a] # "free" => heap'[a] = heap[a]
    /\ \A a \in Addr : a # base /\ a # scr /\ a # argv => heap'[a] = heap[a]

LEMMA EnterBlocks ==
    ASSUME TypeOK, DebugBlockHeld,
           NEW base \in LoadBlocks \ {NULL},
           NEW scr \in Malloc(Loaded(base)) \ {NULL},
           NEW argv \in Malloc(Alloc(Loaded(base), scr, "screen")) \ {NULL},
           heap' = Alloc(Alloc(Loaded(base), scr, "screen"), argv, "argv")
    PROVE  NewBlocks(base, scr, argv) /\ Entered(base, scr, argv)
<1>0. heap \in [Addr -> Uses]
  BY DEF TypeOK
<1>1. PICK h1 : h1 = Loaded(base)
  OBVIOUS
<1>2. /\ base \in Addr /\ h1 \in [Addr -> Uses] /\ h1[base] # "free"
      /\ emu_debug_alloc_ptr = NULL => heap[base] = "free" /\ h1[base] = "image"
      /\ emu_debug_alloc_ptr # NULL => base = emu_debug_alloc_ptr
      /\ \A a \in Addr : a # base => h1[a] = heap[a]
      /\ \A a \in Addr : heap[a] # "free" => h1[a] = heap[a]
  BY <1>1, BlockOfImage
<1>4. scr \in Addr /\ h1[scr] = "free"
  BY <1>1, <1>2, MallocReturns
<1>5. PICK h2 : h2 = Alloc(h1, scr, "screen")
  OBVIOUS
<1>6. /\ h2 \in [Addr -> Uses] /\ h2[scr] = "screen"
      /\ \A a \in Addr : a # scr => h2[a] = h1[a]
  BY <1>2, <1>4, <1>5, AllocHeap
<1>7. argv \in Addr /\ h2[argv] = "free"
  BY <1>1, <1>5, <1>6, MallocReturns
<1>8. /\ heap' \in [Addr -> Uses] /\ heap'[argv] = "argv"
      /\ \A a \in Addr : a # argv => heap'[a] = h2[a]
  BY <1>1, <1>5, <1>6, <1>7, AllocHeap
<1>9. base # scr /\ base # argv /\ scr # argv
  BY <1>2, <1>4, <1>6, <1>7
<1>9a. heap[scr] = "free" /\ heap[argv] = "free"
  BY <1>2, <1>4, <1>6, <1>7, <1>9
<1>10. NewBlocks(base, scr, argv)
  BY <1>2, <1>4, <1>7, <1>9, <1>9a DEF NewBlocks
<1>11. \A a \in Addr : a # scr /\ a # argv => heap'[a] = h1[a]
  BY <1>6, <1>8
<1>12. Entered(base, scr, argv)
  BY <1>2, <1>4, <1>6, <1>7, <1>8, <1>9, <1>9a, <1>11 DEF Entered
<1> QED BY <1>10, <1>12

LEMMA EnterInv ==
    ASSUME IInv, NEW res \in Callers \cup {NULL}, Enter(res)
    PROVE  IInv' /\ badfree' = badfree
<1>1. /\ TypeOK /\ NotDebugged /\ DebugBlockHeld /\ FramesHeld /\ FramesApart
      /\ ResidentsKept /\ AskedKnown /\ OutermostKnows
  BY DEF IInv
<1>2. /\ Len(frames) \in Nat /\ Len(frames) < MaxFrames
      /\ intmask' = "off" /\ is_current_prgm_resident' = FALSE
      /\ badfree' = badfree /\ emu_debug_alloc_ptr' = emu_debug_alloc_ptr
      /\ plh_isstartup' = plh_isstartup /\ plh_noscrredraw' = plh_noscrredraw
      /\ screen' = screen /\ residents' = residents
  BY FrameFacts DEF Enter, plhVars
<1>3. PICK file, base, scr, argv, f :
        /\ file \in Files \cap {"ndless", "bflt"}
        /\ base \in LoadBlocks \ {NULL}
        /\ scr \in Malloc(Loaded(base)) \ {NULL}
        /\ argv \in Malloc(Alloc(Loaded(base), scr, "screen")) \ {NULL}
        /\ heap' = Alloc(Alloc(Loaded(base), scr, "screen"), argv, "argv")
        /\ f = [base |-> base, savedscr |-> scr, argv |-> argv,
                resident_ptr |-> res, intmask |-> intmask, picture |-> screen,
                format |-> FormatOf(file), asked |-> "never"]
        /\ frames' = Append(Outer, f)
        /\ ld_bin_format' = FormatOf(file)
  BY DEF Enter
<1>4. NewBlocks(base, scr, argv) /\ Entered(base, scr, argv)
  BY <1>1, <1>3, EnterBlocks
<1>5. FormatOf(file) \in Formats
  BY DEF FormatOf
<1>6. f \in Frame
  BY <1>1, <1>3, <1>4, <1>5 DEF Frame, TypeOK, NewBlocks
<1>7. /\ f.base = base /\ f.savedscr = scr /\ f.argv = argv
      /\ f.intmask = intmask /\ f.picture = screen /\ f.asked = "never"
  BY <1>3
<1>8. PICK n \in Nat : n = Len(frames)
  BY <1>2
<1>9. /\ frames' \in Seq(Frame) /\ Len(frames') = n + 1
      /\ DOMAIN frames' = 1 .. (n + 1)
      /\ frames'[n + 1] = f
      /\ \A i \in 1 .. n : SameBlocks(frames'[i], frames[i]) /\ frames'[i].asked # "last"
  <2>1. /\ Outer \in Seq(Frame) /\ Len(Outer) = n
        /\ \A i \in 1 .. n : SameBlocks(Outer[i], frames[i]) /\ Outer[i].asked # "last"
    BY <1>1, <1>8, OuterFrames
  <2>2. PICK fs \in Seq(Frame) : fs = Outer
    BY <2>1
  <2>3. /\ frames' \in Seq(Frame) /\ Len(frames') = n + 1 /\ frames'[n + 1] = f
        /\ \A i \in 1 .. n : frames'[i] = fs[i]
    BY <1>3, <1>6, <2>1, <2>2, PushedFrame
  <2>4. DOMAIN frames' = 1 .. (n + 1)
    BY <2>3, FramesLength
  <2> QED BY <2>1, <2>2, <2>3, <2>4
<1>10. TypeOK'
  <2>1. Len(frames') <= MaxFrames
    BY <1>2, <1>8, <1>9, LoaderAssumption
  <2> QED BY <1>1, <1>2, <1>3, <1>4, <1>5, <1>9, <2>1 DEF TypeOK, Entered
<1>11. NotDebugged' /\ DebugBlockHeld'
  <2>1. emu_debug_alloc_ptr \in Addr \cup {NULL}
    BY <1>1 DEF TypeOK
  <2> QED BY <1>1, <1>2, <1>4, <2>1 DEF NotDebugged, DebugBlockHeld, Entered
\* The frames below hold blocks in use, the new one holds blocks that were free.
<1>12. ASSUME NEW i \in 1 .. n
       PROVE  /\ Held(heap', emu_debug_alloc_ptr, frames'[i])
              /\ emu_debug_alloc_ptr = NULL => frames[i].base # base
              /\ frames[i].savedscr # scr /\ frames[i].argv # argv
              /\ NoDebugger => frames'[i].base \notin residents
  <2>1. /\ Held(heap, emu_debug_alloc_ptr, frames[i])
        /\ frames[i].base \in Addr /\ frames[i].savedscr \in Addr
        /\ frames[i].argv \in Addr
        /\ NoDebugger => frames[i].base \notin residents
    BY <1>8, FrameFacts
  <2>2. SameBlocks(frames'[i], frames[i])
    BY <1>9
  <2>3. Held(heap', emu_debug_alloc_ptr, frames'[i])
    BY <1>4, <2>1, <2>2 DEF Held, SameBlocks, Entered
  <2> QED BY <1>4, <2>1, <2>2, <2>3 DEF Held, SameBlocks, NewBlocks
<1>13. FramesHeld'
  <2>1. Held(heap', emu_debug_alloc_ptr, f)
    BY <1>4, <1>7 DEF Held, Entered, NewBlocks
  <2>2. ASSUME NEW i \in 1 .. (n + 1)
        PROVE  Held(heap', emu_debug_alloc_ptr, frames'[i])
    BY <1>9, <1>12, <2>1
  <2> QED BY <1>2, <1>9, <2>2 DEF FramesHeld
<1>14. FramesApart'
  <2> SUFFICES ASSUME NEW i \in 1 .. (n + 1), NEW j \in 1 .. (n + 1), i # j
               PROVE  /\ emu_debug_alloc_ptr = NULL =>
                            frames'[i].base # frames'[j].base
                      /\ frames'[i].savedscr # frames'[j].savedscr
                      /\ frames'[i].argv # frames'[j].argv
    BY <1>2, <1>9 DEF FramesApart
  <2>1. CASE i \in 1 .. n /\ j \in 1 .. n
    <3>1. i \in DOMAIN frames /\ j \in DOMAIN frames
      BY <1>8, <2>1, FrameFacts
    <3> QED BY <1>1, <1>9, <2>1, <3>1 DEF FramesApart, SameBlocks
  <2>2. CASE i = n + 1 /\ j \in 1 .. n
    BY <1>7, <1>9, <1>12, <2>2 DEF SameBlocks
  <2>3. CASE j = n + 1 /\ i \in 1 .. n
    BY <1>7, <1>9, <1>12, <2>3 DEF SameBlocks
  <2> QED BY <2>1, <2>2, <2>3
<1>15. ResidentsKept'
  <2> SUFFICES ASSUME NoDebugger PROVE ResidentsLive'
    BY DEF ResidentsKept
  <2>1. residents \subseteq Addr /\ \A a \in residents : heap[a] = "image"
    BY <1>1 DEF ResidentsKept, ResidentsLive, TypeOK
  <2>2. heap[base] = "free"
    BY <1>1, <1>4 DEF NotDebugged, NewBlocks
  <2>3. \A a \in residents : heap'[a] = "image" /\ a # base
    BY <1>4, <2>1, <2>2 DEF Entered
  <2>4. ASSUME NEW i \in 1 .. (n + 1) PROVE frames'[i].base \notin residents
    BY <1>7, <1>9, <1>12, <2>3
  <2> QED BY <1>2, <1>9, <2>3, <2>4 DEF ResidentsLive
<1>16. AskedKnown'
  <2>1. ASSUME NEW i \in 1 .. (n + 1) PROVE frames'[i].asked # "last"
    BY <1>7, <1>9
  <2> QED BY <1>9, <2>1 DEF AskedKnown
<1>17. OutermostKnows'
  <2>1. frames' # <<>>
    BY <1>9, FramesLength
  <2>2. CASE n = 0
    <3>1. frames = <<>> /\ frames'[1] = f
      BY <1>8, <1>9, <2>2, FrameFacts
    <3>2. intmask = "on" /\ (plh_noscrredraw \/ screen = 0)
      BY <1>1, <3>1 DEF OutermostKnows
    <3> QED BY <1>2, <1>7, <2>1, <3>1, <3>2 DEF OutermostKnows
  <2>3. CASE n # 0
    <3>1. frames # <<>> /\ 1 \in 1 .. n
      BY <1>8, <2>3, FrameFacts
    <3>2. frames[1].intmask = "on" /\ (plh_noscrredraw \/ frames[1].picture = 0)
      BY <1>1, <3>1 DEF OutermostKnows
    <3>3. frames'[1].intmask = frames[1].intmask /\ frames'[1].picture = frames[1].picture
      BY <1>9, <3>1 DEF SameBlocks
    <3> QED BY <1>2, <2>1, <3>2, <3>3 DEF OutermostKnows
  <2> QED BY <2>2, <2>3
<1> QED
  BY <1>2, <1>10, <1>11, <1>13, <1>14, <1>15, <1>16, <1>17 DEF IInv

LEMMA ExecInv ==
    ASSUME GdbWaits, IInv, NEW res \in Callers \cup {NULL}, Exec(res)
    PROVE  IInv' /\ badfree' = badfree
<1>1. CASE NoExtension
  BY <1>1, Unchanged DEF NoExtension
<1>2. CASE CannotLoad
  BY <1>2, CannotLoadInv
<1>3. CASE NoMemory(res)
  BY <1>3, NoMemoryInv
<1>4. CASE Enter(res)
  BY <1>4, EnterInv
<1> QED BY <1>1, <1>2, <1>3, <1>4 DEF Exec

----------------------------------------------------------------------------
(***************************************************************************)
(* A program returns: the top frame is popped.                             *)
(***************************************************************************)

\* A frame below the top shares no block with the top, whose blocks are in use.
LEMMA TopFrame ==
    ASSUME IInv, frames # <<>>
    PROVE  /\ Len(frames) \in 1 .. Len(frames)
           /\ Len(frames) - 1 \in 0 .. Len(frames)
           /\ Top \in Frame
           /\ InUse(heap, Top.base)
           /\ emu_debug_alloc_ptr = NULL => heap[Top.base] = "image"
           /\ InUse(heap, Top.savedscr) /\ heap[Top.savedscr] = "screen"
           /\ InUse(heap, Top.argv) /\ heap[Top.argv] = "argv"
           /\ Top.intmask \in Masks /\ Top.picture \in 0 .. MaxFrames
           /\ \A i \in 1 .. (Len(frames) - 1) :
                 /\ emu_debug_alloc_ptr = NULL => frames[i].base # Top.base
                 /\ frames[i].savedscr # Top.savedscr
                 /\ frames[i].argv # Top.argv
<1>1. PICK n \in Nat : n = Len(frames)
  BY FrameFacts
<1>2. n \in 1 .. n /\ n - 1 \in 0 .. n /\ n > 0
  BY <1>1, FrameFacts
<1>3. Top = frames[n] /\ DOMAIN frames = 1 .. n
  BY <1>1, FrameFacts DEF Top
<1>4. /\ Top \in Frame /\ Top.base \in Addr /\ Top.savedscr \in Addr
      /\ Top.argv \in Addr /\ Top.intmask \in Masks /\ Top.picture \in 0 .. MaxFrames
      /\ Held(heap, emu_debug_alloc_ptr, Top)
  BY <1>1, <1>2, <1>3, FrameFacts
<1>5. ASSUME NEW i \in 1 .. (n - 1)
      PROVE  /\ emu_debug_alloc_ptr = NULL => frames[i].base # Top.base
             /\ frames[i].savedscr # Top.savedscr
             /\ frames[i].argv # Top.argv
  <2>1. i \in 1 .. n /\ i # n
    BY <1>2
  <2> QED BY <1>2, <1>3, <2>1 DEF IInv, FramesApart
<1>6. /\ InUse(heap, Top.base)
      /\ emu_debug_alloc_ptr = NULL => heap[Top.base] = "image"
      /\ InUse(heap, Top.savedscr) /\ heap[Top.savedscr] = "screen"
      /\ InUse(heap, Top.argv) /\ heap[Top.argv] = "argv"
  BY <1>4 DEF Held, InUse, IInv, DebugBlockHeld
<1> QED BY <1>1, <1>2, <1>4, <1>5, <1>6

LEMMA ReturnInv ==
    ASSUME IInv, NEW ret \in Rets, Return(ret)
    PROVE  IInv' /\ badfree' = badfree
<1>1. /\ TypeOK /\ NotDebugged /\ DebugBlockHeld /\ FramesHeld /\ FramesApart
      /\ ResidentsKept /\ AskedKnown /\ OutermostKnows
      /\ heap \in [Addr -> Uses] /\ residents \subseteq Addr
      /\ badfree \in BOOLEAN /\ emu_debug_alloc_ptr \in Addr \cup {NULL}
  BY DEF IInv, TypeOK
<1>2. /\ frames # <<>>
      /\ screen' = IF plh_noscrredraw THEN screen ELSE Top.picture
      /\ intmask' = Top.intmask
      /\ Quit(heap, ld_bin_format, Top.base, Top.savedscr, Top.argv,
              Top.resident_ptr, ret)
      /\ frames' = SubSeq(frames, 1, Len(frames) - 1)
      /\ residents' = residents \cup
            (IF Top.asked = "last" \/ (ret # Dead /\ Top.resident_ptr # NULL)
             THEN {Top.base} ELSE {})
      /\ is_current_prgm_resident' = is_current_prgm_resident
      /\ ld_bin_format' = ld_bin_format /\ emu_debug_alloc_ptr' = emu_debug_alloc_ptr
      /\ plh_isstartup' = plh_isstartup /\ plh_noscrredraw' = plh_noscrredraw
  BY DEF Return, formatVars, plhVars
<1>3. PICK n \in Nat : n = Len(frames)
  BY FrameFacts
<1>4. /\ n \in 1 .. n /\ n - 1 \in 0 .. n /\ n > 0
      /\ DOMAIN frames = 1 .. n /\ Top = frames[n]
  BY <1>2, <1>3, FrameFacts DEF Top
<1>5. PICK t \in Frame : t = Top
  BY <1>2, TopFrame
<1>6. /\ InUse(heap, t.base)
      /\ emu_debug_alloc_ptr = NULL => heap[t.base] = "image"
      /\ InUse(heap, t.savedscr) /\ heap[t.savedscr] = "screen"
      /\ InUse(heap, t.argv) /\ heap[t.argv] = "argv"
      /\ t.intmask \in Masks /\ t.picture \in 0 .. MaxFrames
      /\ \A i \in 1 .. (n - 1) :
            /\ emu_debug_alloc_ptr = NULL => frames[i].base # t.base
            /\ frames[i].savedscr # t.savedscr
            /\ frames[i].argv # t.argv
  BY <1>2, <1>3, <1>5, TopFrame
<1>7. /\ t.base \in Addr /\ t.base # t.savedscr /\ t.base # t.argv
      /\ emu_debug_alloc_ptr # NULL => t.base = emu_debug_alloc_ptr
  <2>1. Held(heap, emu_debug_alloc_ptr, t)
    BY <1>3, <1>4, <1>5, FrameFacts
  <2> QED BY <1>1, <1>6, <2>1 DEF InUse, Held, DebugBlockHeld
<1>8. QuitDone(heap, t.base, t.savedscr, t.argv, t.resident_ptr, ret)
  <2>1. Quit(heap, ld_bin_format, t.base, t.savedscr, t.argv, t.resident_ptr, ret)
    BY <1>2, <1>5, Zenon
  <2> QED BY <1>1, <1>6, <2>1, QuitFrees
<1>9. /\ frames' \in Seq(Frame) /\ Len(frames') = n - 1
      /\ DOMAIN frames' = 1 .. (n - 1)
      /\ \A i \in 1 .. (n - 1) : frames'[i] = frames[i]
  <2>1. frames \in Seq(Frame) /\ n - 1 \in 0 .. Len(frames)
    BY <1>1, <1>3, <1>4 DEF TypeOK
  <2>2. /\ frames' \in Seq(Frame) /\ Len(frames') = n - 1
        /\ \A i \in 1 .. (n - 1) : frames'[i] = frames[i]
    BY <1>2, <1>3, <2>1, PrefixOfFrames
  <2> QED BY <2>2, FramesLength
\* The frames below keep their blocks: Return frees the top's blocks only.
<1>10. ASSUME NEW i \in 1 .. (n - 1)
       PROVE  /\ i \in 1 .. n /\ i # n
              /\ Held(heap', emu_debug_alloc_ptr, frames'[i])
              /\ NoDebugger => frames'[i].base \notin residents'
  <2>1. i \in 1 .. n /\ i # n
    BY <1>4
  <2>2. /\ frames[i].base \in Addr /\ frames[i].savedscr \in Addr
        /\ frames[i].argv \in Addr
        /\ Held(heap, emu_debug_alloc_ptr, frames[i])
        /\ NoDebugger => frames[i].base \notin residents
    BY <1>3, <2>1, FrameFacts
  <2>3. Held(heap', emu_debug_alloc_ptr, frames[i])
    <3>1. heap'[frames[i].savedscr] = heap[frames[i].savedscr]
      BY <1>1, <1>6, <1>7, <1>8, <2>2 DEF Held, QuitDone, DebugBlockHeld
    <3>2. heap'[frames[i].argv] = heap[frames[i].argv]
      BY <1>1, <1>6, <1>7, <1>8, <2>2 DEF Held, QuitDone, DebugBlockHeld
    <3>3. emu_debug_alloc_ptr = NULL =>
              heap'[frames[i].base] = heap[frames[i].base]
      BY <1>6, <1>8, <2>2 DEF Held, QuitDone
    <3> QED BY <2>2, <3>1, <3>2, <3>3 DEF Held
  <2>4. NoDebugger => frames[i].base \notin residents'
    BY <1>1, <1>2, <1>5, <1>6, <2>2 DEF NotDebugged
  <2> QED BY <1>9, <2>1, <2>3, <2>4
<1>11. TypeOK'
  <2>1. heap' \in [Addr -> Uses] /\ badfree' \in BOOLEAN
    BY <1>1, <1>8, Zenon DEF QuitDone
  <2>2. Len(frames') <= MaxFrames
    BY <1>1, <1>3, <1>4, <1>9, LoaderAssumption DEF TypeOK
  <2>3. screen' \in 0 .. MaxFrames /\ intmask' \in Masks
    <3>1. screen \in 0 .. MaxFrames
      BY <1>1 DEF TypeOK
    <3> QED BY <1>2, <1>5, <1>6, <3>1
  <2>4. residents' \subseteq Addr
    BY <1>1, <1>2, <1>5, <1>7
  <2> QED BY <1>1, <1>2, <1>9, <2>1, <2>2, <2>3, <2>4 DEF TypeOK
<1>12. NotDebugged' /\ DebugBlockHeld' /\ badfree' = badfree
  <2>1. emu_debug_alloc_ptr # NULL => heap'[emu_debug_alloc_ptr] = "debug"
    BY <1>1, <1>7, <1>8 DEF DebugBlockHeld, QuitDone
  <2> QED BY <1>1, <1>2, <1>8, <2>1 DEF NotDebugged, DebugBlockHeld, QuitDone
<1>13. FramesHeld'
  BY <1>2, <1>9, <1>10 DEF FramesHeld
<1>14. FramesApart'
  BY <1>1, <1>2, <1>4, <1>9, <1>10 DEF FramesApart
<1>15. ResidentsKept'
  <2> SUFFICES ASSUME NoDebugger PROVE ResidentsLive'
    BY DEF ResidentsKept
  <2>0. ResidentsLive /\ emu_debug_alloc_ptr = NULL
    BY <1>1 DEF ResidentsKept, NotDebugged
  <2>1. ASSUME NEW a \in residents' PROVE heap'[a] = "image"
    <3>1. CASE a \in residents
      <4>1. a \in Addr /\ heap[a] = "image" /\ a # t.base
        BY <1>1, <1>3, <1>4, <1>5, <2>0, <3>1, FrameFacts DEF ResidentsLive
      <4>2. a # t.savedscr /\ a # t.argv
        BY <1>6, <4>1
      <4> QED BY <1>8, <4>1, <4>2 DEF QuitDone
    <3>2. CASE a \notin residents
      <4>1. a = t.base /\ (t.asked = "last" \/ (ret # Dead /\ t.resident_ptr # NULL))
        BY <1>2, <1>5, <2>1, <3>2
      <4>2. t.asked = "last" => is_current_prgm_resident
        BY <1>1, <1>4, <1>5 DEF AskedKnown
      <4>3. Stays(t.resident_ptr, ret)
        BY <4>1, <4>2, Zenon DEF Stays
      <4> QED BY <1>6, <1>7, <1>8, <2>0, <4>1, <4>3 DEF QuitDone
    <3> QED BY <3>1, <3>2
  <2> QED BY <1>9, <1>10, <2>1 DEF ResidentsLive
<1>16. AskedKnown'
  <2>1. ASSUME NEW i \in 1 .. (n - 1) PROVE frames'[i].asked # "last"
    BY <1>1, <1>3, <1>4, <1>9, <1>10 DEF AskedKnown
  <2> QED BY <1>9, <2>1 DEF AskedKnown
<1>17. OutermostKnows'
  <2>1. frames[1].intmask = "on" /\ (plh_noscrredraw \/ frames[1].picture = 0)
    BY <1>1, <1>2 DEF OutermostKnows
  <2>2. CASE n = 1
    <3>1. t = frames[1] /\ frames' = <<>>
      BY <1>4, <1>5, <1>9, <2>2, FramesLength
    <3>2. intmask' = "on" /\ (plh_noscrredraw' \/ screen' = 0)
      BY <1>2, <1>5, <2>1, <3>1, Zenon
    <3> QED BY <3>1, <3>2 DEF OutermostKnows
  <2>3. CASE n # 1
    <3>1. 1 \in 1 .. (n - 1)
      BY <1>4, <2>3
    <3>2. frames' # <<>> /\ frames'[1] = frames[1]
      BY <1>9, <3>1, FramesLength
    <3> QED BY <1>2, <2>1, <3>2 DEF OutermostKnows
  <2> QED BY <2>2, <2>3
<1> QED
  BY <1>11, <1>12, <1>13, <1>14, <1>15, <1>16, <1>17 DEF IInv

----------------------------------------------------------------------------
(***************************************************************************)
(* What the running program does, and the startup of the OS.               *)
(***************************************************************************)

LEMMA SetResidentInv ==
    ASSUME IInv, SetResident
    PROVE  IInv' /\ badfree' = badfree
<1>1. /\ TypeOK /\ NotDebugged /\ DebugBlockHeld /\ FramesHeld /\ FramesApart
      /\ ResidentsKept /\ AskedKnown /\ OutermostKnows
  BY DEF IInv
<1>2. /\ frames # <<>> /\ is_current_prgm_resident' = TRUE
      /\ frames' = [frames EXCEPT ![Len(frames)] = Asking(Top, "last")]
      /\ heap' = heap /\ badfree' = badfree
      /\ ld_bin_format' = ld_bin_format /\ emu_debug_alloc_ptr' = emu_debug_alloc_ptr
      /\ plh_isstartup' = plh_isstartup /\ plh_noscrredraw' = plh_noscrredraw
      /\ intmask' = intmask /\ screen' = screen /\ residents' = residents
  BY DEF SetResident, heapVars, plhVars
<1>3. PICK n \in Nat : n = Len(frames)
  BY FrameFacts
<1>4. /\ n \in 1 .. n /\ n > 0 /\ DOMAIN frames = 1 .. n /\ Top = frames[n]
      /\ Top \in Frame /\ frames \in Seq(Frame)
      /\ \A i \in 1 .. n : frames[i] \in Frame
  BY <1>1, <1>2, <1>3, FrameFacts, TopFrame DEF Top, TypeOK
<1>5. PICK f \in Frame : f = Asking(Top, "last")
  BY <1>4, AskingFrame
<1>6. SameBlocks(f, frames[n])
  BY <1>4, <1>5, AskingFrame DEF SameBlocks
<1>7. /\ frames' = [i \in 1 .. n |-> IF i = n THEN f ELSE frames[i]]
  BY <1>2, <1>3, <1>4, <1>5
<1>8. /\ frames' \in Seq(Frame) /\ Len(frames') = n /\ DOMAIN frames' = 1 .. n
  BY <1>3, <1>4, <1>7
<1>9. ASSUME NEW i \in 1 .. n
      PROVE  /\ SameBlocks(frames'[i], frames[i])
             /\ i # n => frames'[i] = frames[i]
  BY <1>6, <1>7 DEF SameBlocks
<1>10. TypeOK'
  BY <1>1, <1>2, <1>3, <1>8 DEF TypeOK
<1>11. NotDebugged' /\ DebugBlockHeld'
  BY <1>1, <1>2 DEF NotDebugged, DebugBlockHeld
<1>12. FramesHeld'
  BY <1>1, <1>2, <1>4, <1>8, <1>9 DEF FramesHeld, Held, SameBlocks
<1>13. FramesApart'
  BY <1>1, <1>2, <1>4, <1>8, <1>9 DEF FramesApart, SameBlocks
<1>14. ResidentsKept'
  BY <1>1, <1>2, <1>4, <1>8, <1>9 DEF ResidentsKept, ResidentsLive, SameBlocks
<1>15. AskedKnown'
  BY <1>1, <1>2, <1>3, <1>4, <1>8, <1>9 DEF AskedKnown
<1>16. OutermostKnows'
  <2>1. frames' # <<>> /\ 1 \in 1 .. n
    BY <1>4, <1>8, FramesLength
  <2> QED BY <1>1, <1>2, <1>9, <2>1 DEF OutermostKnows, SameBlocks
<1> QED
  BY <1>2, <1>10, <1>11, <1>12, <1>13, <1>14, <1>15, <1>16 DEF IInv

\* A step that leaves the heap, the frames and what is known about them alone.
LEMMA HeapAloneInv ==
    ASSUME IInv, OutermostKnows',
           heap' = heap, badfree' \in BOOLEAN, frames' = frames,
           is_current_prgm_resident' = is_current_prgm_resident,
           ld_bin_format' = ld_bin_format, emu_debug_alloc_ptr' = emu_debug_alloc_ptr,
           plh_isstartup' \in BOOLEAN, plh_noscrredraw' \in BOOLEAN,
           intmask' \in Masks, screen' \in 0 .. MaxFrames, residents' = residents
    PROVE  IInv'
<1>1. TypeOK'
  BY DEF IInv, TypeOK
<1>2. (NotDebugged /\ DebugBlockHeld /\ FramesHeld /\ FramesApart
       /\ ResidentsKept /\ AskedKnown)'
  BY FreeBlocksOnly
<1> QED BY <1>1, <1>2 DEF IInv

LEMMA StartupInv ==
    ASSUME IInv, StartupBegin \/ StartupEnd
    PROVE  IInv' /\ badfree' = badfree
<1> USE DEF StartupBegin, StartupEnd, heapVars, formatVars
<1>1. OutermostKnows'
  BY DEF IInv, OutermostKnows
<1>2. plh_isstartup' \in BOOLEAN
  BY Zenon
<1> QED BY <1>1, <1>2, HeapAloneInv DEF IInv, TypeOK

LEMMA ProgramActsInv ==
    ASSUME IInv, NoScrRedraw \/ Draw \/ \E mask \in Masks : SetMask(mask)
    PROVE  IInv' /\ badfree' = badfree
<1> USE DEF heapVars, formatVars, plhVars
<1>1. CASE NoScrRedraw
  <2>1. OutermostKnows' /\ plh_noscrredraw' \in BOOLEAN
    BY <1>1, Zenon DEF IInv, NoScrRedraw, OutermostKnows
  <2> QED BY <1>1, <2>1, HeapAloneInv DEF NoScrRedraw, IInv, TypeOK
<1>2. CASE Draw
  <2>1. OutermostKnows'
    BY <1>2 DEF IInv, Draw, OutermostKnows
  <2>2. screen' \in 0 .. MaxFrames
    BY <1>2, FrameFacts, LoaderAssumption DEF IInv, Draw, TypeOK
  <2> QED BY <1>2, <2>1, <2>2, HeapAloneInv DEF Draw, IInv, TypeOK
<1>3. CASE \E mask \in Masks : SetMask(mask)
  <2>1. OutermostKnows'
    BY <1>3 DEF IInv, SetMask, OutermostKnows
  <2> QED BY <1>3, <2>1, HeapAloneInv DEF SetMask, IInv, TypeOK
<1> QED BY <1>1, <1>2, <1>3

----------------------------------------------------------------------------

(***************************************************************************)
(* GDB attaches or detaches while no program runs.                         *)
(***************************************************************************)

LEMMA DebuggerInv ==
    ASSUME GdbWaits, IInv, emu_debug_alloc \/ emu_debug_free
    PROVE  IInv' /\ badfree' = badfree
<1>1. /\ TypeOK /\ DebugBlockHeld /\ AskedKnown /\ OutermostKnows
      /\ heap \in [Addr -> Uses] /\ badfree \in BOOLEAN
      /\ emu_debug_alloc_ptr \in Addr \cup {NULL}
  BY DEF IInv, TypeOK
<1>2. DebuggerActs /\ ~NoDebugger /\ frames = <<>>
  BY DEF emu_debug_alloc, emu_debug_free, GdbWaits, NoDebugger, DebuggerActs
<1>3. /\ frames' = frames /\ ld_bin_format' = ld_bin_format
      /\ is_current_prgm_resident' = is_current_prgm_resident
      /\ plh_isstartup' = plh_isstartup /\ plh_noscrredraw' = plh_noscrredraw
      /\ intmask' = intmask /\ screen' = screen /\ residents' = residents
  BY DEF emu_debug_alloc, emu_debug_free, formatVars, plhVars
<1>4. /\ heap' \in [Addr -> Uses] /\ badfree' = badfree
      /\ emu_debug_alloc_ptr' \in Addr \cup {NULL}
      /\ DebugBlockHeld'
  <2>1. CASE emu_debug_alloc
    <3>1. PICK p \in Malloc(heap) :
            /\ emu_debug_alloc_ptr' = p
            /\ heap' = IF p = NULL THEN heap ELSE Alloc(heap, p, "debug")
      BY <2>1 DEF emu_debug_alloc
    <3>2. badfree' = badfree
      BY <2>1 DEF emu_debug_alloc
    <3>3. CASE p = NULL
      BY <1>1, <3>1, <3>2, <3>3 DEF DebugBlockHeld
    <3>4. CASE p # NULL
      <4>1. p \in Addr
        BY <1>1, <3>4, MallocReturns
      <4>2. heap' \in [Addr -> Uses] /\ heap'[p] = "debug"
        BY <1>1, <3>1, <3>4, <4>1, AllocHeap
      <4> QED BY <3>1, <3>2, <4>1, <4>2 DEF DebugBlockHeld
    <3> QED BY <3>3, <3>4
  <2>2. CASE emu_debug_free
    <3>1. /\ heap' = Freed(heap, {emu_debug_alloc_ptr})
          /\ badfree' = (badfree \/ BadFree(heap, {emu_debug_alloc_ptr}))
          /\ emu_debug_alloc_ptr' = NULL
      BY <2>2 DEF emu_debug_free
    <3>2. ~BadFree(heap, {emu_debug_alloc_ptr})
      BY <1>1 DEF BadFree, DebugBlockHeld
    <3>3. badfree' = badfree
      BY <1>1, <3>1, <3>2, Zenon
    <3> QED BY <1>1, <3>1, <3>3, FreedHeap DEF DebugBlockHeld
  <2> QED BY <2>1, <2>2
<1>5. TypeOK'
  BY <1>1, <1>3, <1>4 DEF TypeOK
<1>6. frames' = <<>> /\ DOMAIN frames' = {}
  BY <1>2, <1>3
<1>7. (NotDebugged /\ FramesHeld /\ FramesApart /\ ResidentsKept /\ AskedKnown)'
  BY <1>2, <1>6 DEF NotDebugged, FramesHeld, FramesApart, ResidentsKept, AskedKnown
<1>8. OutermostKnows'
  BY <1>1, <1>3 DEF OutermostKnows
<1> QED BY <1>4, <1>5, <1>7, <1>8 DEF IInv

LEMMA StepInv ==
    ASSUME GdbWaits, IInv, [Next]_vars
    PROVE  IInv' /\ badfree' = badfree
<1>1. CASE OpenDocument
  BY <1>1, ExecInv DEF OpenDocument
<1>2. CASE StartupBegin \/ StartupEnd
  BY <1>2, StartupInv
<1>3. CASE StartupExec
  BY <1>3, ExecInv DEF StartupExec
<1>4. CASE NlExec
  BY <1>4, ExecInv DEF NlExec
<1>5. CASE SetResident
  BY <1>5, SetResidentInv
<1>6. CASE NoScrRedraw \/ Draw \/ \E mask \in Masks : SetMask(mask)
  BY <1>6, ProgramActsInv
<1>7. CASE \E ret \in Rets : Return(ret)
  BY <1>7, ReturnInv
<1>8. CASE emu_debug_alloc \/ emu_debug_free
  BY <1>8, DebuggerInv
<1>9. CASE UNCHANGED vars
  BY <1>9, Unchanged
<1> QED
  BY <1>1, <1>2, <1>3, <1>4, <1>5, <1>6, <1>7, <1>8, <1>9 DEF Next

\* The loader keeps its invariant, however deep programs run one another and
\* whether or not malloc() fails.
THEOREM Invariance == GdbWaits /\ Spec => []IInv
<1> SUFFICES ASSUME GdbWaits PROVE Spec => []IInv
  OBVIOUS
<1>1. IInv /\ [Next]_vars => IInv'
  BY StepInv
<1> QED BY InitInv, <1>1, PTL DEF Spec

\* The state stays well-typed: no pointer of a frame is ever NULL.
THEOREM TypeCorrect == GdbWaits /\ Spec => []TypeOK
<1>1. IInv => TypeOK
  BY DEF IInv
<1> QED BY Invariance, <1>1, PTL

\* The image, the saved screen and the argv of every program that runs are
\* blocks of its own until its own return gives them back.
THEOREM BlocksStayInUse == NoDebugger /\ Spec => []BlocksInUse
<1> SUFFICES ASSUME NoDebugger PROVE Spec => []BlocksInUse
  OBVIOUS
<1>1. IInv => BlocksInUse
  BY DEF IInv, NotDebugged, FramesHeld, FramesApart, Held, BlocksInUse
<1> QED BY Invariance, <1>1, PTL DEF GdbWaits

\* The exits of ld_exec_with_args() free blocks in use and NULL only, and so
\* does emu_debug_free().
THEOREM FreesAreGood == GdbWaits /\ Spec => []NoBadFree
<1> SUFFICES ASSUME GdbWaits PROVE Spec => []NoBadFree
  OBVIOUS
<1>1. Init => NoBadFree
  BY DEF Init, NoBadFree
<1>2. IInv /\ NoBadFree /\ [Next]_vars => NoBadFree'
  BY StepInv DEF NoBadFree
<1> QED BY Invariance, <1>1, <1>2, PTL DEF Spec

\* A program that has stayed resident keeps its block for ever.
THEOREM ResidentsStayLive == NoDebugger /\ Spec => []ResidentsLive
<1> SUFFICES ASSUME NoDebugger PROVE Spec => []ResidentsLive
  OBVIOUS
<1>1. IInv => ResidentsLive
  BY DEF IInv, ResidentsKept
<1> QED BY Invariance, <1>1, PTL DEF GdbWaits

\* When no program runs the OS has the interrupts it had before.
THEOREM MaskIsGivenBack == GdbWaits /\ Spec => []MaskGivenBack
<1>1. IInv => MaskGivenBack
  BY DEF IInv, OutermostKnows, MaskGivenBack
<1> QED BY Invariance, <1>1, PTL

\* When no program runs the OS has its screen, unless one asked for no redraw.
THEOREM ScreenIsGivenBack == GdbWaits /\ Spec => []ScreenGivenBack
<1>1. IInv => ScreenGivenBack
  BY DEF IInv, OutermostKnows, ScreenGivenBack
<1> QED BY Invariance, <1>1, PTL

----------------------------------------------------------------------------
(***************************************************************************)
(* Programs run one at a time: no nl_exec().  The globals then speak of    *)
(* the program that runs.                                                  *)
(***************************************************************************)

OneAtATime ==
    /\ Len(frames) <= 1
    /\ \A i \in DOMAIN frames :
          /\ frames[i].asked # "early"
          /\ frames[i].asked = "last" <=> is_current_prgm_resident
          /\ ld_bin_format # "LD_ERROR_BIN"

\* The one frame a program is called with: what it holds and what the globals
\* say of it.
FirstFrame(f) ==
    /\ frames' = <<f>> /\ Len(frames') = 1 /\ DOMAIN frames' = {1} /\ frames'[1] = f
    /\ NewBlocks(f.base, f.savedscr, f.argv)
    /\ Entered(f.base, f.savedscr, f.argv)
    /\ f.asked = "never"
    /\ is_current_prgm_resident' = FALSE /\ ld_bin_format' # "LD_ERROR_BIN"
    /\ emu_debug_alloc_ptr' = emu_debug_alloc_ptr /\ residents' = residents

LEMMA EnterFirst ==
    ASSUME IInv, frames = <<>>, Enter(NULL)
    PROVE  \E f \in Frame : FirstFrame(f)
<1>1. TypeOK /\ DebugBlockHeld /\ intmask \in Masks /\ screen \in 0 .. MaxFrames
  BY DEF IInv, TypeOK
<1>2. PICK file, base, scr, argv, f :
        /\ file \in Files \cap {"ndless", "bflt"}
        /\ base \in LoadBlocks \ {NULL}
        /\ scr \in Malloc(Loaded(base)) \ {NULL}
        /\ argv \in Malloc(Alloc(Loaded(base), scr, "screen")) \ {NULL}
        /\ heap' = Alloc(Alloc(Loaded(base), scr, "screen"), argv, "argv")
        /\ f = [base |-> base, savedscr |-> scr, argv |-> argv,
                resident_ptr |-> NULL, intmask |-> intmask, picture |-> screen,
                format |-> FormatOf(file), asked |-> "never"]
        /\ frames' = Append(Outer, f)
        /\ ld_bin_format' = FormatOf(file)
  BY DEF Enter
<1>3. NewBlocks(base, scr, argv) /\ Entered(base, scr, argv)
  BY <1>1, <1>2, EnterBlocks
<1>4. FormatOf(file) \in Formats /\ FormatOf(file) # "LD_ERROR_BIN"
  BY DEF FormatOf
<1>5. f \in Frame
  BY <1>1, <1>2, <1>3, <1>4 DEF Frame, NewBlocks
<1>6. f.base = base /\ f.savedscr = scr /\ f.argv = argv /\ f.asked = "never"
  BY <1>2
<1>7. frames' = <<f>>
  <2>1. Outer = <<>>
    BY DEF Outer
  <2> QED BY <1>2, <2>1
<1>8. /\ is_current_prgm_resident' = FALSE /\ residents' = residents
      /\ emu_debug_alloc_ptr' = emu_debug_alloc_ptr
  BY DEF Enter
<1>9. Len(<<f>>) = 1 /\ DOMAIN <<f>> = {1} /\ <<f>>[1] = f
  OBVIOUS
<1>10. FirstFrame(f)
  BY <1>2, <1>3, <1>4, <1>6, <1>7, <1>8, <1>9 DEF FirstFrame
<1> QED BY <1>5, <1>10

\* The last frame is popped, and the program stays if it asked to.
LEMMA ReturnLast ==
    ASSUME IInv, OneAtATime, NEW ret \in Rets, Return(ret)
    PROVE  /\ Len(frames) = 1 /\ DOMAIN frames = {1} /\ Top = frames[1]
           /\ frames' = <<>> /\ Len(frames') = 0 /\ DOMAIN frames' = {}
           /\ Quit(heap, ld_bin_format, Top.base, Top.savedscr, Top.argv,
                   Top.resident_ptr, ret)
           /\ QuitDone(heap, Top.base, Top.savedscr, Top.argv,
                       Top.resident_ptr, ret)
           /\ ld_bin_format # "LD_ERROR_BIN"
           /\ Top.asked # "never" => is_current_prgm_resident
           /\ residents' = IF Stays(Top.resident_ptr, ret)
                           THEN residents \cup {Top.base} ELSE residents
<1>1. PICK n \in Nat : n = Len(frames)
  BY FrameFacts
<1>2. frames # <<>>
  BY DEF Return
<1>3. n = 1 /\ DOMAIN frames = {1} /\ Top = frames[1]
  BY <1>1, <1>2, FrameFacts DEF OneAtATime, Top
<1>4. frames' = <<>> /\ Len(frames') = 0 /\ DOMAIN frames' = {}
  <2>1. frames' = SubSeq(frames, 1, 0)
    BY <1>1, <1>3 DEF Return
  <2> QED BY <2>1
<1>5. PICK t \in Frame : t = Top
  BY <1>2, TopFrame
<1>6. /\ Quit(heap, ld_bin_format, t.base, t.savedscr, t.argv, t.resident_ptr, ret)
      /\ residents' = residents \cup
            (IF t.asked = "last" \/ (ret # Dead /\ t.resident_ptr # NULL)
             THEN {t.base} ELSE {})
  BY <1>5, Zenon DEF Return
<1>7. QuitDone(heap, t.base, t.savedscr, t.argv, t.resident_ptr, ret)
  <2>1. heap \in [Addr -> Uses] /\ badfree \in BOOLEAN
    BY DEF IInv, TypeOK
  <2>2. InUse(heap, t.base) /\ InUse(heap, t.savedscr) /\ InUse(heap, t.argv)
    BY <1>2, <1>5, TopFrame
  <2> QED BY <1>6, <2>1, <2>2, QuitFrees
<1>8. /\ t.asked # "early"
      /\ t.asked = "last" <=> is_current_prgm_resident
      /\ ld_bin_format # "LD_ERROR_BIN"
  BY <1>3, <1>5, Zenon DEF OneAtATime
<1>9. t.asked \in {"never", "early", "last"}
  BY DEF Frame
<1>10. residents' = IF Stays(t.resident_ptr, ret)
                    THEN residents \cup {t.base} ELSE residents
  <2>1. Stays(t.resident_ptr, ret)
           <=> t.asked = "last" \/ (ret # Dead /\ t.resident_ptr # NULL)
    BY <1>8, Zenon DEF Stays
  <2> QED BY <1>6, <2>1
<1>11. t.asked # "never" => is_current_prgm_resident
  BY <1>8, <1>9
<1> QED BY <1>1, <1>3, <1>4, <1>5, <1>6, <1>7, <1>8, <1>10, <1>11, Zenon

\* What else a step may do when programs run one at a time.
Elsewhere ==
    /\ Len(frames') = Len(frames)
    /\ emu_debug_alloc_ptr' = emu_debug_alloc_ptr \/ ~NoDebugger
    /\ residents' = residents
    /\ \/ frames' = frames /\ \/ UNCHANGED formatVars
                              \/ frames = <<>>
       \/ SetResident

\* GDB takes and gives back a block that no program has.
KeepsPrograms ==
    \A a \in Addr : \/ heap'[a] = heap[a]
                    \/ heap[a] \in {"free", "debug"} /\ heap'[a] \in {"free", "debug"}

LEMMA DebuggerKeepsPrograms ==
    ASSUME IInv, emu_debug_alloc \/ emu_debug_free
    PROVE  KeepsPrograms
<1>1. heap \in [Addr -> Uses] /\ DebugBlockHeld
  BY DEF IInv, TypeOK
<1>2. CASE emu_debug_alloc
  <2>1. PICK p \in Malloc(heap) : heap' = IF p = NULL THEN heap ELSE Alloc(heap, p, "debug")
    BY <1>2 DEF emu_debug_alloc
  <2>2. CASE p = NULL
    BY <2>1, <2>2 DEF KeepsPrograms
  <2>3. CASE p # NULL
    <3>1. p \in Addr /\ heap[p] = "free"
      BY <1>1, <2>3, MallocReturns
    <3>2. heap'[p] = "debug" /\ \A a \in Addr : a # p => heap'[a] = heap[a]
      BY <1>1, <2>1, <2>3, <3>1, AllocHeap
    <3> QED BY <3>1, <3>2 DEF KeepsPrograms
  <2> QED BY <2>2, <2>3
<1>3. CASE emu_debug_free
  <2>1. heap' = Freed(heap, {emu_debug_alloc_ptr})
    BY <1>3 DEF emu_debug_free
  <2>2. \A a \in Addr : heap'[a] = IF a = emu_debug_alloc_ptr THEN "free" ELSE heap[a]
    BY <1>1, <2>1, FreedHeap
  <2> QED BY <1>1, <2>2, LoaderAssumption DEF KeepsPrograms, DebugBlockHeld
<1> QED BY <1>2, <1>3

LEMMA OneAtATimeSteps ==
    ASSUME GdbWaits, NlExecs = FALSE, IInv, [Next]_vars
    PROVE  \/ \E ret \in Rets : Return(ret)
           \/ frames = <<>> /\ Enter(NULL)
           \/ frames = <<>> /\ NoMemory(NULL) /\ Elsewhere
           \/ Elsewhere /\ KeepsPrograms
<1> USE DEF vars, heapVars, formatVars, plhVars, Elsewhere
<1>1. CASE OpenDocument \/ StartupExec
  <2>1. frames = <<>> /\ Exec(NULL)
    BY <1>1 DEF OpenDocument, StartupExec
  <2>2. CASE CannotLoad
    <3>1. heap' = heap
      BY <2>2, CannotLoadKeepsHeap
    <3> QED BY <2>1, <2>2, <3>1 DEF CannotLoad, KeepsPrograms
  <2>3. CASE NoMemory(NULL)
    BY <2>1, <2>3 DEF NoMemory
  <2> QED BY <2>1, <2>2, <2>3 DEF Exec, NoExtension, KeepsPrograms
<1>2. CASE StartupBegin \/ StartupEnd
  BY <1>2 DEF StartupBegin, StartupEnd, KeepsPrograms
<1>3. ~NlExec
  BY DEF NlExec
<1>4. CASE SetResident
  <2>1. Len(frames') = Len(frames)
    BY <1>4, FrameFacts DEF SetResident, IInv, TypeOK
  <2> QED BY <1>4, <2>1 DEF SetResident, KeepsPrograms
<1>5. CASE NoScrRedraw \/ Draw \/ \E mask \in Masks : SetMask(mask)
  BY <1>5 DEF NoScrRedraw, Draw, SetMask, KeepsPrograms
<1>6. CASE emu_debug_alloc \/ emu_debug_free
  <2>1. ~NoDebugger
    BY <1>6 DEF emu_debug_alloc, emu_debug_free, DebuggerActs, NoDebugger
  <2> QED BY <1>6, <2>1, DebuggerKeepsPrograms DEF emu_debug_alloc, emu_debug_free
<1>7. CASE UNCHANGED vars
  BY <1>7 DEF KeepsPrograms
<1> QED BY <1>1, <1>2, <1>3, <1>4, <1>5, <1>6, <1>7 DEF Next

LEMMA OneAtATimeInv ==
    ASSUME GdbWaits, NlExecs = FALSE, IInv, OneAtATime, [Next]_vars
    PROVE  OneAtATime'
<1>1. CASE \E ret \in Rets : Return(ret)
  BY <1>1, ReturnLast DEF OneAtATime
<1>2. CASE frames = <<>> /\ Enter(NULL)
  <2>1. PICK f \in Frame : FirstFrame(f)
    BY <1>2, EnterFirst
  <2> QED BY <2>1 DEF OneAtATime, FirstFrame
<1>3. CASE Elsewhere
  <2>1. CASE frames' = frames /\ UNCHANGED formatVars
    BY <2>1 DEF OneAtATime, formatVars
  <2>2. CASE frames' = frames /\ frames = <<>>
    BY <2>2 DEF OneAtATime
  <2>3. CASE SetResident
    <3>1. PICK n \in Nat : n = Len(frames)
      BY FrameFacts
    <3>2. frames # <<>> /\ is_current_prgm_resident' = TRUE /\ ld_bin_format' = ld_bin_format
      BY <2>3 DEF SetResident
    <3>3. n = 1 /\ DOMAIN frames = {1} /\ frames \in Seq(Frame)
      BY <3>1, <3>2, FrameFacts DEF OneAtATime, IInv, TypeOK
    <3>4. PICK f \in Frame : f = Asking(Top, "last") /\ f.asked = "last"
      BY <3>2, TopFrame, AskingFrame
    <3>5. frames' = [frames EXCEPT ![1] = f]
      BY <2>3, <3>1, <3>3, <3>4 DEF SetResident
    <3>6. DOMAIN frames' = {1} /\ frames'[1] = f
      BY <3>3, <3>5
    <3>7. Len(frames') = 1 /\ ld_bin_format # "LD_ERROR_BIN"
      BY <1>3, <3>1, <3>3 DEF Elsewhere, OneAtATime
    <3> QED BY <3>2, <3>4, <3>6, <3>7 DEF OneAtATime
  <2> QED BY <1>3, <2>1, <2>2, <2>3 DEF Elsewhere
<1> QED BY <1>1, <1>2, <1>3, OneAtATimeSteps

\* A program that has called nl_set_resident() is not freed when it returns, as
\* long as programs do not run one another.
THEOREM AskedToStay == GdbWaits /\ NlExecs = FALSE /\ Spec => AskedStays
<1> SUFFICES ASSUME GdbWaits, NlExecs = FALSE PROVE Spec => AskedStays
  OBVIOUS
<1>1. Init => OneAtATime
  <2> SUFFICES ASSUME Init PROVE OneAtATime
    OBVIOUS
  <2>1. frames = <<>> /\ Len(frames) = 0 /\ DOMAIN frames = {}
    BY DEF Init
  <2> QED BY <2>1 DEF OneAtATime
<1>2. IInv /\ OneAtATime /\ [Next]_vars => OneAtATime'
  BY OneAtATimeInv
<1>3. IInv /\ OneAtATime /\ [Next]_vars =>
         [Len(frames') < Len(frames) /\ Top.asked # "never"
             => heap'[Top.base] # "free"]_vars
  <2> SUFFICES ASSUME IInv, OneAtATime, [Next]_vars,
                      Len(frames') < Len(frames), Top.asked # "never"
               PROVE  heap'[Top.base] # "free"
    OBVIOUS
  <2>1. PICK n \in Nat : n = Len(frames)
    BY FrameFacts
  <2>2. \E ret \in Rets : Return(ret)
    <3>1. CASE frames = <<>> /\ Enter(NULL)
      <4>1. PICK f \in Frame : FirstFrame(f)
        BY <3>1, EnterFirst
      <4> QED BY <3>1, <4>1 DEF FirstFrame
    <3>2. ~Elsewhere
      BY <2>1 DEF Elsewhere
    <3> QED BY <3>1, <3>2, OneAtATimeSteps
  <2>3. PICK ret \in Rets : Return(ret)
    BY <2>2
  <2>4. frames # <<>>
    BY <2>3 DEF Return
  <2>5. PICK t \in Frame : t = Top
    BY <2>4, TopFrame
  <2>6. /\ QuitDone(heap, t.base, t.savedscr, t.argv, t.resident_ptr, ret)
        /\ is_current_prgm_resident
    BY <2>3, <2>5, ReturnLast
  <2>7. /\ InUse(heap, t.base) /\ t.base # t.savedscr /\ t.base # t.argv
    <3>1. Held(heap, emu_debug_alloc_ptr, t)
      BY <2>3, <2>5, ReturnLast, FrameFacts
    <3>2. /\ InUse(heap, t.base)
          /\ emu_debug_alloc_ptr = NULL => heap[t.base] = "image"
      BY <2>4, <2>5, TopFrame
    <3> QED BY <3>1, <3>2 DEF Held, IInv, DebugBlockHeld
  <2>8. heap'[t.base] = heap[t.base]
    BY <2>6, <2>7 DEF QuitDone, Stays, InUse
  <2> QED BY <2>5, <2>7, <2>8 DEF InUse
<1> QED BY Invariance, <1>1, <1>2, <1>3, PTL DEF Spec, AskedStays

----------------------------------------------------------------------------
(***************************************************************************)
(* What is on the heap when programs run one at a time.                    *)
(***************************************************************************)

Of(use) == {a \in Addr : heap[a] = use}

Accounted ==
    /\ \A a \in Addr : heap[a] = "image" =>
          a \in residents \/ \E i \in DOMAIN frames : frames[i].base = a
    /\ Of("screen") = {frames[i].savedscr : i \in DOMAIN frames}
    /\ IsFiniteSet(residents)
    /\ IsFiniteSet(Of("argv"))
    /\ Cardinality(Of("argv")) <= Len(frames) + Cardinality(residents)

\* There is no memory to start a program, while an earlier one's request to stay
\* is still remembered: the new program's image is kept (ploaderhook.c:199 is not
\* reached).
RequestRemembered ==
    is_current_prgm_resident /\ emu_debug_alloc_ptr = NULL /\ NoMemory(NULL)

\* A program stays at an address where one has stayed before, which was GDB's:
\* both have left their argv.
StaysTwice ==
    \E ret \in Rets :
       Return(ret) /\ Stays(Top.resident_ptr, ret) /\ Top.base \in residents

\* A program that does not stay is freed with all its blocks, but for GDB's.
LEMMA QuitFreesAll ==
    ASSUME NEW h \in [Addr -> Uses], NEW format, format # "LD_ERROR_BIN",
           NEW base, NEW scr, NEW argv, NEW res, NEW ret, ~Stays(res, ret),
           Quit(h, format, base, scr, argv, res, ret)
    PROVE  \A a \in Addr :
              heap'[a] = IF \/ a \in {scr, argv}
                            \/ a = base /\ emu_debug_alloc_ptr = NULL
                         THEN "free" ELSE h[a]
<1>1. PICK image : image = IF emu_debug_alloc_ptr = NULL THEN {base} ELSE {}
  OBVIOUS
<1>2. heap' = Freed(h, {scr} \cup (image \cup {argv}))
  BY <1>1 DEF Quit, Stays
<1> QED BY <1>1, <1>2, FreedHeap

\* A program that stays gives back its saved screen only.
LEMMA QuitKeeps ==
    ASSUME NEW h \in [Addr -> Uses], NEW format,
           NEW base, NEW scr, NEW argv, NEW res, NEW ret, Stays(res, ret),
           Quit(h, format, base, scr, argv, res, ret)
    PROVE  \A a \in Addr : heap'[a] = IF a = scr THEN "free" ELSE h[a]
<1>1. heap' = Freed(h, {scr})
  BY DEF Quit, Stays
<1> QED BY <1>1, FreedHeap

\* A program that cannot be started leaves the heap as it was.
LEMMA NoMemoryRestores ==
    ASSUME IInv, NoMemory(NULL), ~RequestRemembered
    PROVE  \A a \in Addr : heap'[a] = heap[a]
<1>1. /\ TypeOK /\ DebugBlockHeld /\ heap \in [Addr -> Uses]
      /\ Stays(NULL, Dead) => emu_debug_alloc_ptr # NULL
  BY DEF IInv, TypeOK, Stays, RequestRemembered
<1>2. PICK file, base, h :
        /\ file \in Files \cap {"ndless", "bflt"}
        /\ base \in LoadBlocks \ {NULL}
        /\ h = Loaded(base)
        /\ \/ Quit(h, FormatOf(file), base, NULL, NULL, NULL, Dead)
           \/ \E scr \in Malloc(h) \ {NULL} :
                 Quit(Alloc(h, scr, "screen"), FormatOf(file), base, scr, NULL, NULL, Dead)
  BY DEF NoMemory
<1>3. /\ base \in Addr /\ h \in [Addr -> Uses] /\ h[base] # "free"
      /\ IF emu_debug_alloc_ptr = NULL THEN heap[base] = "free"
                                       ELSE h[base] = heap[base]
      /\ \A a \in Addr : a # base => h[a] = heap[a]
  <2>1. emu_debug_alloc_ptr # NULL => base = emu_debug_alloc_ptr /\ h = heap
    BY <1>2 DEF LoadBlocks, Loaded
  <2> QED BY <1>1, <1>2, <2>1, BlockOfImage
<1>4. FormatOf(file) # "LD_ERROR_BIN"
  BY DEF FormatOf
<1>5. ASSUME NEW k \in [Addr -> Uses], NEW scr,
             scr = NULL \/ (scr \in Addr /\ scr # base /\ heap[scr] = "free"),
             \A a \in Addr : a # scr => k[a] = h[a],
             Quit(k, FormatOf(file), base, scr, NULL, NULL, Dead)
      PROVE  \A a \in Addr : heap'[a] = heap[a]
  <2>1. CASE Stays(NULL, Dead)
    <3>1. \A a \in Addr : heap'[a] = IF a = scr THEN "free" ELSE k[a]
      BY <1>5, <2>1, QuitKeeps
    <3> QED BY <1>1, <1>3, <1>5, <2>1, <3>1, LoaderAssumption
  <2>2. CASE ~Stays(NULL, Dead)
    <3>1. \A a \in Addr :
             heap'[a] = IF \/ a \in {scr, NULL}
                           \/ a = base /\ emu_debug_alloc_ptr = NULL
                        THEN "free" ELSE k[a]
      BY <1>4, <1>5, <2>2, QuitFreesAll
    <3> QED BY <1>3, <1>5, <3>1, LoaderAssumption
  <2> QED BY <2>1, <2>2
<1>6. CASE Quit(h, FormatOf(file), base, NULL, NULL, NULL, Dead)
  BY <1>3, <1>5, <1>6
<1>7. ASSUME NEW scr \in Malloc(h) \ {NULL},
             Quit(Alloc(h, scr, "screen"), FormatOf(file), base, scr, NULL, NULL, Dead)
      PROVE  \A a \in Addr : heap'[a] = heap[a]
  <2>1. scr \in Addr /\ h[scr] = "free" /\ scr # base /\ heap[scr] = "free"
    BY <1>3, MallocReturns
  <2>2. PICK k : k = Alloc(h, scr, "screen")
    OBVIOUS
  <2>3. k \in [Addr -> Uses] /\ \A a \in Addr : a # scr => k[a] = h[a]
    BY <1>3, <2>1, <2>2, AllocHeap
  <2> QED BY <1>5, <1>7, <2>1, <2>2, <2>3
<1> QED BY <1>2, <1>6, <1>7

LEMMA AccountedElsewhere ==
    ASSUME IInv, Accounted, Elsewhere, KeepsPrograms
    PROVE  Accounted'
<1>1. /\ Of("screen")' = Of("screen") /\ Of("argv")' = Of("argv")
      /\ \A a \in Addr : heap'[a] = "image" => heap[a] = "image"
  BY DEF Of, KeepsPrograms
<1>2. /\ Len(frames') = Len(frames) /\ DOMAIN frames' = DOMAIN frames
      /\ \A i \in DOMAIN frames : /\ frames'[i].base = frames[i].base
                                  /\ frames'[i].savedscr = frames[i].savedscr
  <2>1. CASE frames' = frames
    BY <2>1
  <2>2. CASE SetResident
    <3>1. PICK n \in Nat : n = Len(frames)
      BY FrameFacts
    <3>2. frames # <<>>
      BY <2>2 DEF SetResident
    <3>3. n \in 1 .. n /\ DOMAIN frames = 1 .. n /\ Top = frames[n] /\ frames \in Seq(Frame)
      BY <3>1, <3>2, FrameFacts DEF Top, IInv, TypeOK
    <3>4. PICK f \in Frame : /\ f = Asking(Top, "last") /\ f.base = Top.base
                             /\ f.savedscr = Top.savedscr
      BY <3>2, TopFrame, AskingFrame
    <3>5. frames' = [frames EXCEPT ![n] = f]
      BY <2>2, <3>1, <3>4 DEF SetResident
    <3> QED BY <3>1, <3>3, <3>4, <3>5 DEF Elsewhere
  <2> QED BY <2>1, <2>2 DEF Elsewhere
<1>3. residents' = residents
  BY DEF Elsewhere
<1>4. {frames'[i].savedscr : i \in DOMAIN frames'} = {frames[i].savedscr : i \in DOMAIN frames}
  BY <1>2
<1>5. \A a \in Addr : heap'[a] = "image" =>
          a \in residents' \/ \E i \in DOMAIN frames' : frames'[i].base = a
  BY <1>1, <1>2, <1>3 DEF Accounted
<1> QED BY <1>1, <1>2, <1>3, <1>4, <1>5 DEF Accounted

LEMMA AccountedEnter ==
    ASSUME IInv, Accounted, frames = <<>>, Enter(NULL)
    PROVE  Accounted'
<1>1. PICK f \in Frame : FirstFrame(f)
  BY EnterFirst
<1>2. /\ heap \in [Addr -> Uses] /\ DebugBlockHeld
      /\ Len(frames) = 0 /\ DOMAIN frames = {}
  BY FrameFacts DEF IInv, TypeOK
<1>3. PICK b, c, v : b = f.base /\ c = f.savedscr /\ v = f.argv
  OBVIOUS
<1>4. /\ b \in Addr /\ c \in Addr /\ v \in Addr
      /\ heap[b] \in {"free", "debug"} /\ heap[c] = "free" /\ heap[v] = "free"
      /\ b # c /\ b # v /\ c # v
      /\ heap'[b] \in {"image", "debug"} /\ heap'[c] = "screen" /\ heap'[v] = "argv"
      /\ \A a \in Addr : a # b /\ a # c /\ a # v => heap'[a] = heap[a]
      /\ frames' = <<f>> /\ Len(frames') = 1 /\ DOMAIN frames' = {1}
      /\ residents' = residents
  BY <1>1, <1>2, <1>3 DEF FirstFrame, NewBlocks, Entered, DebugBlockHeld
<1>5. Of("screen") = {} /\ IsFiniteSet(residents) /\ IsFiniteSet(Of("argv"))
  BY <1>2 DEF Accounted
<1>6. Of("screen")' = {c}
  BY <1>4, <1>5 DEF Of
<1>7. {frames'[i].savedscr : i \in DOMAIN frames'} = {c}
  BY <1>3, <1>4
<1>8. Of("argv")' = Of("argv") \cup {v} /\ v \notin Of("argv")
  BY <1>4 DEF Of
<1>9. /\ IsFiniteSet(Of("argv")')
      /\ Cardinality(Of("argv")') = Cardinality(Of("argv")) + 1
  <2>1. PICK S : S = Of("argv") /\ IsFiniteSet(S) /\ v \notin S
    BY <1>5, <1>8
  <2>2. IsFiniteSet(S \cup {v}) /\ Cardinality(S \cup {v}) = Cardinality(S) + 1
    BY <2>1, FS_AddElement
  <2> QED BY <1>8, <2>1, <2>2
<1>10. Cardinality(Of("argv")') <= Len(frames') + Cardinality(residents')
  <2>1. Cardinality(Of("argv")) \in Nat /\ Cardinality(residents) \in Nat
    BY <1>5, FS_CardinalityType
  <2>2. Cardinality(Of("argv")) <= 0 + Cardinality(residents)
    BY <1>2 DEF Accounted
  <2> QED BY <1>4, <1>9, <2>1, <2>2
<1>11. \A a \in Addr : heap'[a] = "image" =>
          a \in residents' \/ \E i \in DOMAIN frames' : frames'[i].base = a
  <2> SUFFICES ASSUME NEW a \in Addr, heap'[a] = "image"
               PROVE  a \in residents' \/ \E i \in DOMAIN frames' : frames'[i].base = a
    OBVIOUS
  <2>1. CASE a = b
    BY <1>3, <1>4, <2>1
  <2>2. CASE a # b
    BY <1>2, <1>4, <2>2 DEF Accounted
  <2> QED BY <2>1, <2>2
<1> QED BY <1>4, <1>5, <1>6, <1>7, <1>9, <1>10, <1>11 DEF Accounted

LEMMA AccountedReturn ==
    ASSUME IInv, OneAtATime, Accounted, NEW ret \in Rets, Return(ret), ~StaysTwice
    PROVE  Accounted'
<1>1. frames # <<>> /\ heap \in [Addr -> Uses] /\ DebugBlockHeld
  BY DEF Return, IInv, TypeOK
<1>2. PICK t \in Frame : t = Top
  BY <1>1, TopFrame
<1>3. /\ Len(frames) = 1 /\ DOMAIN frames = {1} /\ t = frames[1]
      /\ frames' = <<>> /\ Len(frames') = 0 /\ DOMAIN frames' = {}
      /\ Quit(heap, ld_bin_format, t.base, t.savedscr, t.argv, t.resident_ptr, ret)
      /\ ld_bin_format # "LD_ERROR_BIN"
      /\ residents' = IF Stays(t.resident_ptr, ret)
                      THEN residents \cup {t.base} ELSE residents
  BY <1>2, ReturnLast
<1>4. PICK b, c, v : b = t.base /\ c = t.savedscr /\ v = t.argv
  OBVIOUS
<1>5. /\ b \in Addr /\ c \in Addr /\ v \in Addr
      /\ IF emu_debug_alloc_ptr = NULL THEN heap[b] = "image" ELSE heap[b] = "debug"
      /\ heap[c] = "screen" /\ heap[v] = "argv"
      /\ Stays(t.resident_ptr, ret) => b \notin residents
  <2>1. /\ InUse(heap, t.base) /\ InUse(heap, t.savedscr) /\ InUse(heap, t.argv)
        /\ Held(heap, emu_debug_alloc_ptr, t)
    BY <1>1, <1>2, <1>3, TopFrame, FrameFacts
  <2>2. Stays(t.resident_ptr, ret) => t.base \notin residents
    BY <1>2 DEF StaysTwice
  <2> QED BY <1>1, <1>4, <2>1, <2>2 DEF InUse, Held, DebugBlockHeld
<1>6. /\ \A a \in Addr : heap[a] = "image" => a \in residents \/ a = b
      /\ Of("screen") = {c}
      /\ IsFiniteSet(residents) /\ IsFiniteSet(Of("argv"))
      /\ Cardinality(Of("argv")) <= 1 + Cardinality(residents)
      /\ Cardinality(Of("argv")) \in Nat /\ Cardinality(residents) \in Nat
  <2>1. IsFiniteSet(residents) /\ IsFiniteSet(Of("argv"))
    BY DEF Accounted
  <2>2. Cardinality(Of("argv")) \in Nat /\ Cardinality(residents) \in Nat
    BY <2>1, FS_CardinalityType
  <2>3. {frames[i].savedscr : i \in DOMAIN frames} = {c}
    BY <1>3, <1>4
  <2> QED BY <1>3, <1>4, <2>1, <2>2, <2>3 DEF Accounted
<1>7. CASE Stays(t.resident_ptr, ret)
  <2>1. \A a \in Addr : heap'[a] = IF a = c THEN "free" ELSE heap[a]
    BY <1>1, <1>3, <1>4, <1>7, QuitKeeps
  <2>2. Of("screen")' = {} /\ Of("argv")' = Of("argv")
    BY <1>5, <1>6, <2>1 DEF Of
  <2>3. residents' = residents \cup {b}
    BY <1>3, <1>4, <1>7
  <2>4. /\ IsFiniteSet(residents')
        /\ Cardinality(residents') = Cardinality(residents) + 1
    BY <1>5, <1>6, <1>7, <2>3, FS_AddElement
  <2>5. \A a \in Addr : heap'[a] = "image" => a \in residents'
    BY <1>6, <2>1, <2>3
  <2>6. Cardinality(Of("argv")') <= Len(frames') + Cardinality(residents')
    BY <1>3, <1>6, <2>2, <2>4
  <2>7. {frames'[i].savedscr : i \in DOMAIN frames'} = {}
    BY <1>3
  <2> QED BY <1>6, <2>2, <2>4, <2>5, <2>6, <2>7 DEF Accounted
<1>8. CASE ~Stays(t.resident_ptr, ret)
  <2>1. \A a \in Addr :
           heap'[a] = IF \/ a \in {c, v}
                         \/ a = b /\ emu_debug_alloc_ptr = NULL
                      THEN "free" ELSE heap[a]
    BY <1>1, <1>3, <1>4, <1>8, QuitFreesAll
  <2>2. Of("screen")' = {} /\ Of("argv")' = Of("argv") \ {v} /\ v \in Of("argv")
    BY <1>5, <1>6, <2>1 DEF Of
  <2>3. residents' = residents
    BY <1>3, <1>8
  <2>4. /\ IsFiniteSet(Of("argv")')
        /\ Cardinality(Of("argv")') = Cardinality(Of("argv")) - 1
    <3>1. PICK S : S = Of("argv") /\ IsFiniteSet(S) /\ v \in S
      BY <1>6, <2>2
    <3>2. IsFiniteSet(S \ {v}) /\ Cardinality(S \ {v}) = Cardinality(S) - 1
      BY <3>1, FS_RemoveElement
    <3> QED BY <2>2, <3>1, <3>2
  <2>5. \A a \in Addr : heap'[a] = "image" => a \in residents'
    BY <1>5, <1>6, <2>1, <2>3
  <2>6. Cardinality(Of("argv")') <= Len(frames') + Cardinality(residents')
    <3>1. PICK k \in Nat, m \in Nat :
            k = Cardinality(Of("argv")) /\ m = Cardinality(residents)
      BY <1>6
    <3>2. k - 1 <= 0 + m
      BY <1>6, <3>1
    <3> QED BY <1>3, <2>3, <2>4, <3>1, <3>2
  <2>7. {frames'[i].savedscr : i \in DOMAIN frames'} = {}
    BY <1>3
  <2> QED BY <1>6, <2>2, <2>3, <2>4, <2>5, <2>6, <2>7 DEF Accounted
<1> QED BY <1>7, <1>8

LEMMA AccountedInv ==
    ASSUME GdbWaits, NlExecs = FALSE, IInv, OneAtATime, Accounted,
           [Next]_vars, [~RequestRemembered]_vars, [~StaysTwice]_vars
    PROVE  Accounted'
<1>1. CASE \E ret \in Rets : Return(ret)
  <2>1. vars' # vars
    <3>1. frames' # frames
      BY <1>1, ReturnLast
    <3> QED BY <3>1 DEF vars
  <2>2. ~StaysTwice
    BY <2>1
  <2> QED BY <1>1, <2>2, AccountedReturn
<1>2. CASE frames = <<>> /\ Enter(NULL)
  BY <1>2, AccountedEnter
<1>3. CASE frames = <<>> /\ NoMemory(NULL) /\ Elsewhere
  <2>1. KeepsPrograms
    <3>1. CASE UNCHANGED vars
      BY <3>1 DEF vars, heapVars, KeepsPrograms
    <3>2. CASE ~RequestRemembered
      BY <1>3, <3>2, NoMemoryRestores DEF KeepsPrograms
    <3> QED BY <3>1, <3>2
  <2> QED BY <1>3, <2>1, AccountedElsewhere
<1>4. CASE Elsewhere /\ KeepsPrograms
  BY <1>4, AccountedElsewhere
<1> QED BY <1>1, <1>2, <1>3, <1>4, OneAtATimeSteps

LEMMA AccountedMeans == IInv /\ OneAtATime /\ Accounted => NoLeak
<1> SUFFICES ASSUME IInv, OneAtATime, Accounted PROVE NoLeak
  OBVIOUS
<1>1. PICK n \in Nat : n = Len(frames) /\ DOMAIN frames = 1 .. n /\ n <= 1
  BY FrameFacts DEF OneAtATime
<1>2. Cardinality(Of("screen")) = n
  <2>1. CASE n = 0
    <3>1. Of("screen") = {}
      BY <1>1, <2>1 DEF Accounted
    <3> QED BY <2>1, <3>1, FS_EmptySet
  <2>2. CASE n = 1
    <3>1. DOMAIN frames = {1}
      BY <1>1, <2>2
    <3>2. PICK c : c = frames[1].savedscr
      OBVIOUS
    <3>3. Of("screen") = {c}
      BY <3>1, <3>2 DEF Accounted
    <3> QED BY <2>2, <3>3, FS_Singleton
  <2> QED BY <1>1, <2>1, <2>2
<1> QED BY <1>1, <1>2 DEF Accounted, Of, NoLeak

LEMMA AccountedInit == Init => OneAtATime /\ Accounted
<1> SUFFICES ASSUME Init PROVE OneAtATime /\ Accounted
  OBVIOUS
<1>1. frames = <<>> /\ Len(frames) = 0 /\ DOMAIN frames = {} /\ residents = {}
  BY DEF Init
<1>2. Of("screen") = {} /\ Of("argv") = {} /\ Of("image") = {}
  BY DEF Init, Of
<1>3. {frames[i].savedscr : i \in DOMAIN frames} = {}
  BY <1>1
<1>4. IsFiniteSet({}) /\ Cardinality({}) = 0
  BY FS_EmptySet
<1>5. OneAtATime
  BY <1>1 DEF OneAtATime
<1>6. \A a \in Addr : heap[a] # "image"
  BY <1>2 DEF Of
<1>7. Accounted
  <2>1. Cardinality(Of("argv")) = 0 /\ Cardinality(residents) = 0
    BY <1>1, <1>2, <1>4
  <2>2. /\ IsFiniteSet(Of("argv")) /\ IsFiniteSet(residents)
        /\ Of("screen") = {frames[i].savedscr : i \in DOMAIN frames}
    BY <1>1, <1>2, <1>3, <1>4
  <2> QED BY <1>1, <1>6, <2>1, <2>2 DEF Accounted
<1> QED BY <1>5, <1>7

\* When programs run one at a time, a block that holds an image belongs to the
\* program that runs or to one that stays, no saved screen is left, and only
\* programs that stay leave their argv.  There are two exceptions: a program
\* refused for want of memory while a request to stay is remembered, and a
\* program that stays where another has stayed.
THEOREM NothingLeaks ==
    GdbWaits /\ NlExecs = FALSE /\ Spec
    /\ [][~RequestRemembered]_vars /\ [][~StaysTwice]_vars => []NoLeak
<1> SUFFICES ASSUME GdbWaits, NlExecs = FALSE
             PROVE  Spec /\ [][~RequestRemembered]_vars /\ [][~StaysTwice]_vars
                       => []NoLeak
  OBVIOUS
<1>1. IInv /\ OneAtATime /\ [Next]_vars => OneAtATime'
  BY OneAtATimeInv
<1>2. IInv /\ OneAtATime /\ Accounted
      /\ [Next]_vars /\ [~RequestRemembered]_vars /\ [~StaysTwice]_vars => Accounted'
  BY AccountedInv
<1> QED BY Invariance, AccountedMeans, AccountedInit, <1>1, <1>2, PTL DEF Spec

\* Without GDB no program stays where another has stayed, so that there is one
\* exception only.
THEOREM NothingLeaksWithoutGdb ==
    NoDebugger /\ NlExecs = FALSE /\ Spec /\ [][~RequestRemembered]_vars => []NoLeak
<1> SUFFICES ASSUME NoDebugger, NlExecs = FALSE
             PROVE  Spec /\ [][~RequestRemembered]_vars => []NoLeak
  OBVIOUS
<1>1. GdbWaits
  BY DEF GdbWaits
<1>2. IInv => [~StaysTwice]_vars
  <2> SUFFICES ASSUME IInv, StaysTwice PROVE FALSE
    OBVIOUS
  <2>1. frames # <<>> /\ Top.base \in residents
    BY DEF StaysTwice, Return
  <2>2. PICK n \in 1 .. Len(frames) : Top = frames[n]
    BY <2>1, FrameFacts DEF Top
  <2> QED BY <2>1, <2>2, FrameFacts
<1> QED BY Invariance, NothingLeaks, <1>1, <1>2, PTL

-----------------------------------------------------------------------------
(***************************************************************************)
(* LuaExt: the array of modules, for every heap and size of the array, any *)
(* interpreters, and malloc() failing or not, as long as no module calls   *)
(* require() while it starts and no GDB attaches.  Modules may run         *)
(* programs.  Its steps are those of the loader and the extension's own.   *)
(***************************************************************************)

HIDE DEF Masks, Uses, Formats

OneModuleAtATime == NoDebugger /\ NestedRequires = FALSE

----------------------------------------------------------------------------
(***************************************************************************)
(* The inductive invariant.                                                *)
(***************************************************************************)

\* A module that starts is the outermost program, and nobody has taken its slot.
Starting(fs, next) ==
    \A i \in DOMAIN fs : fs[i].resident_ptr # NULL =>
        i = 1 /\ fs[i].resident_ptr = next /\ next < LUAEXT_MAX_MODULES

\* The slots in use: that their blocks hold images is known of all residents.
Recorded(array, next, mods, res) ==
    /\ \A i \in Slots : i < next => array[i] \in res
    /\ \A i, j \in Slots : i < j /\ j < next => array[i] # array[j]
    /\ \A a \in mods : \E i \in Slots : i < next /\ array[i] = a

LuaInv ==
    /\ IInv /\ LuaTypeOK
    /\ Starting(frames, loaded_next_index)
    /\ Recorded(loaded, loaded_next_index, modules, residents)

LEMMA InvMeans == NoDebugger /\ LuaInv => ArrayOfModules
BY DEF LuaInv, IInv, ResidentsKept, ResidentsLive, Recorded, ArrayOfModules

LEMMA LuaInitInv == LuaInit => LuaInv
<1> SUFFICES ASSUME LuaInit PROVE LuaInv
  OBVIOUS
<1>1. /\ Init /\ open = {} /\ luastate = NULL /\ loaded = [i \in Slots |-> NULL]
      /\ loaded_next_index = 0 /\ modules = {} /\ DOMAIN frames = {}
  BY DEF LuaInit, Init
<1>2. LuaTypeOK
  BY <1>1, LuaExtAssumption DEF LuaTypeOK
<1>3. Starting(frames, loaded_next_index)
  BY <1>1 DEF Starting
<1>4. Recorded(loaded, loaded_next_index, modules, residents)
  BY <1>1, LuaExtAssumption DEF Recorded, Slots
<1> QED BY <1>1, <1>2, <1>3, <1>4, InitInv DEF LuaInv

----------------------------------------------------------------------------
(***************************************************************************)
(* What the steps of the loader do to the frames.                          *)
(***************************************************************************)

\* ld_exec() pushes one frame, for its own caller, or none.
LEMMA ExecPushes ==
    ASSUME IInv, NEW res \in Callers \cup {NULL}, Exec(res)
    PROVE  /\ residents' = residents
           /\ \/ frames' = frames
              \/ /\ DOMAIN frames' = 1 .. (Len(frames) + 1)
                 /\ \A i \in 1 .. Len(frames) :
                       frames'[i].resident_ptr = frames[i].resident_ptr
                 /\ frames'[Len(frames) + 1].resident_ptr = res
<1>1. CASE NoExtension \/ CannotLoad \/ NoMemory(res)
  BY <1>1 DEF NoExtension, CannotLoad, NoMemory, vars
<1>2. CASE Enter(res)
  <2>1. IInv' /\ residents' = residents
    BY <1>2, EnterInv DEF Enter
  <2>2. PICK f : f.resident_ptr = res /\ frames' = Append(Outer, f)
    <3>1. PICK f : /\ \E base, scr, argv, format :
                         f = [base |-> base, savedscr |-> scr, argv |-> argv,
                              resident_ptr |-> res, intmask |-> intmask,
                              picture |-> screen, format |-> format,
                              asked |-> "never"]
                   /\ frames' = Append(Outer, f)
      BY <1>2 DEF Enter
    <3> QED BY <3>1
  <2>3. /\ Outer \in Seq(Frame) /\ Len(Outer) = Len(frames)
        /\ \A i \in 1 .. Len(frames) : Outer[i].resident_ptr = frames[i].resident_ptr
    BY OuterFrames DEF IInv, SameBlocks
  <2>4. PICK fs \in Seq(Frame) : fs = Outer
    BY <2>3
  <2>5. /\ DOMAIN Append(fs, f) = 1 .. (Len(fs) + 1)
        /\ \A i \in 1 .. Len(fs) : Append(fs, f)[i] = fs[i]
        /\ Append(fs, f)[Len(fs) + 1] = f
    BY <2>4
  <2> QED BY <2>1, <2>2, <2>3, <2>4, <2>5
<1> QED BY <1>1, <1>2 DEF Exec

\* A return pops the innermost frame.
LEMMA ReturnPops ==
    ASSUME IInv, NEW ret \in Rets, Return(ret)
    PROVE  /\ Len(frames) \in 1 .. Len(frames) /\ Top = frames[Len(frames)]
           /\ DOMAIN frames' = 1 .. (Len(frames) - 1)
           /\ \A i \in 1 .. (Len(frames) - 1) : frames'[i] = frames[i]
           /\ Top.base \in Addr
           /\ residents \subseteq residents'
           /\ ret # Dead /\ Top.resident_ptr # NULL => Top.base \in residents'
<1>1. /\ frames # <<>> /\ frames' = SubSeq(frames, 1, Len(frames) - 1)
      /\ residents \subseteq residents'
      /\ ret # Dead /\ Top.resident_ptr # NULL => Top.base \in residents'
  BY DEF Return
<1>2. PICK n \in Nat : n = Len(frames)
  BY FrameFacts
<1>3. n \in 1 .. n /\ n - 1 \in 0 .. n /\ Top.base \in Addr
  BY <1>1, <1>2, TopFrame DEF InUse
<1>4. /\ DOMAIN SubSeq(frames, 1, n - 1) = 1 .. (n - 1)
      /\ \A i \in 1 .. (n - 1) : SubSeq(frames, 1, n - 1)[i] = frames[i]
  BY <1>2, <1>3 DEF IInv, TypeOK
<1> QED BY <1>1, <1>2, <1>3, <1>4 DEF Top

----------------------------------------------------------------------------
(***************************************************************************)
(* Interpreters are opened and closed.                                     *)
(***************************************************************************)

LEMMA StartupKeeps ==
    ASSUME LuaInv, NEW L \in LuaStates, InterpStartup(L)
    PROVE  LuaInv'
<1>1. IInv'
  BY Unchanged DEF InterpStartup, LuaInv
<1>2. /\ frames' = frames /\ residents' = residents /\ loaded' = loaded
      /\ loaded_next_index' = loaded_next_index /\ modules' = modules
      /\ open' = open \cup {L} /\ luastate' = L
  BY DEF InterpStartup, vars
<1>3. LuaTypeOK'
  BY <1>2 DEF LuaInv, LuaTypeOK
<1> QED BY <1>1, <1>2, <1>3 DEF LuaInv

\* What the shutdown frees is no block: the heap is as before.
LEMMA ShutdownKeeps ==
    ASSUME LuaInv, NEW L \in LuaStates, InterpShutdown(L)
    PROVE  LuaInv'
<1>1. heap \in [Addr -> Uses] /\ badfree \in BOOLEAN
  BY DEF LuaInv, IInv, TypeOK
<1>2. FreedByShutdown \subseteq {"PRG"}
  BY DEF FreedByShutdown, FirstWord
<1>3. heap' = heap
  <2>1. heap' = Freed(heap, FreedByShutdown)
    BY DEF InterpShutdown
  <2>2. \A a \in Addr : a \notin FreedByShutdown
    BY <1>2, LuaExtAssumption
  <2> QED BY <1>1, <2>1, <2>2 DEF Freed
<1>4. badfree' \in BOOLEAN
  BY <1>1, Zenon DEF InterpShutdown, BadFree
<1>5. /\ frames' = frames /\ residents' = residents /\ loaded' = loaded
      /\ loaded_next_index' = loaded_next_index
      /\ modules' \subseteq modules
      /\ open' = open \ {L} /\ luastate' = NULL
      /\ is_current_prgm_resident' = is_current_prgm_resident
      /\ ld_bin_format' = ld_bin_format /\ emu_debug_alloc_ptr' = emu_debug_alloc_ptr
      /\ plh_isstartup' = plh_isstartup /\ plh_noscrredraw' = plh_noscrredraw
      /\ intmask' = intmask /\ screen' = screen
  BY DEF InterpShutdown, formatVars, plhVars
<1>6. IInv'
  <2>1. OutermostKnows'
    BY <1>5 DEF LuaInv, IInv, OutermostKnows
  <2> QED BY <1>3, <1>4, <1>5, <2>1, HeapAloneInv DEF LuaInv, IInv, TypeOK
<1>7. LuaTypeOK'
  BY <1>5 DEF LuaInv, LuaTypeOK
<1>8. Recorded(loaded, loaded_next_index, modules, residents)'
  BY <1>5 DEF LuaInv, Recorded
<1> QED BY <1>5, <1>6, <1>7, <1>8 DEF LuaInv

----------------------------------------------------------------------------
(***************************************************************************)
(* Modules are required.                                                   *)
(***************************************************************************)

LEMMA RequireKeeps ==
    ASSUME OneModuleAtATime, LuaInv, Require
    PROVE  LuaInv'
<1>1. /\ IInv /\ Exec(loaded_next_index) /\ loaded_next_index < LUAEXT_MAX_MODULES
      /\ UNCHANGED luaVars /\ frames = <<>> /\ loaded_next_index \in Nat
      /\ LUAEXT_MAX_MODULES \in Nat
  BY LuaExtAssumption DEF LuaInv, LuaTypeOK, Require, LuaRuns, OneModuleAtATime
<1>2. loaded_next_index \in Callers
  <2>1. loaded_next_index \in 0 .. LUAEXT_MAX_MODULES - 1
    BY <1>1
  <2> QED BY <2>1, LuaExtAssumption
<1>3. IInv'
  BY <1>1, <1>2, ExecInv DEF OneModuleAtATime, GdbWaits
<1>4. residents' = residents
  BY <1>1, <1>2, ExecPushes
<1>5. Starting(frames', loaded_next_index)
  <2>1. Len(frames) = 0
    BY <1>1
  <2>2. CASE frames' = frames
    BY <2>2 DEF LuaInv
  <2>3. CASE DOMAIN frames' = 1 .. 1 /\ frames'[1].resident_ptr = loaded_next_index
    BY <1>1, <2>3 DEF Starting
  <2> QED BY <1>1, <1>2, <2>1, <2>2, <2>3, ExecPushes
<1> QED BY <1>1, <1>3, <1>4, <1>5 DEF LuaInv, LuaTypeOK, luaVars

LEMMA ModuleReturnsKeeps ==
    ASSUME OneModuleAtATime, LuaInv, NEW ret \in Rets, ModuleReturns(ret)
    PROVE  LuaInv'
<1>1. /\ IInv /\ Return(ret) /\ Top.resident_ptr # NULL
      /\ open' = open /\ luastate' = luastate
  BY DEF LuaInv, ModuleReturns
<1>2a. PICK b : b = Top.base
  OBVIOUS
<1>2. PICK k \in Nat, N \in Nat : k = loaded_next_index /\ N = LUAEXT_MAX_MODULES
  BY LuaExtAssumption DEF LuaInv, LuaTypeOK
<1>3. /\ Len(frames) = 1 /\ Top = frames[1] /\ Top.resident_ptr = k /\ k < N
  <2>1. Len(frames) \in DOMAIN frames /\ Top = frames[Len(frames)]
    BY <1>1, ReturnPops, FrameFacts
  <2> QED BY <1>1, <1>2, <2>1 DEF LuaInv, Starting
<1>4. /\ DOMAIN frames' = {} /\ b \in Addr /\ residents \subseteq residents'
      /\ ret # Dead => b \in residents'
  <2>1. DOMAIN frames' = 1 .. 0
    BY <1>1, <1>3, ReturnPops
  <2> QED BY <1>1, <1>2a, <2>1, ReturnPops
<1>5. b \notin residents
  BY <1>1, <1>2a, <1>3, FrameFacts DEF OneModuleAtATime
<1>6. IInv'
  BY <1>1, ReturnInv
<1>7. /\ loaded' = IF ret = Dead THEN loaded ELSE [loaded EXCEPT ![k] = b]
      /\ loaded_next_index' = IF ret = 0 THEN k + 1 ELSE k
      /\ modules' = IF ret = 0 THEN modules \cup {b} ELSE modules
  BY <1>2a, <1>2, <1>3 DEF ModuleReturns
<1>8. /\ loaded \in [Slots -> Addr \cup {NULL}] /\ modules \subseteq Addr
      /\ k \in Slots /\ Slots = 0 .. N - 1
  BY <1>2, <1>3 DEF LuaInv, LuaTypeOK, Slots, Dead
<1>9. LuaTypeOK'
  <2>1. loaded' \in [Slots -> Addr \cup {NULL}] /\ modules' \subseteq Addr
    BY <1>4, <1>7, <1>8
  <2>2. loaded_next_index' \in 0 .. N
    BY <1>3, <1>7
  <2>3. open' \subseteq LuaStates /\ luastate' \in open' \cup {NULL}
    BY <1>1 DEF LuaInv, LuaTypeOK
  <2> QED BY <1>2, <2>1, <2>2, <2>3 DEF LuaTypeOK
<1>10. Starting(frames', loaded_next_index')
  BY <1>4 DEF Starting
<1>11. Recorded(loaded, k, modules, residents)
  BY <1>2 DEF LuaInv
<1>12. Recorded(loaded', loaded_next_index', modules', residents')
  <2>1. \A i \in Slots : i < k => loaded'[i] = loaded[i]
    BY <1>7, <1>8
  <2>2. CASE ret # 0
    BY <1>4, <1>7, <1>11, <2>1, <2>2 DEF Recorded, Slots
  <2>3. CASE ret = 0
    <3>1. /\ loaded'[k] = b /\ loaded_next_index' = k + 1
          /\ modules' = modules \cup {b} /\ b \in residents'
      BY <1>4, <1>7, <1>8, <2>3
    <3>2. \A i \in Slots : i < k + 1 => i < k \/ i = k
      BY DEF Slots
    <3>3. \A i \in Slots : i < k + 1 => loaded'[i] \in residents'
      BY <1>4, <1>11, <2>1, <3>1, <3>2 DEF Recorded
    <3>4. ASSUME NEW i \in Slots, NEW j \in Slots, i < j, j < k + 1
          PROVE  loaded'[i] # loaded'[j]
      <4>1. i < k
        BY <3>4 DEF Slots
      <4>2. CASE j < k
        BY <1>11, <2>1, <3>4, <4>1, <4>2 DEF Recorded
      <4>3. CASE j = k
        BY <1>5, <1>11, <2>1, <3>1, <4>1, <4>3 DEF Recorded
      <4> QED BY <3>2, <3>4, <4>2, <4>3
    <3>5. ASSUME NEW a \in modules' PROVE \E i \in Slots : i < k + 1 /\ loaded'[i] = a
      <4>1. CASE a \in modules
        <5>1. PICK i \in Slots : i < k /\ loaded[i] = a
          BY <1>11, <4>1 DEF Recorded
        <5> QED BY <2>1, <5>1 DEF Slots
      <4>2. CASE a = b
        BY <1>8, <3>1, <4>2
      <4> QED BY <3>1, <3>5, <4>1, <4>2
    <3> QED BY <3>1, <3>3, <3>4, <3>5 DEF Recorded
  <2> QED BY <2>2, <2>3
<1> QED BY <1>6, <1>9, <1>10, <1>12 DEF LuaInv

----------------------------------------------------------------------------
(***************************************************************************)
(* Other programs run and return.                                          *)
(***************************************************************************)

LEMMA LoaderStepKeeps ==
    ASSUME OneModuleAtATime, LuaInv, LoaderStep
    PROVE  LuaInv'
<1>1. IInv /\ GdbWaits /\ UNCHANGED luaVars
  BY DEF LuaInv, LoaderStep, OneModuleAtATime, GdbWaits
<1>2. /\ IInv' /\ residents \subseteq residents'
      /\ Starting(frames', loaded_next_index)
  <2>1. CASE OpenDocument \/ NlExec
    <3>1. Exec(NULL)
      BY <2>1 DEF OpenDocument, NlExec
    <3>2. IInv' /\ residents' = residents
      BY <1>1, <3>1, ExecInv, ExecPushes
    <3>3. CASE frames' = frames
      BY <3>2, <3>3 DEF LuaInv
    <3>4. CASE /\ DOMAIN frames' = 1 .. (Len(frames) + 1)
               /\ \A i \in 1 .. Len(frames) :
                     frames'[i].resident_ptr = frames[i].resident_ptr
               /\ frames'[Len(frames) + 1].resident_ptr = NULL
      <4>1. PICK n \in Nat : n = Len(frames) /\ DOMAIN frames = 1 .. n
        BY <1>1, FrameFacts
      <4>2. \A i \in 1 .. (n + 1) : i \in 1 .. n \/ i = n + 1
        OBVIOUS
      <4> QED BY <3>2, <3>4, <4>1, <4>2 DEF LuaInv, Starting
    <3> QED BY <1>1, <3>1, <3>2, <3>3, <3>4, ExecPushes
  <2>2. CASE SetResident
    <3>1. IInv' /\ residents' = residents /\ frames # <<>>
      BY <1>1, <2>2, SetResidentInv DEF SetResident
    <3>2. PICK n \in Nat : n = Len(frames) /\ DOMAIN frames = 1 .. n
      BY <1>1, FrameFacts
    <3>3. PICK f \in Frame : f = Asking(Top, "last") /\ f.resident_ptr = Top.resident_ptr
      BY <1>1, <3>1, TopFrame, AskingFrame
    <3>4. frames' = [frames EXCEPT ![n] = f] /\ Top = frames[n]
      BY <2>2, <3>2, <3>3 DEF SetResident, Top
    <3>5. /\ DOMAIN frames' = 1 .. n
          /\ \A i \in 1 .. n : frames'[i].resident_ptr = frames[i].resident_ptr
      BY <1>1, <3>2, <3>3, <3>4 DEF IInv, TypeOK
    <3> QED BY <3>1, <3>2, <3>5 DEF LuaInv, Starting
  <2>3. CASE \E ret \in Rets : Return(ret)
    <3>1. PICK ret \in Rets : Return(ret)
      BY <2>3
    <3>2. IInv' /\ residents \subseteq residents'
      BY <1>1, <3>1, ReturnInv, ReturnPops
    <3>3. PICK n \in Nat : n = Len(frames) /\ DOMAIN frames = 1 .. n
      BY <1>1, FrameFacts
    <3>4. \A i \in 1 .. (n - 1) : i \in 1 .. n
      OBVIOUS
    <3>5. /\ DOMAIN frames' = 1 .. (n - 1)
          /\ \A i \in 1 .. (n - 1) : frames'[i] = frames[i]
      BY <1>1, <3>1, <3>3, ReturnPops
    <3> QED BY <3>2, <3>3, <3>4, <3>5 DEF LuaInv, Starting
  <2> QED BY <2>1, <2>2, <2>3 DEF LoaderStep
<1>3. Recorded(loaded, loaded_next_index, modules, residents')
  BY <1>2 DEF LuaInv, Recorded
<1> QED BY <1>1, <1>2, <1>3 DEF LuaInv, LuaTypeOK, luaVars

----------------------------------------------------------------------------

LEMMA LuaStepInv ==
    ASSUME OneModuleAtATime, LuaInv, [LuaNext]_allVars
    PROVE  LuaInv'
<1>1. CASE UNCHANGED allVars
  <2>1. IInv'
    BY <1>1, Unchanged DEF LuaInv, allVars
  <2> QED BY <1>1, <2>1 DEF LuaInv, LuaTypeOK, allVars, vars, luaVars
<1>2. CASE RequireRefused
  BY <1>1, <1>2 DEF RequireRefused
<1> QED
  BY <1>1, <1>2, StartupKeeps, ShutdownKeeps, RequireKeeps, ModuleReturnsKeeps,
     LoaderStepKeeps DEF LuaNext

THEOREM LuaInvariance == OneModuleAtATime /\ LuaSpec => []LuaInv
<1> SUFFICES ASSUME OneModuleAtATime PROVE LuaSpec => []LuaInv
  OBVIOUS
<1>1. LuaInv /\ [LuaNext]_allVars => LuaInv'
  BY LuaStepInv
<1> QED BY LuaInitInv, <1>1, PTL DEF LuaSpec

\* nl_lua_getstate() never returns an interpreter that has been closed, and
\* loaded is never indexed beyond its end.
THEOREM LuaTypes == OneModuleAtATime /\ LuaSpec => []LuaTypeOK
<1>1. LuaInv => LuaTypeOK
  BY DEF LuaInv
<1> QED BY LuaInvariance, <1>1, PTL

\* The slots of loaded in use hold distinct blocks of modules in memory, and
\* every module of an open interpreter is in one of them.
THEOREM ModulesAreRecorded == OneModuleAtATime /\ LuaSpec => []ArrayOfModules
<1> SUFFICES ASSUME OneModuleAtATime PROVE LuaSpec => []ArrayOfModules
  OBVIOUS
<1>1. NoDebugger
  BY DEF OneModuleAtATime
<1> QED BY LuaInvariance, InvMeans, <1>1, PTL
=============================================================================
