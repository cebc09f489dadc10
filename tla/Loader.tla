------------------------------- MODULE Loader -------------------------------
(***************************************************************************)
(* The program loader of Ndless: src/Ndless/trunk/arm/ploaderhook.c, with  *)
(* the debug block of emu.c and the extension syscalls of syscalls.c that  *)
(* reach it.  ld_exec_with_args() loads a program into a block of the OS   *)
(* heap, calls it, and gives everything back when it returns, unless the   *)
(* program stays resident.  It keeps what it knows about the running       *)
(* program in global variables, although a program may run another one     *)
(* with nl_exec() and the loader then runs within itself.                  *)
(*                                                                         *)
(* ld_exec_with_args() is cut where it calls the program: Exec is the part *)
(* before the call, Quit the part after it.  In between the program acts.  *)
(***************************************************************************)
EXTENDS Naturals, Sequences, FiniteSets

CONSTANTS
    Addr,        \* addresses of the OS heap's blocks
    NULL,        \* the null pointer
    Files,       \* what a file to run may hold, a subset of FileKinds
    Callers,     \* values of ld_exec()'s resident_ptr besides NULL
    NlExecs,     \* whether programs call nl_exec()
    MaxFrames,   \* how deep ld_exec() runs within itself (bound)
    MaxResidents,\* how many programs ask to stay (bound)
    MallocFails, \* whether malloc() may fail while blocks are left
    Debugger     \* when GDB may attach and detach: "never", "idle", "always"

Dead == 57005   \* 0xDEAD, ld_exec()'s "can't run it"

\* A plain Ndless program, a bFLT program, a bFLT file that cannot be loaded
\* to its end, and a file in neither format.
FileKinds == {"ndless", "bflt", "broken", "other"}

ASSUME LoaderAssumption ==
    /\ NULL \notin Addr /\ NULL \notin Callers
    /\ Files \subseteq FileKinds
    /\ NlExecs \in BOOLEAN
    /\ MaxFrames \in Nat \ {0}
    /\ MaxResidents \in Nat
    /\ MallocFails \in BOOLEAN
    /\ Debugger \in {"never", "idle", "always"}

VARIABLES
    heap,      \* what each block of the OS heap is used for
    badfree,   \* whether free() was ever given anything but a block in use
    frames,    \* ld_exec_with_args() calls with a program running, innermost last
    is_current_prgm_resident, ld_bin_format,
    emu_debug_alloc_ptr, plh_isstartup, plh_noscrredraw,
    intmask,   \* the interrupt mask of the processor
    screen,    \* who drew the screen: 0 the OS, n the n-th frame's program
    residents  \* history: blocks of the programs that have stayed resident

heapVars   == <<heap, badfree>>
formatVars == <<is_current_prgm_resident, ld_bin_format>>
plhVars    == <<plh_isstartup, plh_noscrredraw>>
vars == <<heapVars, frames, formatVars, emu_debug_alloc_ptr, plhVars, intmask,
          screen, residents>>

Uses    == {"free", "image", "screen", "argv", "debug"}
Formats == {"LD_ERROR_BIN", "LD_NDLESS_BIN", "LD_BFLT_BIN"}
Masks   == {"on", "off"}

\* The locals of a call that live across the program's run.  format and asked
\* are history: the program's real format, and whether it called
\* nl_set_resident() ("early": before it ran another program, "last": since).
Frame == [base: Addr, savedscr: Addr, argv: Addr, resident_ptr: Callers \cup {NULL},
          intmask: Masks, picture: 0 .. MaxFrames,
          format: Formats, asked: {"never", "early", "last"}]

Top == frames[Len(frames)]

Init ==
    /\ heap = [a \in Addr |-> "free"]
    /\ badfree = FALSE
    /\ frames = <<>>
    /\ is_current_prgm_resident = FALSE
    /\ ld_bin_format = "LD_ERROR_BIN"
    /\ emu_debug_alloc_ptr = NULL
    /\ plh_isstartup = FALSE
    /\ plh_noscrredraw = FALSE
    /\ intmask = "on"
    /\ screen = 0
    /\ residents = {}

----------------------------------------------------------------------------
(***************************************************************************)
(* The heap of the OS.                                                     *)
(***************************************************************************)

FreeBlocks(h) == {a \in DOMAIN h : h[a] = "free"}

\* What malloc() may return on heap h.
Malloc(h) == FreeBlocks(h) \cup (IF MallocFails \/ FreeBlocks(h) = {} THEN {NULL} ELSE {})

Alloc(h, p, use) == [h EXCEPT ![p] = use]

\* The heap after free() of the pointers ps: of those that are not blocks in
\* use, nothing sensible can be said (free(NULL) does nothing).
Freed(h, ps) == [a \in DOMAIN h |-> IF a \in ps THEN "free" ELSE h[a]]

BadFree(h, ps) == \E p \in ps : p # NULL /\ (p \in DOMAIN h => h[p] = "free")

----------------------------------------------------------------------------
(***************************************************************************)
(* ld_exec_with_args() up to the call of the program.                      *)
(***************************************************************************)

\* The block an image is loaded to by ndless_load() and bflt_fload(): the
\* debug block whenever there is one.  bflt_fload() loads the shared libraries
\* of a bFLT program there too, over the program, and frees the block as that
\* of a stale library (bflt.c:146): with Debugger other than "never" the bFLT
\* programs of this module link to no library.
LoadBlocks == IF emu_debug_alloc_ptr # NULL THEN {emu_debug_alloc_ptr} ELSE Malloc(heap)

Loaded(base) == IF base = emu_debug_alloc_ptr THEN heap ELSE Alloc(heap, base, "image")

FormatOf(file) == IF file = "ndless" THEN "LD_NDLESS_BIN" ELSE "LD_BFLT_BIN"

\* A path without any extension is refused before anything is changed.
NoExtension == UNCHANGED vars

\* Variant: a load that fails frees the base of the last load.
CannotLoadFreesLastBase ==
    /\ "other" \in Files \/ "broken" \in Files
    /\ heap' = IF frames = <<>> THEN heap ELSE Freed(heap, {Top.base})
    /\ ld_bin_format' = "LD_ERROR_BIN"
    /\ UNCHANGED <<badfree, frames, is_current_prgm_resident, emu_debug_alloc_ptr,
                   plhVars, intmask, screen, residents>>

\* Neither loader takes the file, or there is no block for its image: 0xDEAD.
\* bflt_fload() frees the block of an image it gives up, even the debug block.
CannotLoad ==
    /\ \/ /\ "other" \in Files \/ NULL \in LoadBlocks
          /\ UNCHANGED heapVars
       \/ /\ "broken" \in Files
          /\ heap' = Freed(heap, {emu_debug_alloc_ptr})
          /\ badfree' = (badfree \/ BadFree(heap, {emu_debug_alloc_ptr}))
    /\ ld_bin_format' = "LD_ERROR_BIN"
    /\ UNCHANGED <<frames, is_current_prgm_resident, emu_debug_alloc_ptr,
                   plhVars, intmask, screen, residents>>

\* Variants of the end of ld_exec_with_args(), each with one slip of it.

\* nl_set_resident() is forgotten.
QuitForgetsResident(h, format, base, savedscr, argv, resident_ptr, ret) ==
    LET stays == ret # Dead /\ resident_ptr # NULL
        image == IF emu_debug_alloc_ptr = NULL /\ format # "LD_ERROR_BIN"
                 THEN {base} ELSE {}
        ps    == {savedscr} \cup (IF stays THEN {} ELSE image \cup {argv})
    IN  /\ heap' = Freed(h, ps)
        /\ badfree' = (badfree \/ BadFree(h, ps))

\* bFLT programs are not freed.
QuitNdlessOnly(h, format, base, savedscr, argv, resident_ptr, ret) ==
    LET stays == is_current_prgm_resident \/ (ret # Dead /\ resident_ptr # NULL)
        image == IF emu_debug_alloc_ptr = NULL /\ format = "LD_NDLESS_BIN"
                 THEN {base} ELSE {}
        ps    == {savedscr} \cup (IF stays THEN {} ELSE image \cup {argv})
    IN  /\ heap' = Freed(h, ps)
        /\ badfree' = (badfree \/ BadFree(h, ps))

\* The end of ld_exec_with_args() (ld_exec_with_args_quit): h is the heap and
\* format the value of ld_bin_format.  Who keeps its block keeps argv too.
Quit(h, format, base, savedscr, argv, resident_ptr, ret) ==
    LET stays == is_current_prgm_resident \/ (ret # Dead /\ resident_ptr # NULL)
        image == IF emu_debug_alloc_ptr = NULL /\ format # "LD_ERROR_BIN"
                 THEN {base} ELSE {}
        ps    == {savedscr} \cup (IF stays THEN {} ELSE image \cup {argv})
    IN  /\ heap' = Freed(h, ps)
        /\ badfree' = (badfree \/ BadFree(h, ps))

\* The program is loaded, but there is no memory to save the screen or to
\* build argv: 0xDEAD, through the exit of a program that has run.
NoMemory(res) ==
    \E file \in Files \cap {"ndless", "bflt"}, base \in LoadBlocks \ {NULL} :
       LET h == Loaded(base) IN
       /\ \/ /\ NULL \in Malloc(h)
             /\ Quit(h, FormatOf(file), base, NULL, NULL, res, Dead)
          \/ \E scr \in Malloc(h) \ {NULL} :
                /\ NULL \in Malloc(Alloc(h, scr, "screen"))
                /\ Quit(Alloc(h, scr, "screen"), FormatOf(file), base, scr, NULL,
                        res, Dead)
       /\ ld_bin_format' = FormatOf(file)
       /\ UNCHANGED <<frames, is_current_prgm_resident, emu_debug_alloc_ptr,
                      plhVars, intmask, screen, residents>>

Asking(f, when) == [f EXCEPT !.asked = when]

\* A program that runs another one may have asked to stay before it did.
Outer == [i \in DOMAIN frames |->
             IF i = Len(frames) /\ frames[i].asked = "last"
             THEN Asking(frames[i], "early") ELSE frames[i]]

\* Variant: the program is called without its argv when malloc() fails.
EnterUnchecked(res) ==
    /\ Len(frames) < MaxFrames
    /\ \E file \in Files \cap {"ndless", "bflt"}, base \in LoadBlocks \ {NULL} :
       \E scr \in Malloc(Loaded(base)) \ {NULL} :
       \E argv \in Malloc(Alloc(Loaded(base), scr, "screen")) :
          /\ heap' = IF argv = NULL THEN Alloc(Loaded(base), scr, "screen")
                     ELSE Alloc(Alloc(Loaded(base), scr, "screen"), argv, "argv")
          /\ frames' = Append(Outer,
                [base |-> base, savedscr |-> scr, argv |-> argv,
                 resident_ptr |-> res, intmask |-> intmask, picture |-> screen,
                 format |-> FormatOf(file), asked |-> "never"])
          /\ ld_bin_format' = FormatOf(file)
    /\ intmask' = "off"
    /\ is_current_prgm_resident' = FALSE
    /\ UNCHANGED <<badfree, emu_debug_alloc_ptr, plhVars, screen, residents>>

\* The program is loaded, the interrupts are masked, the screen is saved and
\* the program is called.
Enter(res) ==
    /\ Len(frames) < MaxFrames
    /\ \E file \in Files \cap {"ndless", "bflt"}, base \in LoadBlocks \ {NULL} :
       \E scr \in Malloc(Loaded(base)) \ {NULL} :
       \E argv \in Malloc(Alloc(Loaded(base), scr, "screen")) \ {NULL} :
          /\ heap' = Alloc(Alloc(Loaded(base), scr, "screen"), argv, "argv")
          /\ frames' = Append(Outer,
                [base |-> base, savedscr |-> scr, argv |-> argv,
                 resident_ptr |-> res, intmask |-> intmask, picture |-> screen,
                 format |-> FormatOf(file), asked |-> "never"])
          /\ ld_bin_format' = FormatOf(file)
    /\ intmask' = "off"
    /\ is_current_prgm_resident' = FALSE
    /\ UNCHANGED <<badfree, emu_debug_alloc_ptr, plhVars, screen, residents>>

Exec(res) == NoExtension \/ CannotLoad \/ NoMemory(res) \/ Enter(res)

\* Variants of the return of a program, each with one slip of it.

\* The interrupt mask is not set back.
ReturnKeepsMask(ret) ==
    /\ frames # <<>>
    /\ screen' = IF plh_noscrredraw THEN screen ELSE Top.picture
    /\ Quit(heap, ld_bin_format, Top.base, Top.savedscr, Top.argv,
            Top.resident_ptr, ret)
    /\ frames' = SubSeq(frames, 1, Len(frames) - 1)
    /\ residents' = residents \cup (IF Top.asked = "last" THEN {Top.base} ELSE {})
    /\ UNCHANGED <<formatVars, emu_debug_alloc_ptr, plhVars, intmask>>

\* The screen of a program that ran another one is not redrawn.
ReturnKeepsScreen(ret) ==
    /\ frames # <<>>
    /\ screen' = IF plh_noscrredraw \/ Len(frames) = 1 THEN screen ELSE Top.picture
    /\ intmask' = Top.intmask
    /\ Quit(heap, ld_bin_format, Top.base, Top.savedscr, Top.argv,
            Top.resident_ptr, ret)
    /\ frames' = SubSeq(frames, 1, Len(frames) - 1)
    /\ residents' = residents \cup (IF Top.asked = "last" THEN {Top.base} ELSE {})
    /\ UNCHANGED <<formatVars, emu_debug_alloc_ptr, plhVars>>

\* The program returns ret to ld_exec_with_args(), which returns it to its
\* own caller: to the OS, to the program below, or to require().
Return(ret) ==
    /\ frames # <<>>
    /\ screen' = IF plh_noscrredraw THEN screen ELSE Top.picture
    /\ intmask' = Top.intmask
    /\ Quit(heap, ld_bin_format, Top.base, Top.savedscr, Top.argv,
            Top.resident_ptr, ret)
    /\ frames' = SubSeq(frames, 1, Len(frames) - 1)
    /\ residents' = residents \cup
          (IF Top.asked = "last" \/ (ret # Dead /\ Top.resident_ptr # NULL)
           THEN {Top.base} ELSE {})
    /\ UNCHANGED <<formatVars, emu_debug_alloc_ptr, plhVars>>

----------------------------------------------------------------------------
(***************************************************************************)
(* Who calls ld_exec().                                                    *)
(***************************************************************************)

\* plh_hook: the OS opens a document.
OpenDocument ==
    /\ frames = <<>> /\ ~plh_isstartup
    /\ Exec(NULL)

\* plh_startup_hook: it runs all the files of a folder, one after the other.
StartupBegin ==
    /\ frames = <<>> /\ ~plh_isstartup
    /\ plh_isstartup' = TRUE
    /\ UNCHANGED <<heapVars, frames, formatVars, emu_debug_alloc_ptr,
                   plh_noscrredraw, intmask, screen, residents>>

StartupExec ==
    /\ frames = <<>> /\ plh_isstartup
    /\ Exec(NULL)

StartupEnd ==
    /\ frames = <<>> /\ plh_isstartup
    /\ plh_isstartup' = FALSE
    /\ UNCHANGED <<heapVars, frames, formatVars, emu_debug_alloc_ptr,
                   plh_noscrredraw, intmask, screen, residents>>

\* sc_nl_exec: the running program runs another one.
NlExec ==
    /\ NlExecs
    /\ frames # <<>>
    /\ Exec(NULL)

----------------------------------------------------------------------------
(***************************************************************************)
(* What else the running program does.                                     *)
(***************************************************************************)

\* nl_set_resident() (ld_set_resident).
SetResident ==
    /\ frames # <<>>
    /\ Cardinality(residents) < MaxResidents
    /\ is_current_prgm_resident' = TRUE
    /\ frames' = [frames EXCEPT ![Len(frames)] = Asking(Top, "last")]
    /\ UNCHANGED <<heapVars, ld_bin_format, emu_debug_alloc_ptr, plhVars,
                   intmask, screen, residents>>

\* nl_no_scr_redraw() (sc_nl_no_scr_redraw).
NoScrRedraw ==
    /\ frames # <<>>
    /\ plh_noscrredraw' = TRUE
    /\ UNCHANGED <<heapVars, frames, formatVars, emu_debug_alloc_ptr,
                   plh_isstartup, intmask, screen, residents>>

\* It draws, and it changes the interrupt mask without setting it back.
Draw ==
    /\ frames # <<>>
    /\ screen' = Len(frames)
    /\ UNCHANGED <<heapVars, frames, formatVars, emu_debug_alloc_ptr, plhVars,
                   intmask, residents>>

SetMask(mask) ==
    /\ frames # <<>>
    /\ intmask' = mask
    /\ UNCHANGED <<heapVars, frames, formatVars, emu_debug_alloc_ptr, plhVars,
                   screen, residents>>

----------------------------------------------------------------------------
(***************************************************************************)
(* GDB attaches and detaches through the emulator, which makes the machine *)
(* execute the syscall in the middle of whatever it does.                  *)
(***************************************************************************)

DebuggerActs == Debugger = "always" \/ (Debugger = "idle" /\ frames = <<>>)

emu_debug_alloc ==
    /\ DebuggerActs
    /\ emu_debug_alloc_ptr = NULL
    /\ \E p \in Malloc(heap) :
          /\ emu_debug_alloc_ptr' = p
          /\ heap' = IF p = NULL THEN heap ELSE Alloc(heap, p, "debug")
    /\ UNCHANGED <<badfree, frames, formatVars, plhVars, intmask, screen, residents>>

emu_debug_free ==
    /\ DebuggerActs
    /\ heap' = Freed(heap, {emu_debug_alloc_ptr})
    /\ badfree' = (badfree \/ BadFree(heap, {emu_debug_alloc_ptr}))
    /\ emu_debug_alloc_ptr' = NULL
    /\ UNCHANGED <<frames, formatVars, plhVars, intmask, screen, residents>>

----------------------------------------------------------------------------
Rets == {0, 1, Dead}

Next ==
    \/ OpenDocument
    \/ StartupBegin
    \/ StartupExec
    \/ StartupEnd
    \/ NlExec
    \/ SetResident
    \/ NoScrRedraw
    \/ Draw
    \/ \E mask \in Masks : SetMask(mask)
    \/ \E ret \in Rets : Return(ret)
    \/ emu_debug_alloc
    \/ emu_debug_free

Spec == Init /\ [][Next]_vars

----------------------------------------------------------------------------
(***************************************************************************)
(* Properties.                                                             *)
(***************************************************************************)

TypeOK ==
    /\ heap \in [Addr -> Uses]
    /\ badfree \in BOOLEAN
    /\ frames \in Seq(Frame)
    /\ Len(frames) <= MaxFrames
    /\ is_current_prgm_resident \in BOOLEAN
    /\ ld_bin_format \in Formats
    /\ emu_debug_alloc_ptr \in Addr \cup {NULL}
    /\ plh_isstartup \in BOOLEAN
    /\ plh_noscrredraw \in BOOLEAN
    /\ intmask \in Masks
    /\ screen \in 0 .. MaxFrames
    /\ residents \subseteq Addr

\* While a program runs, its image, the saved screen and its argv are blocks
\* of their own: no other call of the loader has freed or reused them.
BlocksInUse ==
    /\ \A i \in DOMAIN frames :
          /\ heap[frames[i].base] = "image"
          /\ heap[frames[i].savedscr] = "screen"
          /\ heap[frames[i].argv] = "argv"
    /\ \A i, j \in DOMAIN frames : i # j =>
          /\ frames[i].base # frames[j].base
          /\ frames[i].savedscr # frames[j].savedscr
          /\ frames[i].argv # frames[j].argv

\* free() is given NULL or a block in use, always.
NoBadFree == ~badfree

\* A program that stays resident keeps its block for ever, and no program
\* that runs is loaded over it.
ResidentsLive ==
    /\ \A a \in residents : heap[a] = "image"
    /\ \A i \in DOMAIN frames : frames[i].base \notin residents

\* The OS gets its interrupts back, whatever the programs did to the mask
\* and however ld_exec_with_args() was left.
MaskGivenBack == frames = <<>> => intmask = "on"

\* The OS gets its screen back, unless a program asked for no redraw.
ScreenGivenBack == frames = <<>> /\ ~plh_noscrredraw => screen = 0

\* A block that holds an image belongs to a program that runs or that asked
\* to stay: "required by the program itself" (ploaderhook.c).  Only resident
\* programs leave something else on the heap, their argv.
NoLeak ==
    /\ \A a \in Addr : heap[a] = "image" =>
          a \in residents \/ \E i \in DOMAIN frames : frames[i].base = a
    /\ Cardinality({a \in Addr : heap[a] = "screen"}) = Len(frames)
    /\ Cardinality({a \in Addr : heap[a] = "argv"})
          <= Len(frames) + Cardinality(residents)

\* A program that calls nl_set_resident() and returns stays in memory.
AskedStays ==
    [][Len(frames') < Len(frames) /\ Top.asked # "never"
          => heap'[Top.base] # "free"]_vars
=============================================================================
