# Ndless, specified

Ndless opens TI-Nspire calculators to native programs. It is a handful of C
files that live inside an operating system they do not control: they intercept
the OS's software interrupts, its document browser and its Lua interpreters,
allocate on its heap and rewrite its file system. Little of it runs
concurrently; nearly all of it is *re-entered*. A program runs a program, a
syscall executes a syscall, a library loads a library, and each layer keeps what
it knows in global variables.

This directory holds TLA+ models of that core, the TLC configurations that check
them on small instances, and proofs, checked by TLAPS, of what matters most.
Paths below are relative to `src/`; `arm/` is short for `Ndless/trunk/arm/` and
`emu/` for `Ndless/trunk/Ndless-SDK/nspire_emu/`.

Contents: 1 the system, 2 the modules, 3 the runs, 4 the proofs, 5 where the
code departs from what it says, 6 what is not modelled, 7 the plan.

## 1. The system

### 1.1 On the calculator

| Part | State it keeps | Operations | Called by / calls |
|---|---|---|---|
| **SWI handler** `arm/ints.c` | `saved_spsr`, `saved_lr`, `saved_spsr2`, `saved_lr2` | entry of a `swi`, `back_to_caller`, `ints_setup_handlers()` | called by every `swi` of Ndless and of programs; calls OS functions, extensions and emulator syscalls, which may execute `swi` again |
| **Program loader** `arm/ploaderhook.c` | `is_current_prgm_resident`, `ld_bin_format`, `plh_isstartup`, `plh_noscrredraw`; locals of each `ld_exec_with_args()` | `ld_exec()`, `ld_exec_with_args()`, `ld_set_resident()`, `ld_free()`, `plh_hook`, `plh_startup_hook` | called by the OS (a document is opened), by the startup hook, by `nl_exec()` and `require()`; calls the OS heap, the bFLT loader, the program |
| **Debug block** `arm/emu.c` | `emu_debug_alloc_ptr` | `emu_debug_alloc()`, `emu_debug_free()` | called by the emulator on behalf of GDB, in the middle of anything |
| **Extension syscalls** `arm/syscalls.c` | the two syscall tables | `nl_exec`, `nl_set_resident`, `nl_no_scr_redraw`, `nl_relocdatab`, queries | called by programs through the SWI handler |
| **Lua extension** `arm/luaext.c` | `luastate`, `loaded`, `loaded_next_index` | `require()`, the hooks on the opening and the closing of an interpreter | called by the OS's interpreters; calls the program loader |
| **bFLT loader** `arm/bflt.c` | `lib_cache` and the recursion of `bflt_fload()` | `bflt_load()`, `bflt_free()`, `load_shared_library()` | called by the program loader; calls itself |
| **Installer** `arm/install.c` | the OS file on the flash, `shift_buf`, the hooks | `main()`, `persistent()` | run over USB, at each startup, by a third-party loader, and as `ndless_resources` |
| **Boot stages** `arm/stage0.S`, `stage1.c` | none of their own | find the OS version, set up the handlers, load the installer | run by the OS's boot |
| **Utilities** `arm/utils.c` | `ut_os_version_index` | version detection, folder scan, panic | used by all |
| **Syscall tables** `arm/syscalls_*.c` | constants | | generated |
| **Hooks** (`Ndless-SDK/ndless/include/common.h`) | the instructions that a hook replaces, kept in the installer's code | `HOOK_INSTALL`, `HOOK_UNINSTALL` | used by the installer, the Lua extension and resident programs |
| **libndls**, startup code | `config.c`: the list of file associations | wrappers, configuration | linked into programs |

What makes these parts correct:

- *SWI handler*: a syscall returns to the instruction after its `swi`, with the
  caller's instruction set and flags, whatever syscalls its body executed.
- *Program loader*: the blocks of a running program stay its own; everything is
  given back when it returns, once, and nothing of a resident program ever is;
  the OS gets its screen and its interrupts back.
- *Debug block*: it is in use as long as its pointer says so.
- *Lua extension*: the array of modules describes the modules in memory; the
  state handed out is that of an open interpreter.
- *bFLT loader*: an image links to libraries that are in memory, in the version
  of their files; a failed load leaves nothing behind; every load ends
  whose libraries are not circular.
- *Installer*: a whole OS and a whole Ndless after each call; no part of the OS
  is lost when a call is interrupted.

Hard behaviours: re-entry (the SWI handler through syscalls of syscalls, the
loader through `nl_exec()`, the bFLT loader through libraries of libraries,
`require()` through modules that require); shared exit paths (`malloc()` fails
in the middle of `ld_exec_with_args()`, a nested load fails); asynchrony (GDB
makes the emulated machine execute a syscall at any point); interruption (the OS
file is rewritten in place); long sessions (residents, caches and arrays that
only grow, flags that are never reset). There is no second thread in Ndless
itself: a task that is not the running program does not call it.

### 1.2 On the computer

The SDK contains an emulator of the calculator (`emu/`): a single-threaded loop
around a CPU, with state in global variables. Its parts with behaviour of their
own:

| Part | State | Hard behaviour | Should hold |
|---|---|---|---|
| Events and clocks `schedule.c` | `sched_items`, `clock_rates`, `next_cputick` | events that reschedule themselves while pending ones run, changes of all clock rates | no event is lost or due twice, ticks stay below their rate, pending events come to an end |
| Interrupts `interrupt.c` | active, raw and sticky status, masks, priorities | acknowledgement by reads, the line of the CPU | an interrupt that may be taken has its line raised |
| Timers, watchdog `misc.c`, `apb.c`, `casplus.c` | counters, control, completion | registers written while their own event is due | a running watchdog is armed, a stopped one is not |
| NAND flash `flash.c` | state of the command, row, column, page buffer, modified blocks | multi-cycle commands, programming over programmed bits | only erasing sets bits, a modified block is saved |
| USB `usb.c`, `usblink.c` | endpoints, one send buffer, transfer state | acknowledgements and data share the buffer; connections and resets at any time | each packet of a file is sent once, in order; a transfer ends |
| GDB stub `gdbstub.c`, `armloader.c` | socket state, saved CPU state, one callback | a snippet runs inside the emulated program | the program goes on where it was |
| Link port `link.c` | state of the byte and of the packet | half-duplex handshake on two wires, packets given up and sent again | packets cross whole; a transfer ends |
| CPU, MMU, translation `cpu.c`, `translate.c`, `memory.c`, `mmu.c` | registers, memory, translated blocks | self-modifying code | a translation is dropped when its source is written |
| Display, keypad, GUI, ciphers | registers | | |

The rest of the repository: three copies or forks of the emulator
(`nspire_emu_fork`, `ncubate_emu`, `nspire_emu_appstream`), the SDK's tool chain
and vendored tools, Luna (a converter), hidn (USB host drivers), ocd (a
debugger), Nleash (a boot loader), hpg (graphics), games and samples, the test
programs, and earlier branches and tags of Ndless.

## 2. The modules

```
 SyscallStack <--- Swi <--- SwiProofs            Swi implements SyscallStack
 Loader <--- LuaExt <--- LoaderProofs            LuaExt extends Loader,
                                                 LoaderProofs is about both
 Bflt <--- BfltProofs        OsFile <--- OsFileProofs
 Countdown <--- Sched <--- Watchdog <--- WatchdogProofs
                                                 Sched implements Countdown
 HalfDuplex <--- LinkPort <--- LinkPortProofs    LinkPort implements HalfDuplex
 UsbLink <--- UsbLinkProofs  IntCtl <--- IntCtlProofs
```

A module named `...Proofs` extends the one it is about and holds its theorems.

The `MC` modules add symmetry and values of constants for TLC. Operators whose
comment says *Variant* are slips a programmer might make in the definition they
stand next to; no specification uses them. Each was put in the place of its
definition for a property, to see that the property notices.

### Swi and SyscallStack (`arm/ints.c`)

`SyscallStack` is what a caller relies on: a stack of callers. `Swi` is the
handler: the record `saved` holds its four words, `SaveCaller` is the entry up to
the jump into the body, `BackToCaller` the return, which decides from
`saved_spsr2` whose turn it is. `cpsr` and `pc` are the processor; `calls` is
history. A zero word is a status register with an illegal mode. The
instruction set travels in bit 0 of the saved link register, as in the code, so
that "moves to the link register" is a move that can be forgotten. Syscalls that
read a variable of the OS go straight from the entry to the return
(`SwiVariable`). `Unwind` is what `lua_error()` and `luaL_error()` do: they leave
a syscall with a `longjmp`, and no slot is given back.

Both halves of the handler are single actions: interrupts are masked from the
exception to the jump into the body, and on the way back the interrupts that may
occur execute no `swi`.

### Loader (`arm/ploaderhook.c`, `emu.c`, parts of `syscalls.c`)

`heap` says what each block of the OS heap is used for; `frames` are the calls of
`ld_exec_with_args()` that wait for their program, with the locals that live
across it; the global variables have their names. `ld_exec_with_args()` is cut
where it calls the program. Before the call there are four outcomes:
`NoExtension`, `CannotLoad` (neither loader takes the file, or no block),
`NoMemory` (loaded, but the screen or `argv` cannot be allocated: the exit is
that of a program that returned 0xDEAD) and `Enter`. After it, `Return` redraws
the screen, restores the mask and runs `Quit`, the shared exit. While a program
runs it may run another one, ask to stay, ask for no redraw, draw, or change the
interrupt mask. `emu_debug_alloc` and `emu_debug_free` occur between any two
steps, as the emulator makes them.

`free()` of anything but a block in use sets `badfree`, a history variable. A
block that is not "free" is never returned by `malloc()`. A bFLT file is an image
of one block here, or one that breaks half-way (`"broken"`); its libraries are in
`Bflt`. `format` and `asked` in a frame, and `residents`, are history. With GDB attached the libraries of a bFLT
file are loaded to GDB's block as well, over the program (`bflt.c:268`), and a stale
one frees that block (`bflt.c:146`): neither module has this (section 6).

### LuaExt (`arm/luaext.c`)

Extends `Loader`: `require()` is `Exec` with the index of a slot as the
`resident_ptr` that `ld_exec()` is given, `ModuleReturns` is the second half of
`ld_exec_with_args()` followed by that of `require()`. Interpreters belong to the
OS, which opens and closes them when no program runs. `FirstWord` stands for what
`ld_free()` finds when it is handed a module instead of the address of its slot.

### Bflt (`arm/bflt.c`)

`stack` is the recursion of `bflt_fload()`: each element has the block of its
image and the relocations still to do, in any order. A relocation links to the
cached library, refuses, or starts a nested load. `Fail` unwinds the whole stack:
each level frees its block and reports failure to the one around it.
`FinishLibrary` is the end of `load_shared_library()`: a stale version is freed,
the cache updated, the relocation done. `Install` replaces a library file between
two loads. The initial files are arbitrary: all dates, missing files, libraries
that name themselves or each other. `Circular` says that some libraries of one
build date do: the code loads those within each other until `malloc()` fails or
the C stack overflows, which its own comment calls an open problem
(`bflt.c:136`). GDB is not attached.

### OsFile (`persistent()` of `arm/install.c`)

The OS file is a sequence of cells; an entry is a header cell and its payload.
The entry at the place where `boot2.cer` is looked for is Ndless's or
`boot2.cer` itself. One action per read and per write of the loops that shift
the end of the file; the loops' variables are in `call`. `Crash` ends a call
between any two steps (power, or a failed file operation: `ut_panic()` reboots),
and the four `Cut...` actions end it within a write, of which only the first cells
are in the file: `fwriteos()` panics on a short `fwrite()` (`install.c:67`), and
the power may fail in it. The header of the entry is two `fwrite()`
(`install.c:213`), of which the first carries the size of a template. `torn`
records that one of the cut writes that may cost the OS something has happened.
The entries before `boot2.cer` are an opaque prefix: the search through them
changes nothing. `Uninstall` requires an entry of Ndless, which is how its user
got to run it.

### Sched, Countdown and Watchdog (`emu/schedule.c`, the watchdog of `misc.c`)

The emulator keeps no absolute time. `cycle_count_delta` counts up to 0 at the
next event; an event is a second and a tick of its own clock within it. The
functions of `schedule.c` first call `sched_process_pending_events()`, a loop
whose turns run the events' procedures, which set events again. `Sched` takes one
turn per step (`NewSecond`, `Fire`), with `call` what the caller does when the
loop ends (`Finish`): set or clear an event, read its remaining ticks, change the
clocks, or go on with the main loop. The ticks that remain of an event are those
that fit into a `u32` (`% Word`), also where `sched_set_clocks()` sets the event
from them. Between two calls the CPU moves the time:
an interpreted instruction by a cycle, a translated block by all of its
instructions when it is entered, which a data abort gives back (`Fault`), a wait
for an interrupt up to the next event, a read of the keypad by `Skip` cycles. A
block counts ahead of what it executes, so that the program may reach a device
while an event is due: this is why all the functions process the pending events.
A fault is only modelled before its block has reached a device (see section 5).

`Countdown` is what devices rely on: each event counts down the ticks of its own
clock, all events of a clock count the same, none is due before its ticks but for
a bounded slack, none is lost. An event that is set for 0 ticks is set for when
the present tick of its clock began, and what the others have counted since is
counted again. Seconds, cycles and blocks are not in it, and a change of the
clocks only as `Wrap`: an event that is 2^32 ticks away or more when the clocks
change goes on with the remainder, and no other is touched. `Sched`
maps to it by `Left`, the ticks that remain at the latest time a device may have
seen, and computes three bounds from its clocks: at most `MaxPass` ticks pass at
once, an event comes at most `MaxSlack` ticks of its own clock early, and another
gains at most `MaxAgain`.

`Watchdog` adds a device: its registers' handlers change its state, call the
scheduler, and set the interrupt line when the scheduler returns (`Return`), so
that the watchdog's own event may happen in the middle of each. The other item of
the instance is the screen's event, which is set for 0 ticks of a clock that may
be faster than the CPU. Loads include 0 and the 0xFFFFFFFF of a reset
(`AllOnes`, which is `Word - 1`). A period of 0 for a watchdog that runs or is started is
`PeriodZero`: `error()` leaves the handler by `longjmp`, with the 0 stored, and
the machine is reset (`misc.c:221-223`). If the watchdog was due already, the loop
does not come to that (section 5). `watchdog.value`, which is only read back, is
left out.

### IntCtl (`emu/interrupt.c`)

Both interrupt controllers, with one action per register that changes something
and one for the devices (`int_set`). `interrupts` are the two lines of the CPU.
The classic controller raises a line in `update()` and lowers it when the program
reads the register that ends an interrupt. `unseen` is history: priorities and,
in one case, limits change without an update, and until the next one nothing is
said of the lines. `Reset` follows the order of the
reset procedures: the CPU's lines are cleared, `usb_reset()` lowers its
interrupt while the masks are still the old ones, then the controller is reset.
What the program writes to a limit includes what `prev_pri_limit` gave it to
read, so that this variable is left out.

### UsbLink (`emu/usblink.c`, endpoints of `usb.c`)

The computer's side of a transfer, which the emulator plays, is one record,
`link`: the one buffer for packets to send and whether it waits for an endpoint,
the open file and what is left of it, `put_file_state`, the primed endpoints and
what the calculator has received. The functions of `usblink.c` call each other
(an acknowledgement that is sent on the spot lets the next packet of the file be
built in the same buffer), so they are operators on that record and the actions
compose them: `Prime` and `Transmit` are writes of the calculator's EPPRIME,
`usblink_timer` the timer that resets the bus and sends the first setup packet,
`Put` the user. `Reset` is a reset of the machine, `usb_reset` the calculator's own
write of USBCMD (`usb.c:184`), which resets the controller and tells
`usblink.c` nothing: its driver then sets the controller up again, in the same
step, and waits for the bus to be reset. The calculator's side is external: it accepts or refuses a file,
answers a packet with an acknowledgement, and may have something else to say.
`lost` records that a packet of the transfer was overwritten in the buffer or
taken away by a reset of the bus or of the controller.

### LinkPort and HalfDuplex (`emu/link.c`)

Each bit crosses two wires by a handshake: the sender pulls the wire that stands
for the bit, the receiver pulls the other, both let go. The emulator acts within
the calculator's reads (`Read`) and writes (`Write`) of the port; `next_bit`
counts bits and bytes and calls `send_variable_callback`, whose seven parts send
the next packet into the buffer that incoming bits are shifted into. The
calculator's routines are external: one poll or one write of the port per action,
an answer to each packet, and the cancelling of a packet with both wires.
`HalfDuplex` is a line that carries one whole packet at a time; `LinkPort`
implements it, with `UnderWay` the packet that either end has begun to send.
A file is a sequence of parts, each of which is a name or the contents of a
variable, and what it announces as its size; it may be empty, or end after a
name, and the read error closes it. A transfer stops at the first variable that
reaches the announced size, so that it may store more than is announced, but no
variable more.

## 3. The runs

| Run | Shows | Bounds | Distinct states |
|---|---|---|---|
| `swi_nested` | two levels of syscalls: the saved slots are those of a call stack (`ImplementsCallStack`, `ReturnsToCaller`, and three invariants on the slots) | 2 sites, 1 flag, 1 mask bit, depth 2 | 3 192 |
| `loader_alone` | programs one at a time, GDB attaching in between: only residents and their `argv` stay allocated, who asks to stay does | 6 blocks, 1 resident, GDB between programs | 776 |
| `loader_nested` | `nl_exec()` with every `malloc()` allowed to fail: blocks of running programs, residents, mask and screen | 6 blocks, 2 frames, 1 resident | 7 376 |
| `lua_modules` | interpreters that open and close, modules that fail: array and state | 2 interpreters, 2 slots, 7 blocks | 1 199 |
| `bflt_updated` | all sets of two library files, nested programs, failures at any point, a file replaced: links, versions, leaks, and every load ends whose libraries are not circular | 2 libraries, 2 dates, 4 blocks, 2 programs, 1 replacement | 1.6 million |
| `osfile_installer` | installations, updates up and down and removals in any order: whole afterwards; interrupted twice, between its steps or within a write: nothing of the OS lost, but for two writes (section 5); every call ends | 4 releases, 4 sizes of the OS, 2 interruptions, chunks of 2 cells, a template of 5 | 1 586 642 |
| `timers` | the scheduler is a set of countdowns (`CountsDown`) whatever the blocks, faults and clock changes; none is missed; pending events come to an end; a watchdog is armed as long as it runs, and bites | 2 events, 2 sets of clock rates of 2 to 4 ticks a second, loads 0 and 7, 32-bit wrap at 8 (7 is all ones) | 431 354 |
| `interrupt_lines` | no interrupt that may be taken is left without its line | 2 sources, both controllers, 2 priorities, 2 limits, 1 source inverted | 488 611 |
| `usb_transfer` | a file reported sent has been stored, whole and in order; transfers and connections end, unless a packet of theirs is lost with the bus, the buffer or the controller | 4 files of up to 2 packets for 2 services, 2 buffers, 2 files sent, 1 other packet | 65 707 |
| `link_transfer` | the wires carry whole packets (`CarriesPackets`); what a transfer stores is what the file holds; transfers end | bytes of 3 bits, 4 files of up to 2 variables, 2 transfers, 2 cancelled packets | 5 164 |
| `swi_exec_in_exec`, `loader_resident_lost` | each a behaviour of the code that departs from what the code says of itself (section 5) | | |

**Why the bounds are enough.** *Depth of syscalls*: 2 is what the handler has
slots for; 3 is the run that shows what happens beyond. *Blocks*: a frame needs
three, a resident keeps two, and the debug block is one; the nested run has as
many as two frames need, so that exhaustion occurs as well, and `lua_modules` and
`loader_alone` have enough for it not to. *Frames*: each frame meets the one it
interrupts and the one that interrupts it in the same globals, which two frames
show; the proofs cover any number. *Libraries*: two suffice for a dependency, a
cycle, and a library of a library. *OS file*: with a chunk of two cells the
differences between releases and the rest of the file are smaller than a chunk,
equal to one, and larger, on either side; two of the releases differ only in
their contents. A template of 5 cells is more than any release, and less than some
files. *Clocks*: an event's clock is slower than the CPU's, as fast, and
faster; periods are shorter than a second, and longer; blocks run past one event
and past the end of the second. `MaxDelta` bounds how far a block runs past an
event. The load that a reset leaves is the largest number, as in the code: with the
part of a tick that is counted again its event is up to the wrap away, and the
change of the clocks then takes the wrap from it. In this instance only the
watchdog's event is ever that far away, where `Wrap` cannot be told from the
watchdog being set anew (`Change`); with more events it can, and the theorem is
for any number. *Interrupts*: two
sources differ or agree in priority, mask, inversion and stickiness; the proof
covers any number. *USB*: two packets of data are a first, which an OS transfer
treats differently, and a last; one buffer of the calculator free and one taken
are the two cases of the emulator's buffer. *Link port*: two variables make the
callback start again, one announces a size within its last variable, one ends
after a name and one is empty; 3 bits distinguish the commands and leave two
bytes that are none.

`CHECK_DEADLOCK` is left on everywhere: the calculator can always do something.

**Symmetry** is used on addresses (and interpreters) where a run checks safety
only. The runs that check liveness use no symmetry.

**Fairness.** `Bflt` assumes `WF(LoadStep)` and `OsFile` `WF(Step)`: both are
loops of straight C code that no one else schedules; once called they take their
next step. A circular dependency would end in `Bflt` because each nested load takes
one of four blocks; of the code this is not known, so that `LoadEnds` leaves it out.

The emulator is a single loop that nothing blocks. `Watchdog` assumes weak
fairness of the turns of the scheduler and of what follows them, and strong
fairness of `MainLoop` and of `Execute`: every access to a device is made by an
instruction that has been counted, and every block ends, so that between any two
requests of the program the time moves on and the loop is reached; a request in
between must not be able to put that off for ever. `WatchdogBites` says what does
put it off in the code: faults, and events set or clocks changed, without end.
`UsbLink` assumes that the timer goes on, and that the calculator answers setup
packets, primes free buffers, sends what it has to send and processes what it
has received. `LinkPort` assumes that the calculator's routines go on with their
next access of the port. Nothing is assumed of users, of which answer the
calculator gives, of programs, of GDB or of the power supply, and `Swi`,
`Loader`, `LuaExt` and `IntCtl` assume nothing at all: whether a program returns
is its own affair.

**Refinements.** `swi_nested` shows `Swi` to implement `SyscallStack`, `timers`
shows `Sched` to implement `Countdown`, `link_transfer` shows `LinkPort` to
implement `HalfDuplex`, each with the abstract specification as a property.

## 4. The proofs

TLC says that a property holds of the instances above; the theorems say so for
all values of the constants.

**SwiProofs.** Assumption `Supported`: syscalls nest once (`MaxDepth = 1`, any
unwinding), or twice with none that leaves through `longjmp`. The sets of sites,
flags and mask bits are arbitrary. `TypeCorrect` needs no assumption.

- `SlotOfInnermost`, `OuterWaits`, `NoSlotLost`: the invariants `TopSaved`,
  `OuterSaved`, `SlotsGivenBack`;
- `ReturnsAreRight`: the action property `ReturnsToCaller`;
- `Refinement`: `Swi` implements `SyscallStack`.

Inductive invariant: `TypeOK /\ InSupervisorMode /\ TopSaved /\ OuterSaved /\
SlotsGivenBack`. None of them is inductive alone: the entry stores into the second
slot if the first one is taken, so `TopSaved` needs to know that the first is free
exactly when no syscall is in progress (`SlotsGivenBack`), and after an inner
return `TopSaved` needs what `OuterSaved` says of the first slot.
`InSupervisorMode` is needed because a caller in another mode, whose status
register has the word zero, would make a taken slot look free. The step
simulation is immediate from it: each action of `Swi` is the action of
`SyscallStack` of the same meaning.

**LoaderProofs.** Heap, file kinds, callers, depth of nesting and number of
residents are arbitrary, and `malloc()` may fail or not. What is assumed of GDB
is one of two things. `NoDebugger`: it does not attach. `GdbWaits`: it does not,
or it attaches and detaches only between programs and no file is broken, the
setting of `loader_alone`. Neither GDB nor the loader guarantees it: outside of it a
block may be freed twice (section 5). The theorems that assume it are about programs
that link to no shared library, since libraries are loaded to GDB's block too
(section 6).

- Under `GdbWaits`: `TypeCorrect`; `FreesAreGood` (`NoBadFree`);
  `MaskIsGivenBack`, `ScreenIsGivenBack`.
- Under `NoDebugger`: `BlocksStayInUse` (`BlocksInUse`) and `ResidentsStayLive`
  (`ResidentsLive`). With GDB two residents may have had the same block.
- When programs do not run one another (`NlExecs = FALSE`): `AskedToStay`, the
  action property `AskedStays`, and `NothingLeaks` (`NoLeak`), both under
  `GdbWaits`; and `NothingLeaksWithoutGdb`, under `NoDebugger`, which needs one
  hypothesis less.

Inductive invariant `IInv`, besides `TypeOK`:

- `NotDebugged`, `DebugBlockHeld`: the debug pointer is null when it may not be
  otherwise, and what it points to is in use as the debug block;
- `FramesHeld`, `FramesApart`: the blocks of each frame are in use for what the
  frame uses them for, and no two frames share one. Together these are
  `BlocksInUse`, and they are why what `Quit` frees for one frame is a block in
  use, and none of another frame;
- `ResidentsKept`, and `AskedKnown`: if the innermost program is the last to have
  asked to stay, `is_current_prgm_resident` is set. Without it a return could
  free a block that `residents` has just gained. It says nothing of a program
  that asked before it ran another one, which is what section 5 is about;
- `OutermostKnows`: the outermost frame saved the mask and the screen of the OS.

One lemma per part of `Next`; `QuitFrees` says what the shared exit does to the
heap and is used by `NoMemory` and by `Return`. `NoBadFree` follows from `IInv`:
no step from a state where it holds frees a block that is not in use.

Programs one at a time need two more. `OneAtATime`: there is at most one frame,
it has asked to stay exactly if the global says so, and the format it was loaded
in is still in its global, so that one of the branches that free an image is
taken. `Accounted`: every image belongs to the frame or to a resident, the screen
is the frame's, and there are no more `argv` than frames and residents.
`NothingLeaks` has two hypotheses on the behaviour. `[][~RequestRemembered]_vars`:
no program that is not loaded to GDB's block is turned away for want of memory
while an earlier program's request to stay is remembered; it cannot be replaced by
a hypothesis on `MallocFails`, because a full heap refuses as well.
`[][~StaysTwice]_vars`: no program stays at an address where one has stayed, which
only GDB's block makes possible. Both steps do leak (section 5); the theorem shows
that no other does, without `nl_exec()`. In `loader_alone` neither can happen: it
has one resident, and blocks enough.

**LoaderProofs**, about `LuaExt`. Assumption `OneModuleAtATime`: no GDB, and no module requires
another while it starts; interpreters, sizes of heap and array, and the modules
that fail, are arbitrary. `LuaTypes` is `LuaTypeOK`, `ModulesAreRecorded` is
`ArrayOfModules`. The inductive invariant `LuaInv` adds to that of the loader,
whose lemmas are used as they stand: `Starting`, that only the outermost program
can be a module, and that it fills the slot at `loaded_next_index`; and
`Recorded`, the array's contents: slots below the index hold distinct blocks of
residents, and each module of an open interpreter is in one of them. The argument
is that `ld_exec()` writes to the slot first, and the index moves only when the
module has asked to stay and returned well, so that a slot below the index is
never written again.

**BfltProofs.** No assumption but `BfltAssumption`: any number of libraries, dates,
dependencies (cycles included), blocks and nested programs. `BfltTypes`,
`EveryBlockIsOwned` (`NoLeak`), `LoadsLinkToCurrentLibraries` (`LinksCurrent`),
`LinksLiveUntilUpdate` (`LiveUntilUpdate`). Inductive invariant: the cache, the
programs that run and the loads under way each own the blocks they name, and none
owns another's (`CacheOwns`, `RunningOwn`, `LoadsOwn`); `NoLeak`, that there are no
others; `Nested`, what the recursion looks like; `LinksHeld`, what the images being
loaded have been linked to; `NeverUpdated`. The heart is `Nested`: each nested load is of a
library that the cache does not hold in the version of its file, and whatever it
no longer waits for, the cache does hold. Hence a load can only end if its
library is on the stack once (`LoadedOnce`): an outer load of the same library
would still wait for one that is not up to date, and the innermost one waits for
none. A circular dependency thus never ends in two copies of a library. What a
load that ends replaces was not up to date, and nothing under way links to a
library that is not (`LinksHeld`), which is why the links made before stay current.
Dates do not increase from a load to those inside it, since a library newer than
what asks for it is refused.

**OsFileProofs.** No assumption but `OsFileAssumption`: any number of cells before
the entry, any sizes of the releases and of the rest of the OS, which has at least
a chunk of cells, any size of the template, any number of interruptions, between
steps and within writes. `OsNeverLost` is `OsKept`, `WholeWhenReturned` is `WholeWhenDone`.
The first says that every cell of the OS is in the file, in every state of a shift,
and after calls that were cut off anywhere but within a write of the
extending loop or of the header over another one (`torn`). The inductive invariant is
`IInv \/ Doomed`: either the OS can still be found in the file by whoever follows
its headers, or such a write was cut short (`CutExtendDooms`, `CutHeaderKeeps`),
after which nothing is claimed, `WholeWhenDone` included, which is about calls none
of which was interrupted. `IInv` says of a call in progress that there is a file
`o` it started from, with the OS in it, and that the present file is `o` shifted
up to `curpos` (`Shifted`): cells before that place are still, or already, where
they should be, and none has been overwritten that has not been copied. This is
arithmetic on sequences, and most of the module; `Good` says where the OS is in a
file that a call may find, `Found` adds that without interruptions the file is the
archive of the installed release, and so is the result.

**WatchdogProofs**, about `Sched` and `Watchdog`. No assumption but those of the
modules: any events, clocks, rates and loads. `SchedulerTypes` and `WatchdogTypes`
are the types; they hold only with `NowBounded` (the CPU is at most `MaxDelta`
past the end of a second) and `NextFirst` (the next event is the first of those
due within the second), since what `NewSecond` subtracts from must not be less than a second. `NoEventMissed` (`NoneMissed`), for both specifications: once the
scheduler has processed what is due, each event that is set is at least one tick
away. `WatchdogArmed` is
`ArmedWhileRunning`; its invariant `DogInv` describes the handlers of the
registers as far as they have got: what is still to be called, and whether the
event is set, given the run bit, when nothing is.

`SchedulerCountsDown` is the refinement: `Sched`, and `Watchdog` with it,
implement `Countdown` (`CountsDown`) for all clocks, all ticks that a `u32` holds, the
watchdog's 0xFFFFFFFF included, and every change of the clocks. No bound keeps an
event closer than 2^32 ticks: it may be set for that many less one, and
the part of a tick that an event set for 0 ticks counts again comes on top, as often
as one is set, up to a second; with clocks of 1 and 8 ticks a second, TLC takes an
event that is set for 8 ticks to 32. Where the clocks change
with an event as far away, it goes on with the remainder, which is the step `Wrap` of
`Countdown`; where all are closer, the change shows in none. There is a lemma for each
action. All of them compare what is left of an event before and after at the
latest time a device may have seen (`Observed`), and rest on four facts about
`muldiv()`: it is monotonic; a second adds exactly a clock's rate; the cycle of a
tick still to come has not passed; and that cycle, converted back, is early by
at most `1 + (rate - 2) / cpu` ticks. A new second, a return, and a
change of the clocks with every event closer than 2^32 ticks, leave `Left` as it is; the CPU's moves let the time pass, also where a
fault gives back a block, since `Observed` leaves the block out; an event that
repeats does so from its own tick. The set for 0 ticks is the one case that takes
the time back.

**UsbLinkProofs.** No assumption but `UsbAssumption`: files of any size, any
buffers of the calculator, resets, of its controller too, and connections at any
time. `UsbTypes` holds
of every behaviour. `FilesAreStored` (`FileArrives`) assumes
`Overlap = FALSE`, that the user sends one file at a time; with more it is false
(section 5). Its invariant tells where a transfer is, seen from both sides at
once: `Protocol` is a choice between `Quiet`, where nothing of a transfer can
change any more what is stored (none is under way, or one of its packets is lost),
and five stages of a live transfer, `Asking`, `Answered`, `Acking`, `Sending`,
`Saved`. Each says where the one packet is that keeps the transfer going, which
packets or answers are still in the buffers of either side, and, given
`put_file_state` and the bytes left, how much of the file the calculator has
stored. A packet of a transfer that has been given up may still be in the
calculator's buffers (`Stale`), and the invariant says why it does no harm.

**LinkPortProofs.** Any width of a byte, codes of the commands, files, numbers of
transfers and of cancelled packets. There are two invariants.

`LinkTypes` (`TypeOK`) assumes only that the machine is not reset in the middle
of a transfer (`Resets # "any"`); files may be sent and packets cancelled at any
time. A packet of an unknown command keeps the size of the packet before it, and
what must be shown is that there was one: `Fresh` says that as long as
`packet_size` is the 0 it starts with, only the emulator has sent, from a buffer
that holds a command. It holds although `send_file()` may overwrite that buffer,
and even if the calculator then takes its packet for complete too early: it waits
for a line which the emulator holds.

`VariablesStored` (`StoredInOrder`) and `PacketsCarried`, the refinement
`CarriesPackets` step by step, assume `Orderly`: files are sent while the line is
quiet, packets cancelled between two bytes, resets made while no transfer is under
way. Without each of the three, TLC shows packets that do not arrive as they were
sent (section 5). The inductive invariant `IInv` has four parts besides `TypeOK`.

- `BitInv`: where the handshake of the current bit is, on both sides at once. If
  the emulator sends, the calculator has got the first `At` bits of the buffer
  (one more in the second half of the handshake), and the wires stand for the next
  one (`Sends`). If the calculator sends, the bits it has sent so far are the last
  ones of the shift register (`Receives`), with the first byte already whole in
  the second one. What `send_packet()` has deferred waits for nothing but
  the calculator to see the line free after its own last packet (`Done`).
- `CalcOK`: the calculator's queue holds whole packets of commands.
- `Exchange`: whose turn it is and which packets are on their way, in each of the
  seven parts of `send_variable_callback()`. It is why the buffer is not refilled
  while a packet is shifted into it.
- `Transfer`: how many parts of the file are read, in each of those parts, given
  how many variables are stored.

There is a lemma for each action, which gives the invariant and that the step is
one of `HalfDuplex` or leaves `UnderWay` and what was heard alone; `NextBit` says
what `next_bit()` does within a packet and at its end, `WholePacket` that the bits
the calculator has collected are a packet exactly when they are all there.

**IntCtlProofs.** No assumption but `IntCtlAssumption`: any sources among the 32,
any priorities and limits the registers hold. `LinesAreTold` establishes
`LinesTellPending`, which is inductive together with the types of the registers
(`Registers`). Every update raises what is due by definition; the cases that need
an argument are the two reads. `Acknowledge` sets the limit to the priority of
the current interrupt without an update: fewer are eligible then, unless the
limit rises, which `unseen` records. For this the current interrupt must be one
of the sources, and for `EndOfInterrupt`, which lowers the line, there must be a
current interrupt whenever one is eligible (`CurrentIsEligible`): that a least
priority and a least number exist is the well-foundedness of the naturals
(`LeastNatural`).

**Only model-checked.**

- Liveness, which depends on fairness and is beyond the prover: `LoadEnds`,
  `PersistentEnds`, `PendingEnds`, `WatchdogBites`, `TransferEnds` (of `UsbLink`
  and of `LinkPort`) and `Connects`.

## 5. Where the code departs from what it says

Two of these have a run in which TLC finds the counterexample.

1. **`nl_exec()` within `nl_exec()`** (`swi_exec_in_exec`). The comment at
   `arm/syscalls.c:76` says extension syscalls "cannot call themselves other
   syscalls". `nl_exec()` does: it runs the loader and a program. The two slots
   make that work once. A program started by `nl_exec()` that calls it again is a
   third level; the second slot is overwritten and the inner call returns to the
   caller of the outer one.
2. **A resident forgotten** (`loader_resident_lost`). `ploaderhook.c:199` resets
   `is_current_prgm_resident` for each program that is entered: a program that
   asks to stay and then runs another one is freed when it returns. With
   `NoLeak` the other direction shows: the request of the inner program is still
   set when the outer one returns, and keeps it too.

The others are reproducible by changing a constant, or the invariant, of a
configuration.

On the calculator:

- `Loader_alone.cfg` with `NlExecs = TRUE` violates `NoLeak`: `ploaderhook.c:144`
  leaves `LD_ERROR_BIN` in the global `ld_bin_format` when an `nl_exec()` is
  refused; the program that called it returns, and is freed by neither branch.
- `Loader_alone.cfg` with `MallocFails = TRUE` violates `NoLeak`: a program that
  is loaded when there is no memory for its `argv` leaves through the shared exit
  before `is_current_prgm_resident` is reset, and inherits an earlier program's
  request to stay.
- `Loader_alone.cfg` with `MaxResidents = 2` violates `NoLeak`: a program that is
  resident in GDB's block is overwritten by the next one that is loaded there
  (`emu.c:40` hands out the same block as long as GDB is attached), and its `argv` stays allocated.
- `Loader_alone.cfg` with `"broken"` in `Files`: `bflt_fload()` frees the block of an
  image it gives up, even GDB's, and the next such file, or `emu_debug_free()`, frees
  it again: the invariant `NoBadFree` is violated.
- `Loader_alone.cfg` with `Debugger = "always"` and the invariant `NoBadFree`: if GDB
  attaches while a program runs, the program's end takes its image for one in GDB's
  block; if it detaches, `emu_debug_free()` frees the block the program is in, and the
  end of the program frees it again.
- A bFLT program that is debugged and links to a shared library is overwritten by it:
  `bflt.c:268` gives the library the same block, and `bflt.c:146` may free that
  block with a stale library. No module has this.
- Libraries of one build date that name each other are loaded within each other without
  end (`bflt.c:136`): until `malloc()` fails, which fails the program, or the C
  stack overflows, which no module has. `Bflt` ends them at its four blocks.
- `Lua_modules.cfg` with the invariant `NoBadFree` violates it: `luaext.c:91`
  passes `loaded[i]` to `ld_free()` where `ploaderhook.c:225` expects the
  `resident_ptr` that was given to `ld_exec()`, here `loaded + i`: `free()` is
  given the first word of the module.
- `Lua_modules.cfg` with `NestedRequires = TRUE` and `MaxFrames = 2` violates
  `ArrayOfModules`: a module that requires another while it starts gives it the
  slot it is about to fill itself.
- `Bflt_updated.cfg` with the invariant `LinksLive` violates it: `bflt.c:146` frees
  the old version of a library when the new one has been loaded, while another
  cached library, or a program that runs, still links to it. What does hold is
  `LiveUntilUpdate`.
- `Swi_nested.cfg` with `UnwindTo = {0}` violates `OuterSaved` and
  `ReturnsToCaller`: an error raised in a nested syscall leaves its slot taken.
- `OsFile`: after an interrupted call the file is not an archive with one release
  in it, and no later call repairs it. What does hold is `OsKept`, with two exceptions,
  both for an interruption within a write. A chunk of the extending loop that is moved
  by less than its own size, 100 KB, overwrites its own end before that has been
  written; the rest of it is in the memory of the calculator alone, and lost with the
  power (`install.c:67-70`, `install.c:195-205`). A first installation of an
  entry smaller than a chunk is of this kind, and an update to a release that is
  larger by less. Also an entry of Ndless may be cut in the middle by such a write, and
  the next call then takes a part of the OS for the rest of it. And the
  header of the entry is written with the 7 MB of a template (0x6D6B1A) before it is
  patched (`install.c:213`): if it is cut in between over a header of Ndless, the next
  call takes all that follows for the entry of Ndless.
- `loaded_next_index` is never reset (`luaext.c:44`, `luaext.c:88`): after
  `LUAEXT_MAX_MODULES` modules no `require()` succeeds until a restart, whatever
  interpreters have been closed.
- `nl_relocdatab()` (`syscalls.c:44`) tests the global `ld_bin_format`: after a
  nested program of the other format it relocates when it must not, or the reverse.

In the emulator:

- `Usb_transfer.cfg` with `Overlap = TRUE` violates `FileArrives`: a file sent while
  another is being sent takes over the open file and the step of the transfer
  (`usblink.c:199-219`), and what the calculator still has to say about the first
  is taken for answers about the second. One file may be stored under the name of
  the other.
- `Link_transfer.cfg` with `CancelMidByte = TRUE` violates `CarriesPackets`:
  `link.c:412` goes back to the first byte of the packet, but not to the first bit
  of the byte, and the packet that is sent again is read shifted.
- `Link_transfer.cfg` with `Patient = FALSE` violates `CarriesPackets`:
  `send_file()` builds its packet in the buffer into which one is being received
  or from which one is being sent (`link.c:308-312`).
- `Link_transfer.cfg` with `Resets = "any"` violates `TypeOK`: a reset closes the
  file of a transfer and leaves its callback (`link.c:354-363`), which then reads
  from no file when the next packet ends.
- An interval or load of 0 may end in an endless loop: `error()` stops the machine
  after the register has been stored (`keypad.c:42-45`, `misc.c:221-223`), the
  loop of the scheduler goes on after its `longjmp`, and an event that is due by then
  repeats itself after 0 ticks for ever (`schedule.c:53`). `Sched` assumes
  `Repeats` of at least one tick, and `PeriodZero` a watchdog that is not due.
- Writing the watchdog's clear register while its timeout is due (`misc.c:284-286`)
  lets the timeout happen between the two assignments: `interrupt` is set and the
  line is lowered, and the next timeout resets the machine.
- The ticks that remain of an event may be more than it was set for, by the part of
  a tick that is counted again (`schedule.c:83`, `93`). A watchdog of 0xFFFFFFFF
  ticks, its period after a reset, then reads as a small number, and
  `sched_set_clocks()` sets it from that (`schedule.c:97`): the change takes 2^32 ticks
  from it. This is `Wrap` in `Countdown`.
- The calculator's write of USBCMD runs `usb_reset()` alone (`usb.c:184-189`). If
  SET_ADDRESS waits to be answered, `usblink_state` stays 3 and nobody goes on
  (`Unanswered`): the connection is not established before it is asked for again,
  or the machine is reset. If packets of a transfer are in the endpoints, they
  are lost, and the transfer waits. `Connects` and `TransferEnds` make an exception
  for this, and `Connects` says that nothing else leaves the emulator waiting.
- A data abort gives back the cycles of its whole block (`translate.c:969`), even
  if an instruction before it has read a timer in between: time goes back for that
  program. An event set for 0 ticks (`lcd.c:215`) and a change of the clocks
  count a part of a tick again: who does either for ever stops the time.
- When the machine is reset, `usb_reset()` updates the interrupt controller before
  it is reset (`emu.c:445`, `emu.c:506`): with the old masks a line may stay
  raised with nothing pending. `LinesTellPending` says nothing against a line that
  is up for nothing, on the classic controller: there it is up until the program
  ends an interrupt.
- A read of 0x24 with nothing pending sets the limit to the priority of interrupt 0
  (`interrupt.c:52-57`), and a change of priorities is not followed by an update
  (`interrupt.c:100`): an interrupt that becomes eligible that way waits for the
  next update.

## 6. What is not modelled

- *SWI handler*: the four tables and the dispatch to them; the build with one
  slot for stage 1; the installation of the handlers.
- *Loader*: which program a document is associated with (it changes which file is
  loaded, not what the loader does with it); the contents of `argv`; caches of the
  processor.
- *Lua*: what a module registers, and the state of the interpreter.
- *bFLT*: segments and relocation arithmetic, the contents of the header,
  `bflt_free_cached()`, which no build calls. The block of GDB is in `Loader`, for
  the program; the libraries that are loaded over it (`bflt.c:268`) are in no module,
  nor is the C stack that a circular dependency fills. A free
  of the library's block while it is linked is detected, not its consequences.
- *OS file*: names and offsets of the entries before `boot2.cer` and the limits
  of their fields; an OS without `boot2.cer`, where the search ends at the central
  directory (`install.c:148`). A write that is cut short leaves a number of whole
  cells; how the OS's file system splits, orders or delays writes is not in the
  repository.
- *The OS itself* is what the code expects of it: `malloc()`, `free()`,
  `fread()`, `fwrite()`, `truncate()`.
- *Scheduler*: 32-bit overflow in `muldiv()` and in the sums of
  `event_repeat()`: with the clock rates of the hardware neither overflows. The
  general purpose timers (`misc.c`, `casplus.c`), on the same scheduler; stopping
  one of those of `casplus.c` computes its count with the new scale.
- *Interrupt controllers*: those of `casplus.c`.
- *USB*: sequence numbers, checksums, packets larger than the calculator's buffers
  (which `usb.c:110` drops and `usblink.c:315` takes for sent), the interrupts of
  the controller, and what the calculator's OS really answers.
- *Link port*: `send_app_callback()`, a transfer of the same form for
  applications; what a part that cannot be read leaves in the packet, which the
  next packet overwrites before it is looked at; checksums of received packets, which the code does not look at.
- *Boot, hooks, folder scan, configuration, NAND flash, GDB stub*: planned
  (section 7).
- *CPU, translation, ciphers, display, GUI*: an instruction set, standard
  algorithms and user interface, where an explicit-state checker shows little.
- *Tools, converters, libraries, games, samples, copies and forks, earlier
  branches, vendored code*: sequential programs, or copies of what is modelled.
- *hidn, ocd, Nleash, AppStream*: they depend on interfaces that are not in the
  repository.

## 7. Plan

The most important behaviour, re-entry in the resident core, came first, then the
parts of the emulator with a protocol or with time in them. What is left, in the
order of its worth:

| Module | Code | Properties | Theorems |
|---|---|---|---|
| `Nand` | `flash.c` | programming only clears bits; the column stays in the page; modified blocks are saved | the page-buffer invariant |
| `GdbStub` | `gdbstub.c`, `armloader.c`, with `Loader`'s debug block | the program goes on where it was interrupted | |
| `Boot` | `main()` of `install.c`, `stage1.c`, hooks | hooks are installed once; nothing is called through a table that is not relocated yet | |
| `FileRecur` | `ut_file_recur_each()` | each name fits the buffer; an abort closes every folder | |
| `Cfg` | `libndls/config.c` | the associations read are those of the file | |

Composition: `LuaExt` extends `Loader`, and `Watchdog` extends `Sched`; a joint
model of `Swi` and `Loader` would turn `swi_exec_in_exec` into a run of
`nl_exec()` itself, and one of `Watchdog` and `IntCtl` would follow a timeout up
to the CPU. Bounds stay in the style of section 3.
