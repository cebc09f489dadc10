------------------------------- MODULE LuaExt -------------------------------
(***************************************************************************)
(* The Lua extension of Ndless, src/Ndless/trunk/arm/luaext.c, on top of   *)
(* Loader: require("name") runs the file name.luax as a program that stays *)
(* resident, and remembers its block until the Lua interpreter is closed.  *)
(* The interpreters belong to the OS, which may keep several open; two     *)
(* hooks tell Ndless when one is set up and when it is closed.             *)
(***************************************************************************)
EXTENDS Loader

CONSTANTS
    LuaStates,          \* the interpreters of the OS
    LUAEXT_MAX_MODULES, \* size of loaded
    NestedRequires      \* whether a module calls require() while it starts

ASSUME LuaExtAssumption ==
    /\ NULL \notin LuaStates
    /\ LUAEXT_MAX_MODULES \in Nat \ {0}
    /\ 0 .. LUAEXT_MAX_MODULES - 1 \subseteq Callers
    /\ "PRG" \notin Addr   \* the first word of an image is no block's address
    /\ NestedRequires \in BOOLEAN

VARIABLES
    open,               \* the interpreters that are open
    luastate,           \* what nl_lua_getstate() returns
    loaded, loaded_next_index,
    modules             \* history: blocks of the modules of the open interpreters

luaVars == <<open, luastate, loaded, loaded_next_index, modules>>
allVars == <<vars, luaVars>>

Slots == 0 .. LUAEXT_MAX_MODULES - 1

LuaInit ==
    /\ Init
    /\ open = {}
    /\ luastate = NULL
    /\ loaded = [i \in Slots |-> NULL]
    /\ loaded_next_index = 0
    /\ modules = {}

----------------------------------------------------------------------------
\* lua_interp_startup, at the end of luaL_openlibs().
InterpStartup(L) ==
    /\ frames = <<>> /\ L \notin open
    /\ open' = open \cup {L}
    /\ luastate' = L
    /\ UNCHANGED <<vars, loaded, loaded_next_index, modules>>

\* ld_free(resident_ptr) frees what resident_ptr points to.  Here it is given
\* the blocks themselves, so what it frees is the first word of each module's
\* image, its signature or its first instruction.
FirstWord(base) == "PRG"

FreedByShutdown == {FirstWord(loaded[i]) : i \in {j \in Slots : j < loaded_next_index}}

\* Variant: the state of another interpreter is kept.
InterpShutdownKeepsState(L) ==
    /\ frames = <<>> /\ L \in open
    /\ open' = open \ {L}
    /\ modules' = IF open = {L} THEN {} ELSE modules
    /\ UNCHANGED <<vars, luastate, loaded, loaded_next_index>>

\* lua_interp_shutdown, at the beginning of lua_close(): the modules of all
\* the interpreters are given up with the first one that is closed.
InterpShutdown(L) ==
    /\ frames = <<>> /\ L \in open
    /\ open' = open \ {L}
    /\ luastate' = NULL
    /\ heap' = Freed(heap, FreedByShutdown)
    /\ badfree' = (badfree \/ BadFree(heap, FreedByShutdown))
    /\ modules' = IF open = {L} THEN {} ELSE modules
    /\ UNCHANGED <<frames, formatVars, emu_debug_alloc_ptr, plhVars, intmask,
                   screen, residents, loaded, loaded_next_index>>

\* Lua code runs in an interpreter of the OS, or in a module that calls back.
LuaRuns ==
    /\ open # {}
    /\ frames # <<>> => NestedRequires /\ Top.resident_ptr # NULL

\* require() with loaded full, or with a name no file has: luaL_error().
RequireRefused == LuaRuns /\ UNCHANGED allVars

\* require() finds a file: ld_exec(path, loaded + loaded_next_index).
Require ==
    /\ LuaRuns
    /\ loaded_next_index < LUAEXT_MAX_MODULES
    /\ Exec(loaded_next_index)
    /\ UNCHANGED luaVars

\* Variant: the next module takes the same slot.
ModuleReturnsSameSlot(ret) ==
    /\ frames # <<>> /\ Top.resident_ptr # NULL
    /\ Return(ret)
    /\ loaded' = IF ret = Dead THEN loaded
                 ELSE [loaded EXCEPT ![Top.resident_ptr] = Top.base]
    /\ modules' = IF ret = 0 THEN modules \cup {Top.base} ELSE modules
    /\ UNCHANGED <<open, luastate, loaded_next_index>>

\* The module returns from its start: its block is stored unless it returned
\* 0xDEAD, and only 0 makes it a module that is loaded.
ModuleReturns(ret) ==
    /\ frames # <<>> /\ Top.resident_ptr # NULL
    /\ Return(ret)
    /\ loaded' = IF ret = Dead THEN loaded
                 ELSE [loaded EXCEPT ![Top.resident_ptr] = Top.base]
    /\ loaded_next_index' = IF ret = 0 THEN loaded_next_index + 1 ELSE loaded_next_index
    /\ modules' = IF ret = 0 THEN modules \cup {Top.base} ELSE modules
    /\ UNCHANGED <<open, luastate>>

\* What the loader does for others.
LoaderStep ==
    /\ \/ OpenDocument \/ NlExec \/ SetResident
       \/ frames # <<>> /\ Top.resident_ptr = NULL /\ \E ret \in Rets : Return(ret)
    /\ UNCHANGED luaVars

LuaNext ==
    \/ \E L \in LuaStates : InterpStartup(L)
    \/ \E L \in LuaStates : InterpShutdown(L)
    \/ RequireRefused
    \/ Require
    \/ \E ret \in Rets : ModuleReturns(ret)
    \/ LoaderStep

LuaSpec == LuaInit /\ [][LuaNext]_allVars

----------------------------------------------------------------------------
(***************************************************************************)
(* Properties.                                                             *)
(***************************************************************************)

\* The interpreter nl_lua_getstate() returns has not been closed.
LuaTypeOK ==
    /\ open \subseteq LuaStates
    /\ luastate \in open \cup {NULL}
    /\ loaded \in [Slots -> Addr \cup {NULL}]
    /\ loaded_next_index \in 0 .. LUAEXT_MAX_MODULES
    /\ modules \subseteq Addr

\* loaded is the "array of modules's memory blocks" (luaext.c): its slots in
\* use hold distinct blocks, of modules that are in memory, and every module of
\* an open interpreter, so that its shutdown knows their blocks.
ArrayOfModules ==
    /\ \A i \in Slots : i < loaded_next_index =>
          loaded[i] \in residents /\ heap[loaded[i]] = "image"
    /\ \A i, j \in Slots :
          i < j /\ j < loaded_next_index => loaded[i] # loaded[j]
    /\ \A a \in modules : \E i \in Slots : i < loaded_next_index /\ loaded[i] = a
=============================================================================
