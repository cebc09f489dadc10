-------------------------------- MODULE Bflt --------------------------------
(***************************************************************************)
(* Loading of bFLT programs and of the shared libraries they link to:      *)
(* src/Ndless/trunk/arm/bflt.c.  A relocation that names a library loads   *)
(* its file, whose own relocations may name further libraries: the loader  *)
(* calls itself.  A library that is loaded stays in a cache after the      *)
(* program has ended (CACHE_LIBS_AFTER_EXEC), and serves later programs as *)
(* long as its build date is still the one of its file.                    *)
(*                                                                         *)
(* The recursion is the variable stack.  Between two steps of it nothing   *)
(* else runs; programs run between two loads, or around one (nl_exec()).   *)
(* GDB is not attached: with its block (emu_debug_alloc_ptr, line 268) each *)
(* library is loaded over the program, which no module has.                *)
(***************************************************************************)
EXTENDS Naturals, Sequences, FiniteSets, SequencesExt

CONSTANTS
    Addr,        \* addresses of the OS heap's blocks
    NULL,        \* the null pointer, and the file of a library that has none
    Ids,         \* identifiers of shared libraries; 0 stands for a program
    Dates,       \* build dates
    MaxRunning,  \* how many programs run within each other (bound)
    MaxInstalls  \* how many library files are replaced (bound)

File  == [date: Dates, deps: SUBSET Ids]
Block == [id: Ids \cup {0}, date: Dates, links: SUBSET (Ids \X Addr)]
Load  == [id: Ids \cup {0}, base: Addr, date: Dates, todo: SUBSET Ids]

ASSUME BfltAssumption ==
    /\ NULL \notin Addr /\ NULL \notin Block
    /\ Ids \subseteq Nat \ {0}
    /\ Dates \subseteq Nat
    /\ MaxRunning \in Nat \ {0} /\ MaxInstalls \in Nat

VARIABLES
    files,      \* the library files: build date, libraries its relocations name
    installs,   \* how many of them have been replaced
    blocks,     \* the blocks of the heap and what is loaded into them
    lib_cache,  \* the libraries in memory
    stack,      \* the bflt_fload() calls in progress, innermost last
    running     \* the blocks of the programs that run, innermost last

vars == <<files, installs, blocks, lib_cache, stack, running>>

NoLib == [base |-> NULL, build_date |-> 0]
Top   == stack[Len(stack)]

Init ==
    /\ files \in [Ids -> File \cup {NULL}]
    /\ installs = 0
    /\ blocks = [a \in Addr |-> NULL]
    /\ lib_cache = [id \in Ids |-> NoLib]
    /\ stack = <<>>
    /\ running = <<>>

----------------------------------------------------------------------------
\* The user transfers another version of a library.
Install(id, file) ==
    /\ stack = <<>> /\ installs < MaxInstalls
    /\ files[id] # file
    /\ files' = [files EXCEPT ![id] = file]
    /\ installs' = installs + 1
    /\ UNCHANGED <<blocks, lib_cache, stack, running>>

Allocated == {a \in Addr : blocks[a] # NULL}

\* bflt_fload() up to its relocations: a block for file, its segments read.
Begin(id, file) ==
    \E a \in Addr \ Allocated :
       /\ blocks' = [blocks EXCEPT ![a] = [id |-> id, date |-> file.date, links |-> {}]]
       /\ stack' = Append(stack, [id |-> id, base |-> a, date |-> file.date,
                                  todo |-> file.deps])
       /\ UNCHANGED <<files, installs, lib_cache, running>>

\* Variant: a load that fails forgets the blocks of the outer ones.
FailInner ==
    /\ blocks' = IF stack = <<>> THEN blocks ELSE [blocks EXCEPT ![Top.base] = NULL]
    /\ stack' = <<>>
    /\ UNCHANGED <<files, installs, lib_cache, running>>

\* Variant: the outer load goes on, with the relocation that failed.
FailRetries ==
    /\ blocks' = IF stack = <<>> THEN blocks ELSE [blocks EXCEPT ![Top.base] = NULL]
    /\ stack' = Front(stack)
    /\ UNCHANGED <<files, installs, lib_cache, running>>

\* The load fails, and with it the load it is part of, and so on outwards:
\* each bflt_fload() frees its block.  The libraries that were complete stay.
Fail ==
    /\ blocks' = [a \in Addr |->
                     IF \E i \in DOMAIN stack : stack[i].base = a THEN NULL ELSE blocks[a]]
    /\ stack' = <<>>
    /\ UNCHANGED <<files, installs, lib_cache, running>>

\* bflt_load() of a program: it may fail for lack of memory or for its file.
LoadProgram(file) ==
    /\ stack = <<>> /\ Len(running) < MaxRunning
    /\ Begin(0, file)

----------------------------------------------------------------------------
\* Variant: the version of the file is not compared.
CachedAnyVersion(id, date) ==
    /\ lib_cache[id].base # NULL
    /\ lib_cache[id].build_date <= date

\* A library in the cache serves if it is the version of its file, and not
\* newer than what links to it.
Cached(id, date) ==
    /\ lib_cache[id].base # NULL
    /\ lib_cache[id].build_date = files[id].date
    /\ lib_cache[id].build_date <= date

\* A relocation is done: the image links to the library at a.
LinkTo(a, id, base) == [blocks EXCEPT ![a].links = @ \cup {<<id, base>>}]

\* load_shared_library() with the library in the cache.
LinkCached(id) ==
    /\ stack # <<>> /\ id \in Top.todo
    /\ files[id] # NULL /\ Cached(id, Top.date)
    /\ blocks' = LinkTo(Top.base, id, lib_cache[id].base)
    /\ stack' = [stack EXCEPT ![Len(stack)].todo = @ \ {id}]
    /\ UNCHANGED <<files, installs, lib_cache, running>>

\* Variant: the relocation is done with the null pointer it returned.
RefuseUnchecked(id) ==
    /\ stack # <<>> /\ id \in Top.todo
    /\ files[id] = NULL
    /\ blocks' = LinkTo(Top.base, id, NULL)
    /\ stack' = [stack EXCEPT ![Len(stack)].todo = @ \ {id}]
    /\ UNCHANGED <<files, installs, lib_cache, running>>

\* load_shared_library() refuses a missing file and a library that is newer
\* than what links to it.
Refuse(id) ==
    /\ stack # <<>> /\ id \in Top.todo
    /\ \/ files[id] = NULL
       \/ /\ files[id] # NULL /\ ~Cached(id, Top.date)
          /\ files[id].date > Top.date
    /\ Fail

\* load_shared_library() loads the file, by a nested bflt_fload().
LoadLibrary(id) ==
    /\ stack # <<>> /\ id \in Top.todo
    /\ files[id] # NULL /\ ~Cached(id, Top.date) /\ files[id].date <= Top.date
    /\ Begin(id, files[id])

\* bflt_fload() fails: no memory for its image, or its file is damaged.
GiveUp ==
    /\ stack # <<>>
    /\ Fail

\* Variant: the cached library is freed after it has been replaced.
FinishFreesNew ==
    /\ Len(stack) > 1 /\ Top.todo = {}
    /\ LET outer == stack[Len(stack) - 1]
           freed == [blocks EXCEPT ![Top.base] = NULL]
       IN
       /\ blocks' = [freed EXCEPT ![outer.base].links = @ \cup {<<Top.id, Top.base>>}]
       /\ stack' = [Front(stack) EXCEPT ![Len(stack) - 1].todo = @ \ {Top.id}]
    /\ lib_cache' = [lib_cache EXCEPT ![Top.id] =
                        [base |-> Top.base, build_date |-> Top.date]]
    /\ UNCHANGED <<files, installs, running>>

\* The library is complete: it is initialised, it replaces a stale version in
\* the cache and the relocation that asked for it is done.
FinishLibrary ==
    /\ Len(stack) > 1 /\ Top.todo = {}
    /\ LET outer == stack[Len(stack) - 1]
           stale == lib_cache[Top.id].base
           freed == [a \in Addr |-> IF a = stale THEN NULL ELSE blocks[a]]
       IN
       /\ blocks' = [freed EXCEPT ![outer.base].links = @ \cup {<<Top.id, Top.base>>}]
       /\ stack' = [Front(stack) EXCEPT ![Len(stack) - 1].todo = @ \ {Top.id}]
    /\ lib_cache' = [lib_cache EXCEPT ![Top.id] =
                        [base |-> Top.base, build_date |-> Top.date]]
    /\ UNCHANGED <<files, installs, running>>

\* The program is complete, and runs.
FinishProgram ==
    /\ Len(stack) = 1 /\ Top.todo = {}
    /\ running' = Append(running, Top.base)
    /\ stack' = <<>>
    /\ UNCHANGED <<files, installs, blocks, lib_cache>>

\* The innermost program ends: bflt_free().
End ==
    /\ stack = <<>> /\ running # <<>>
    /\ blocks' = [blocks EXCEPT ![Last(running)] = NULL]
    /\ running' = Front(running)
    /\ UNCHANGED <<files, installs, lib_cache, stack>>

LoadStep ==
    \/ \E id \in Ids : LinkCached(id)
    \/ \E id \in Ids : Refuse(id)
    \/ \E id \in Ids : LoadLibrary(id)
    \/ GiveUp
    \/ FinishLibrary
    \/ FinishProgram

Next ==
    \/ \E id \in Ids, file \in File \cup {NULL} : Install(id, file)
    \/ \E file \in File : LoadProgram(file)
    \/ LoadStep
    \/ End

\* The loader is a loop that goes on by itself once it has been called.
Spec == Init /\ [][Next]_vars /\ WF_vars(LoadStep)

----------------------------------------------------------------------------
(***************************************************************************)
(* Properties.                                                             *)
(***************************************************************************)

TypeOK ==
    /\ files \in [Ids -> File \cup {NULL}]
    /\ installs \in 0 .. MaxInstalls
    /\ blocks \in [Addr -> Block \cup {NULL}]
    /\ lib_cache \in [Ids -> [base: Addr, build_date: Dates] \cup {NoLib}]
    /\ stack \in Seq(Load)
    /\ running \in Seq(Addr)

CacheBlocks == {lib_cache[id].base : id \in Ids} \ {NULL}

\* Each image that links to a library links to a block that holds it.
LinksLive ==
    \A a \in Allocated : \A l \in blocks[a].links :
        blocks[l[2]] # NULL /\ blocks[l[2]].id = l[1]

\* As long as no library file is replaced, whatever fails and in whatever
\* order libraries are loaded.
LiveUntilUpdate == installs = 0 => LinksLive

\* A load links to the library its file holds, "check cached library is same
\* version as file" (bflt.c), and the loads nested in it never take it away,
\* even if they replace cached libraries.  It is not "newer than current
\* executable" (bflt.c).
LinksCurrent ==
    \A i \in DOMAIN stack : \A l \in blocks[stack[i].base].links :
        /\ blocks[l[2]] # NULL /\ files[l[1]] # NULL
        /\ blocks[l[2]].id = l[1]
        /\ blocks[l[2]].date = files[l[1]].date
        /\ blocks[l[2]].date <= stack[i].date

\* A block is the image of a program that runs, of a library in the cache or
\* of a load in progress: a load that fails leaves nothing else behind.
NoLeak ==
    Allocated = CacheBlocks \cup {running[i] : i \in DOMAIN running}
                            \cup {stack[i].base : i \in DOMAIN stack}

\* Libraries of one build date that need each other, all of them there.
Circular ==
    \E S \in SUBSET Ids \ {{}} : \A id \in S :
        /\ files[id] # NULL
        /\ \E dep \in S \cap files[id].deps :
              files[dep] # NULL /\ files[dep].date = files[id].date

\* A load comes to an end, whatever fails, unless the libraries are circular:
\* of two that need each other and differ in their dates, the older one is not
\* linked to the newer.  Circular ones may load each other until there is no
\* memory left, or no stack ("potential circular dependancy problem", bflt.c).
LoadEnds == stack # <<>> /\ ~Circular ~> stack = <<>>
=============================================================================
