----------------------------- MODULE BfltProofs -----------------------------
(***************************************************************************)
(* Proofs about Bflt, for any numbers of libraries, of blocks and of       *)
(* programs that run within each other, whichever files are replaced and   *)
(* whichever loads fail.                                                   *)
(***************************************************************************)
EXTENDS Bflt, TLAPS

----------------------------------------------------------------------------
(***************************************************************************)
(* The inductive invariant.  A block has one owner; and what a load in     *)
(* progress has linked to stays the library its file holds, because no     *)
(* load nested in it completes a library that is already up to date.       *)
(***************************************************************************)

\* The cache holds the version of the library that its file holds.
UpToDate(id) ==
    /\ files[id] # NULL /\ lib_cache[id].base # NULL
    /\ lib_cache[id].build_date = files[id].date

CacheOwns ==
    \A id \in Ids : lib_cache[id].base # NULL =>
       LET b == blocks[lib_cache[id].base]
       IN  b # NULL /\ b.id = id /\ b.date = lib_cache[id].build_date

RunningOwn ==
    \A i \in 1 .. Len(running) :
       /\ blocks[running[i]] # NULL /\ blocks[running[i]].id = 0
       /\ \A j \in 1 .. Len(running) : i # j => running[i] # running[j]

LoadsOwn ==
    \A i \in 1 .. Len(stack) :
       /\ blocks[stack[i].base] # NULL
       /\ blocks[stack[i].base].id = stack[i].id
       /\ blocks[stack[i].base].date = stack[i].date
       /\ \A j \in 1 .. Len(stack) : i # j => stack[i].base # stack[j].base
       /\ \A id \in Ids : stack[i].base # lib_cache[id].base
       /\ \A j \in 1 .. Len(running) : stack[i].base # running[j]

\* The nested loads: each is one the outer load still waits for, none is up
\* to date, and all they no longer wait for is.
Nested ==
    /\ stack # <<>> => stack[1].id = 0
    /\ \A i \in 2 .. Len(stack) :
          LET id == stack[i].id
          IN  /\ id \in Ids /\ files[id] # NULL
              /\ stack[i].date = files[id].date
              /\ stack[i].date <= stack[i - 1].date
              /\ id \in stack[i - 1].todo /\ ~UpToDate(id)
              /\ stack[i].todo \subseteq files[id].deps
              /\ \A d \in files[id].deps \ stack[i].todo : UpToDate(d)

\* What a load has linked to is in the cache, up to date and not too new.
LinksHeld ==
    \A i \in 1 .. Len(stack) : \A l \in blocks[stack[i].base].links :
       /\ UpToDate(l[1]) /\ l[2] = lib_cache[l[1]].base
       /\ lib_cache[l[1]].build_date <= stack[i].date

\* As long as no file is replaced, no library in the cache is.
NeverUpdated ==
    installs = 0 =>
       /\ \A id \in Ids : lib_cache[id].base # NULL => UpToDate(id)
       /\ \A a \in Addr : blocks[a] # NULL =>
             \A l \in blocks[a].links :
                l[2] # NULL /\ l[2] = lib_cache[l[1]].base

IInv ==
    /\ TypeOK
    /\ CacheOwns /\ RunningOwn /\ LoadsOwn /\ NoLeak
    /\ Nested /\ LinksHeld /\ NeverUpdated

----------------------------------------------------------------------------
(***************************************************************************)
(* What the types say, and the sequences.                                  *)
(***************************************************************************)

LEMMA LoadsTyped ==
    ASSUME TypeOK
    PROVE  /\ Len(stack) \in Nat /\ DOMAIN stack = 1 .. Len(stack)
           /\ stack = <<>> <=> Len(stack) = 0
           /\ \A i \in 1 .. Len(stack) :
                 /\ stack[i] \in Load
                 /\ stack[i].id \in Ids \cup {0} /\ stack[i].base \in Addr
                 /\ stack[i].date \in Nat /\ stack[i].date \in Dates
                 /\ stack[i].todo \subseteq Ids
           /\ Len(running) \in Nat /\ DOMAIN running = 1 .. Len(running)
           /\ running = <<>> <=> Len(running) = 0
           /\ \A i \in 1 .. Len(running) : running[i] \in Addr
<1>1. stack \in Seq(Load) /\ running \in Seq(Addr)
  BY DEF TypeOK
<1>2. \A i \in 1 .. Len(stack) : stack[i] \in Load
  BY <1>1
<1>3. \A f \in Load : /\ f.id \in Ids \cup {0} /\ f.base \in Addr
                       /\ f.date \in Nat /\ f.date \in Dates /\ f.todo \subseteq Ids
  BY BfltAssumption DEF Load
<1>4. /\ Len(stack) \in Nat /\ DOMAIN stack = 1 .. Len(stack)
      /\ stack = <<>> <=> Len(stack) = 0
  BY <1>1
<1>5. /\ Len(running) \in Nat /\ DOMAIN running = 1 .. Len(running)
      /\ running = <<>> <=> Len(running) = 0
      /\ \A i \in 1 .. Len(running) : running[i] \in Addr
  BY <1>1
<1> QED BY <1>2, <1>3, <1>4, <1>5

LEMMA CacheTyped ==
    ASSUME TypeOK, NEW id \in Ids
    PROVE  /\ lib_cache[id].base \in Addr \cup {NULL}
           /\ lib_cache[id].build_date \in Nat
           /\ lib_cache[id].base # NULL => lib_cache[id].build_date \in Dates
           /\ files[id] # NULL => /\ files[id] \in File
                                 /\ files[id].date \in Dates /\ files[id].date \in Nat
                                 /\ files[id].deps \subseteq Ids
<1>0. NULL \notin Addr /\ Dates \subseteq Nat
  BY BfltAssumption
<1>1. /\ lib_cache[id].base \in Addr \cup {NULL}
      /\ lib_cache[id].build_date \in Nat
      /\ lib_cache[id].base # NULL => lib_cache[id].build_date \in Dates
  <2>1. lib_cache[id] \in [base: Addr, build_date: Dates] \cup {NoLib}
    BY DEF TypeOK
  <2>2. CASE lib_cache[id] = NoLib
    <3>1. lib_cache[id].base = NULL /\ lib_cache[id].build_date = 0
      BY <2>2 DEF NoLib
    <3> QED BY <3>1
  <2>3. CASE lib_cache[id] \in [base: Addr, build_date: Dates]
    <3>1. lib_cache[id].base \in Addr /\ lib_cache[id].build_date \in Dates
      BY <2>3
    <3> QED BY <1>0, <3>1
  <2> QED BY <2>1, <2>2, <2>3
<1>2. ASSUME files[id] # NULL
      PROVE  /\ files[id] \in File
             /\ files[id].date \in Dates /\ files[id].date \in Nat
             /\ files[id].deps \subseteq Ids
  <2>1. files[id] \in File
    BY <1>2 DEF TypeOK
  <2>2. files[id].date \in Dates /\ files[id].deps \subseteq Ids
    BY <2>1 DEF File
  <2> QED BY <1>0, <2>1, <2>2
<1> QED BY <1>1, <1>2

LEMMA ABlock ==
    ASSUME NEW id \in Ids \cup {0}, NEW date \in Dates, NEW links \in SUBSET (Ids \X Addr)
    PROVE  LET b == [id |-> id, date |-> date, links |-> links]
           IN  b \in Block /\ b # NULL
BY BfltAssumption DEF Block

LEMMA LinkOf ==
    ASSUME TypeOK, NEW a \in Addr, blocks[a] # NULL, NEW l \in blocks[a].links
    PROVE  l[1] \in Ids /\ l[2] \in Addr
<1>1. blocks[a] \in Block
  BY DEF TypeOK
<1> QED BY <1>1 DEF Block

LEMMA ReplacedLoad ==
    ASSUME NEW s \in Seq(Load), NEW i \in 1 .. Len(s), NEW f \in Load
    PROVE  /\ [s EXCEPT ![i] = f] \in Seq(Load)
           /\ Len([s EXCEPT ![i] = f]) = Len(s)
           /\ [s EXCEPT ![i] = f][i] = f
           /\ \A k \in 1 .. Len(s) : k # i => [s EXCEPT ![i] = f][k] = s[k]
OBVIOUS

\* The owners of the blocks.
Owned == CacheBlocks \cup {running[i] : i \in DOMAIN running}
                     \cup {stack[i].base : i \in DOMAIN stack}

EachOwned ==
    \A a \in Addr :
       blocks[a] # NULL <=>
          \/ \E id \in Ids : lib_cache[id].base = a
          \/ \E i \in 1 .. Len(running) : running[i] = a
          \/ \E i \in 1 .. Len(stack) : stack[i].base = a

LEMMA OwnedBy == TypeOK => (NoLeak <=> EachOwned)
<1> SUFFICES ASSUME TypeOK PROVE NoLeak <=> EachOwned
  OBVIOUS
<1>1. CacheBlocks \subseteq Addr
  BY CacheTyped DEF CacheBlocks
<1>2. Owned \subseteq Addr
  BY <1>1, LoadsTyped DEF Owned
<1>3. \A a \in Addr : a \in Owned <=>
         \/ \E id \in Ids : lib_cache[id].base = a
         \/ \E i \in 1 .. Len(running) : running[i] = a
         \/ \E i \in 1 .. Len(stack) : stack[i].base = a
  BY LoadsTyped, BfltAssumption DEF Owned, CacheBlocks
<1>4. NoLeak <=> Allocated = Owned
  BY DEF NoLeak, Owned
<1>5. Allocated \subseteq Addr /\ \A a \in Addr : a \in Allocated <=> blocks[a] # NULL
  BY DEF Allocated
<1> QED BY <1>2, <1>3, <1>4, <1>5 DEF EachOwned

LEMMA OwnedByNext == TypeOK' => (NoLeak' <=> EachOwned')
BY OwnedBy, PTL

----------------------------------------------------------------------------
(***************************************************************************)
(* What the invariant says to a user of the loader.                        *)
(***************************************************************************)

LEMMA InvGivesLinksCurrent == IInv => LinksCurrent
<1> SUFFICES ASSUME IInv, NEW i \in DOMAIN stack, NEW l \in blocks[stack[i].base].links
             PROVE  /\ blocks[l[2]] # NULL /\ files[l[1]] # NULL
                    /\ blocks[l[2]].id = l[1]
                    /\ blocks[l[2]].date = files[l[1]].date
                    /\ blocks[l[2]].date <= stack[i].date
  BY DEF LinksCurrent
<1>0. TypeOK /\ CacheOwns /\ LoadsOwn /\ LinksHeld
  BY DEF IInv
<1>1. i \in 1 .. Len(stack) /\ stack[i].base \in Addr
  BY <1>0, LoadsTyped
<1>2. blocks[stack[i].base] # NULL
  BY <1>0, <1>1 DEF LoadsOwn
<1>3. l[1] \in Ids
  BY <1>0, <1>1, <1>2, LinkOf
<1>4. /\ UpToDate(l[1]) /\ l[2] = lib_cache[l[1]].base
      /\ lib_cache[l[1]].build_date <= stack[i].date
  BY <1>0, <1>1 DEF LinksHeld
<1> QED BY <1>0, <1>3, <1>4 DEF UpToDate, CacheOwns

LEMMA InvGivesLiveUntilUpdate == IInv => LiveUntilUpdate
<1> SUFFICES ASSUME IInv, installs = 0, NEW a \in Addr, blocks[a] # NULL,
                    NEW l \in blocks[a].links
             PROVE  blocks[l[2]] # NULL /\ blocks[l[2]].id = l[1]
  BY DEF LiveUntilUpdate, LinksLive, Allocated
<1>0. TypeOK /\ CacheOwns /\ NeverUpdated
  BY DEF IInv
<1>1. l[1] \in Ids
  BY <1>0, LinkOf
<1>2. l[2] # NULL /\ l[2] = lib_cache[l[1]].base
  BY <1>0 DEF NeverUpdated
<1> QED BY <1>0, <1>1, <1>2 DEF CacheOwns

LEMMA InitInv == Init => IInv
<1> SUFFICES ASSUME Init PROVE IInv
  OBVIOUS
<1>1. stack = <<>> /\ running = <<>> /\ Len(stack) = 0 /\ Len(running) = 0
  BY DEF Init
<1>2. TypeOK
  BY <1>1, BfltAssumption DEF Init, TypeOK
<1>3. \A id \in Ids : lib_cache[id].base = NULL
  BY DEF Init, NoLib
<1>4. \A a \in Addr : blocks[a] = NULL
  BY DEF Init
<1>5. NoLeak
  BY <1>1, <1>2, <1>3, <1>4, OwnedBy, BfltAssumption DEF EachOwned
<1>6. CacheOwns /\ RunningOwn /\ LoadsOwn /\ Nested /\ LinksHeld /\ NeverUpdated
  BY <1>1, <1>3, <1>4
     DEF CacheOwns, RunningOwn, LoadsOwn, Nested, LinksHeld, NeverUpdated
<1> QED BY <1>2, <1>5, <1>6 DEF IInv

----------------------------------------------------------------------------
(***************************************************************************)
(* A load begins: of a program with nothing in progress, or of a library   *)
(* the innermost load waits for.                                           *)
(***************************************************************************)

\* It begins in block a.
BegunIn(a, id, file) ==
    /\ blocks[a] = NULL
    /\ blocks'[a] # NULL /\ blocks'[a].id = id
    /\ blocks'[a].date = file.date /\ blocks'[a].links = {}
    /\ \A b \in Addr : b # a => blocks'[b] = blocks[b]
    /\ Len(stack') = Len(stack) + 1
    /\ \A i \in 1 .. Len(stack) : stack'[i] = stack[i]
    /\ stack'[Len(stack) + 1] = [id |-> id, base |-> a, date |-> file.date,
                                 todo |-> file.deps]
    /\ TypeOK'

LEMMA Begun ==
    ASSUME TypeOK, NEW id \in Ids \cup {0}, NEW file \in File, Begin(id, file)
    PROVE  \E a \in Addr : BegunIn(a, id, file)
<1>1. PICK a \in Addr \ Allocated :
         /\ blocks' = [blocks EXCEPT ![a] = [id |-> id, date |-> file.date, links |-> {}]]
         /\ stack' = Append(stack, [id |-> id, base |-> a, date |-> file.date,
                                    todo |-> file.deps])
         /\ UNCHANGED <<files, installs, lib_cache, running>>
  BY DEF Begin
<1>2. PICK b : b = [id |-> id, date |-> file.date, links |-> {}]
  OBVIOUS
<1>3. PICK f : f = [id |-> id, base |-> a, date |-> file.date, todo |-> file.deps]
  OBVIOUS
<1>4. file.date \in Dates /\ file.deps \in SUBSET Ids
  BY DEF File
<1>5. b \in Block /\ b # NULL
  BY <1>2, <1>4, ABlock
<1>6. f \in Load
  BY <1>3, <1>4 DEF Load
<1>7. blocks[a] = NULL
  BY <1>1 DEF Allocated
<1>8. /\ blocks' \in [Addr -> Block \cup {NULL}]
      /\ blocks'[a] = b /\ \A c \in Addr : c # a => blocks'[c] = blocks[c]
  BY <1>1, <1>2, <1>5 DEF TypeOK
<1>9. stack \in Seq(Load)
  BY DEF TypeOK
<1>10. /\ stack' \in Seq(Load) /\ Len(stack') = Len(stack) + 1
       /\ \A i \in 1 .. Len(stack) : stack'[i] = stack[i]
       /\ stack'[Len(stack) + 1] = f
  BY <1>1, <1>3, <1>6, <1>9
<1>11. TypeOK'
  BY <1>1, <1>8, <1>10 DEF TypeOK
<1>12. a \in Addr /\ b.id = id /\ b.date = file.date /\ b.links = {}
  BY <1>2
<1> QED BY <1>3, <1>5, <1>7, <1>8, <1>10, <1>11, <1>12 DEF BegunIn

LEMMA BeginInv ==
    ASSUME IInv, NEW id \in Ids \cup {0}, NEW file \in File, Begin(id, file),
           \/ stack = <<>> /\ id = 0
           \/ /\ stack # <<>> /\ id \in Ids /\ id \in Top.todo
              /\ files[id] # NULL /\ file = files[id]
              /\ ~UpToDate(id) /\ file.date <= Top.date
    PROVE  IInv'
<1>0. /\ TypeOK /\ CacheOwns /\ RunningOwn /\ LoadsOwn /\ NoLeak
      /\ Nested /\ LinksHeld /\ NeverUpdated
  BY DEF IInv
<1>1. UNCHANGED <<files, installs, lib_cache, running>>
  BY DEF Begin
<1>a. PICK a \in Addr : BegunIn(a, id, file)
  BY <1>0, Begun
<1>2. /\ blocks[a] = NULL
      /\ blocks'[a] # NULL /\ blocks'[a].id = id
      /\ blocks'[a].date = file.date /\ blocks'[a].links = {}
      /\ \A b \in Addr : b # a => blocks'[b] = blocks[b]
      /\ Len(stack') = Len(stack) + 1
      /\ \A i \in 1 .. Len(stack) : stack'[i] = stack[i]
      /\ stack'[Len(stack) + 1] = [id |-> id, base |-> a, date |-> file.date,
                                   todo |-> file.deps]
      /\ TypeOK'
  BY <1>a DEF BegunIn
<1>3. PICK n \in Nat : n = Len(stack) + 1 /\ 1 .. Len(stack') = 1 .. n
  BY <1>0, <1>2, LoadsTyped
<1>4. /\ stack'[n].id = id /\ stack'[n].base = a
      /\ stack'[n].date = file.date /\ stack'[n].todo = file.deps
  BY <1>2, <1>3
<1>5. \A i \in 1 .. n : i # n => i \in 1 .. Len(stack) /\ stack'[i] = stack[i]
  BY <1>0, <1>2, <1>3, LoadsTyped
<1>6. \A x \in Ids : lib_cache[x].base # a
  BY <1>0, <1>2, BfltAssumption DEF CacheOwns
<1>7. \A i \in 1 .. Len(running) : running[i] # a
  BY <1>0, <1>2 DEF RunningOwn
<1>8. \A i \in 1 .. Len(stack) : stack[i].base # a /\ stack[i].base \in Addr
  BY <1>0, <1>2, LoadsTyped DEF LoadsOwn
<1>9. CacheOwns'
  <2> SUFFICES ASSUME NEW x \in Ids, lib_cache[x].base # NULL
               PROVE  blocks'[lib_cache[x].base] = blocks[lib_cache[x].base]
    BY <1>0, <1>1 DEF CacheOwns
  <2> QED BY <1>0, <1>2, <1>6, CacheTyped
<1>10. RunningOwn'
  BY <1>0, <1>1, <1>2, <1>7, LoadsTyped DEF RunningOwn
<1>11. LoadsOwn'
  <2> SUFFICES ASSUME NEW i \in 1 .. n
               PROVE  /\ blocks'[stack'[i].base] # NULL
                      /\ blocks'[stack'[i].base].id = stack'[i].id
                      /\ blocks'[stack'[i].base].date = stack'[i].date
                      /\ \A j \in 1 .. n : i # j => stack'[i].base # stack'[j].base
                      /\ \A x \in Ids : stack'[i].base # lib_cache[x].base
                      /\ \A j \in 1 .. Len(running) : stack'[i].base # running[j]
    BY <1>1, <1>3 DEF LoadsOwn
  <2>1. CASE i = n
    BY <2>1, <1>2, <1>4, <1>5, <1>6, <1>7, <1>8
  <2>2. CASE i # n
    <3>1. stack'[i] = stack[i] /\ i \in 1 .. Len(stack)
      BY <2>2, <1>5
    <3>2. stack[i].base # a /\ blocks'[stack[i].base] = blocks[stack[i].base]
      BY <3>1, <1>2, <1>8
    <3> QED BY <3>1, <3>2, <1>0, <1>4, <1>5 DEF LoadsOwn
  <2> QED BY <2>1, <2>2
<1>12. NoLeak'
  <2>1. NoLeak' <=>
           \A c \in Addr :
              blocks'[c] # NULL <=>
                 \/ \E x \in Ids : lib_cache[x].base = c
                 \/ \E i \in 1 .. Len(running) : running[i] = c
                 \/ \E i \in 1 .. n : stack'[i].base = c
    BY <1>1, <1>2, <1>3, OwnedByNext DEF EachOwned
  <2>2. \A c \in Addr :
           blocks[c] # NULL <=>
              \/ \E x \in Ids : lib_cache[x].base = c
              \/ \E i \in 1 .. Len(running) : running[i] = c
              \/ \E i \in 1 .. Len(stack) : stack[i].base = c
    BY <1>0, OwnedBy DEF EachOwned
  <2>3. \A c \in Addr : (\E i \in 1 .. n : stack'[i].base = c)
                         <=> c = a \/ \E i \in 1 .. Len(stack) : stack[i].base = c
    <3>1. n \in 1 .. n /\ \A i \in 1 .. Len(stack) : i \in 1 .. n /\ stack'[i] = stack[i]
      BY <1>0, <1>2, <1>3, LoadsTyped
    <3> QED BY <3>1, <1>4, <1>5
  <2> QED BY <2>1, <2>2, <2>3, <1>2
<1>13. Nested'
  <2>0. \A d : UpToDate(d)' <=> UpToDate(d)
    BY <1>1 DEF UpToDate
  <2>1. stack'[1].id = 0
    <3>1. CASE stack = <<>>
      BY <3>1, <1>0, <1>3, <1>4, LoadsTyped
    <3>2. CASE stack # <<>>
      <4>1. 1 \in 1 .. Len(stack)
        BY <3>2, <1>0, LoadsTyped
      <4> QED BY <3>2, <4>1, <1>0, <1>2 DEF Nested
    <3> QED BY <3>1, <3>2
  <2>2. ASSUME NEW i \in 2 .. n, i # n
        PROVE  LET x == stack'[i].id
               IN  /\ x \in Ids /\ files[x] # NULL
                   /\ stack'[i].date = files[x].date
                   /\ stack'[i].date <= stack'[i - 1].date
                   /\ x \in stack'[i - 1].todo /\ ~UpToDate(x)
                   /\ stack'[i].todo \subseteq files[x].deps
                   /\ \A d \in files[x].deps \ stack'[i].todo : UpToDate(d)
    <3>1. i \in 2 .. Len(stack) /\ stack'[i] = stack[i] /\ stack'[i - 1] = stack[i - 1]
      BY <2>2, <1>0, <1>2, <1>3, LoadsTyped
    <3> QED BY <3>1, <1>0 DEF Nested
  <2>3. ASSUME n \in 2 .. n
        PROVE  LET x == stack'[n].id
               IN  /\ x \in Ids /\ files[x] # NULL
                   /\ stack'[n].date = files[x].date
                   /\ stack'[n].date <= stack'[n - 1].date
                   /\ x \in stack'[n - 1].todo /\ ~UpToDate(x)
                   /\ stack'[n].todo \subseteq files[x].deps
                   /\ \A d \in files[x].deps \ stack'[n].todo : UpToDate(d)
    <3>1. stack # <<>> /\ n - 1 = Len(stack)
      BY <2>3, <1>0, <1>3, LoadsTyped
    <3>2. stack'[n - 1] = Top
      BY <3>1, <1>0, <1>2, LoadsTyped DEF Top
    <3> QED BY <3>1, <3>2, <1>4
  <2> QED BY <2>0, <2>1, <2>2, <2>3, <1>1, <1>3 DEF Nested
<1>14. LinksHeld'
  <2> SUFFICES ASSUME NEW i \in 1 .. n, NEW l \in blocks'[stack'[i].base].links
               PROVE  /\ UpToDate(l[1]) /\ l[2] = lib_cache[l[1]].base
                      /\ lib_cache[l[1]].build_date <= stack'[i].date
    BY <1>1, <1>3 DEF LinksHeld, UpToDate
  <2>1. i # n
    BY <1>2, <1>4
  <2>2. /\ stack'[i] = stack[i] /\ i \in 1 .. Len(stack)
        /\ blocks'[stack[i].base] = blocks[stack[i].base]
    BY <2>1, <1>2, <1>5, <1>8
  <2> QED BY <2>2, <1>0 DEF LinksHeld
<1>15. NeverUpdated'
  BY <1>0, <1>1, <1>2 DEF NeverUpdated, UpToDate
<1> QED BY <1>2, <1>9, <1>10, <1>11, <1>12, <1>13, <1>14, <1>15 DEF IInv

----------------------------------------------------------------------------
(***************************************************************************)
(* A load fails: the blocks of the loads in progress go, no other.         *)
(***************************************************************************)

LEMMA FailInv ==
    ASSUME IInv, Fail
    PROVE  IInv'
<1>0. /\ TypeOK /\ CacheOwns /\ RunningOwn /\ LoadsOwn /\ NoLeak /\ NeverUpdated
  BY DEF IInv
<1>1. /\ UNCHANGED <<files, installs, lib_cache, running>>
      /\ stack' = <<>> /\ Len(stack') = 0
  BY DEF Fail
<1>2. \A a \in Addr : \/ /\ \E i \in 1 .. Len(stack) : stack[i].base = a
                          /\ blocks'[a] = NULL
                       \/ /\ \A i \in 1 .. Len(stack) : stack[i].base # a
                          /\ blocks'[a] = blocks[a]
  BY <1>0, LoadsTyped DEF Fail
<1>3. TypeOK'
  <2>1. blocks' \in [Addr -> Block \cup {NULL}]
    BY <1>0 DEF Fail, TypeOK
  <2> QED BY <2>1, <1>0, <1>1 DEF TypeOK
<1>4. CacheOwns'
  <2> SUFFICES ASSUME NEW x \in Ids, lib_cache[x].base # NULL
               PROVE  blocks'[lib_cache[x].base] = blocks[lib_cache[x].base]
    BY <1>0, <1>1 DEF CacheOwns
  <2> QED BY <1>0, <1>2, CacheTyped DEF LoadsOwn
<1>5. RunningOwn'
  <2> SUFFICES ASSUME NEW i \in 1 .. Len(running)
               PROVE  blocks'[running[i]] = blocks[running[i]]
    BY <1>0, <1>1 DEF RunningOwn
  <2> QED BY <1>0, <1>2, LoadsTyped DEF LoadsOwn
<1>6. NoLeak'
  <2>1. EachOwned
    BY <1>0, OwnedBy
  <2>2. \A i \in 1 .. Len(stack), x \in Ids : lib_cache[x].base # stack[i].base
    BY <1>0 DEF LoadsOwn
  <2>3. \A i \in 1 .. Len(stack), j \in 1 .. Len(running) : running[j] # stack[i].base
    BY <1>0 DEF LoadsOwn
  <2>4. EachOwned'
    BY <2>1, <2>2, <2>3, <1>1, <1>2 DEF EachOwned
  <2> QED BY <2>4, <1>3, OwnedByNext
<1>7. LoadsOwn' /\ Nested' /\ LinksHeld'
  BY <1>1 DEF LoadsOwn, Nested, LinksHeld
<1>8. NeverUpdated'
  BY <1>0, <1>1, <1>2 DEF NeverUpdated, UpToDate
<1> QED BY <1>3, <1>4, <1>5, <1>6, <1>7, <1>8 DEF IInv

----------------------------------------------------------------------------
(***************************************************************************)
(* Programs: one that is complete runs, the innermost one ends.            *)
(***************************************************************************)

LEMMA FinishProgramInv ==
    ASSUME IInv, FinishProgram
    PROVE  IInv'
<1>0. /\ TypeOK /\ CacheOwns /\ RunningOwn /\ LoadsOwn /\ NoLeak /\ Nested /\ NeverUpdated
  BY DEF IInv
<1>1. /\ UNCHANGED <<files, installs, lib_cache, blocks>>
      /\ stack' = <<>> /\ Len(stack') = 0
      /\ Len(stack) = 1 /\ stack # <<>>
  BY <1>0, LoadsTyped DEF FinishProgram
<1>2. PICK a \in Addr : a = stack[1].base
  BY <1>0, <1>1, LoadsTyped
<1>3. /\ blocks[a] # NULL /\ blocks[a].id = 0
      /\ \A j \in 1 .. Len(running) : running[j] # a
  BY <1>0, <1>1, <1>2 DEF LoadsOwn, Nested
<1>4. PICK n \in Nat : n = Len(running) + 1
  BY <1>0, LoadsTyped
<1>5. /\ running' \in Seq(Addr) /\ Len(running') = n
      /\ \A i \in 1 .. Len(running) : running'[i] = running[i]
      /\ running'[n] = a
  <2>1. running' = Append(running, a)
    BY <1>1, <1>2 DEF FinishProgram, Top
  <2>2. running \in Seq(Addr)
    BY <1>0 DEF TypeOK
  <2> QED BY <2>1, <2>2, <1>4
<1>6. \A i \in 1 .. n : i = n \/ i \in 1 .. Len(running)
  BY <1>0, <1>4, LoadsTyped
<1>7. n \in 1 .. n /\ \A i \in 1 .. Len(running) : i \in 1 .. n
  BY <1>0, <1>4, LoadsTyped
<1>8. TypeOK'
  BY <1>0, <1>1, <1>5 DEF TypeOK
<1>9. CacheOwns'
  BY <1>0, <1>1 DEF CacheOwns
<1>10. RunningOwn'
  <2> SUFFICES ASSUME NEW i \in 1 .. n
               PROVE  /\ blocks[running'[i]] # NULL /\ blocks[running'[i]].id = 0
                      /\ \A j \in 1 .. n : i # j => running'[i] # running'[j]
    BY <1>1, <1>5 DEF RunningOwn
  <2> QED BY <1>0, <1>3, <1>5, <1>6 DEF RunningOwn
<1>11. NoLeak'
  <2>1. EachOwned
    BY <1>0, OwnedBy
  <2>2. \A c \in Addr : (\E i \in 1 .. n : running'[i] = c)
           <=> c = a \/ \E i \in 1 .. Len(running) : running[i] = c
    BY <1>5, <1>6, <1>7
  <2>3. \A c \in Addr : (\E i \in 1 .. Len(stack) : stack[i].base = c) <=> c = a
    BY <1>1, <1>2
  <2>4. EachOwned'
    BY <2>1, <2>2, <2>3, <1>1, <1>5 DEF EachOwned
  <2> QED BY <2>4, <1>8, OwnedByNext
<1>12. LoadsOwn' /\ Nested' /\ LinksHeld'
  BY <1>1 DEF LoadsOwn, Nested, LinksHeld
<1>13. NeverUpdated'
  BY <1>0, <1>1 DEF NeverUpdated, UpToDate
<1> QED BY <1>8, <1>9, <1>10, <1>11, <1>12, <1>13 DEF IInv

LEMMA EndInv ==
    ASSUME IInv, End
    PROVE  IInv'
<1>0. /\ TypeOK /\ CacheOwns /\ RunningOwn /\ LoadsOwn /\ NoLeak /\ NeverUpdated
  BY DEF IInv
<1>1. /\ UNCHANGED <<files, installs, lib_cache, stack>>
      /\ stack = <<>> /\ Len(stack) = 0
      /\ running # <<>>
  BY DEF End
<1>2. PICK n \in Nat : n + 1 = Len(running)
  <2>1. Len(running) \in Nat \ {0}
    BY <1>0, <1>1, LoadsTyped
  <2> QED BY <2>1
<1>3. PICK a \in Addr : a = running[n + 1]
  BY <1>0, <1>2, LoadsTyped
<1>4. /\ running' \in Seq(Addr) /\ Len(running') = n
      /\ \A i \in 1 .. n : running'[i] = running[i]
  <2>1. running' = SubSeq(running, 1, n)
    BY <1>2, LoadsTyped DEF End, Front
  <2>2. running \in Seq(Addr)
    BY <1>0 DEF TypeOK
  <2> QED BY <2>1, <2>2, <1>2
<1>5. \A i \in 1 .. Len(running) : i = n + 1 \/ i \in 1 .. n
  BY <1>2
<1>6. n + 1 \in 1 .. Len(running)
      /\ \A i \in 1 .. n : i \in 1 .. Len(running) /\ i # n + 1
  BY <1>2
<1>7. \A i \in 1 .. n : running[i] # a
  BY <1>0, <1>3, <1>6 DEF RunningOwn
<1>8. blocks'[a] = NULL /\ \A b \in Addr : b # a => blocks'[b] = blocks[b]
  BY <1>0, <1>2, <1>3 DEF End, Last, TypeOK
<1>9. TypeOK'
  <2>1. blocks' \in [Addr -> Block \cup {NULL}]
    BY <1>0 DEF End, TypeOK
  <2> QED BY <2>1, <1>0, <1>1, <1>4 DEF TypeOK
<1>10. \A x \in Ids : lib_cache[x].base # a
  <2>1. blocks[a] # NULL /\ blocks[a].id = 0
    BY <1>0, <1>3, <1>6 DEF RunningOwn
  <2> QED BY <2>1, <1>0, BfltAssumption DEF CacheOwns
<1>11. CacheOwns'
  <2> SUFFICES ASSUME NEW x \in Ids, lib_cache[x].base # NULL
               PROVE  blocks'[lib_cache[x].base] = blocks[lib_cache[x].base]
    BY <1>0, <1>1 DEF CacheOwns
  <2> QED BY <1>0, <1>8, <1>10, CacheTyped
<1>12. RunningOwn'
  <2> SUFFICES ASSUME NEW i \in 1 .. n
               PROVE  /\ blocks'[running[i]] # NULL /\ blocks'[running[i]].id = 0
                      /\ \A j \in 1 .. n : i # j => running[i] # running[j]
    BY <1>4 DEF RunningOwn
  <2> QED BY <1>0, <1>6, <1>7, <1>8, LoadsTyped DEF RunningOwn
<1>13. NoLeak'
  <2>1. EachOwned
    BY <1>0, OwnedBy
  <2>2. \A c \in Addr : c # a =>
           ((\E i \in 1 .. n : running'[i] = c) <=> \E i \in 1 .. Len(running) : running[i] = c)
    BY <1>3, <1>4, <1>5, <1>6
  <2>3. ~ \E i \in 1 .. n : running'[i] = a
    BY <1>4, <1>7
  <2>4. EachOwned'
    BY <2>1, <2>2, <2>3, <1>1, <1>4, <1>8, <1>10 DEF EachOwned
  <2> QED BY <2>4, <1>9, OwnedByNext
<1>14. LoadsOwn' /\ Nested' /\ LinksHeld'
  BY <1>1 DEF LoadsOwn, Nested, LinksHeld
<1>15. NeverUpdated'
  BY <1>0, <1>1, <1>8 DEF NeverUpdated, UpToDate
<1> QED BY <1>9, <1>11, <1>12, <1>13, <1>14, <1>15 DEF IInv

LEMMA InstallInv ==
    ASSUME IInv, NEW id \in Ids, NEW file \in File \cup {NULL}, Install(id, file)
    PROVE  IInv'
<1>0. /\ TypeOK /\ CacheOwns /\ RunningOwn /\ LoadsOwn /\ NoLeak
  BY DEF IInv
<1>1. /\ UNCHANGED <<blocks, lib_cache, stack, running>>
      /\ stack' = <<>> /\ Len(stack') = 0 /\ installs' = installs + 1
  BY DEF Install
<1>2. TypeOK'
  <2>1. files' \in [Ids -> File \cup {NULL}]
    BY <1>0 DEF Install, TypeOK
  <2>2. installs' \in 0 .. MaxInstalls
    BY <1>0, BfltAssumption DEF Install, TypeOK
  <2> QED BY <2>1, <2>2, <1>0, <1>1 DEF TypeOK
<1>3. CacheOwns' /\ RunningOwn'
  BY <1>0, <1>1 DEF CacheOwns, RunningOwn
<1>4. NoLeak'
  BY <1>0, <1>1, <1>2, OwnedBy, OwnedByNext DEF EachOwned
<1>5. LoadsOwn' /\ Nested' /\ LinksHeld'
  BY <1>1 DEF LoadsOwn, Nested, LinksHeld
<1>6. NeverUpdated'
  <2>1. installs' # 0
    BY <1>0, <1>1, BfltAssumption DEF TypeOK
  <2> QED BY <2>1 DEF NeverUpdated
<1> QED BY <1>2, <1>3, <1>4, <1>5, <1>6 DEF IInv

----------------------------------------------------------------------------
(***************************************************************************)
(* A relocation is done: the innermost load links to a library, which it   *)
(* no longer waits for.                                                    *)
(***************************************************************************)

\* stack, blocks and lib_cache after load i of the stack s has been linked to
\* library id at base; the other loads and images are unchanged.
Relocated(s, i, id, base) ==
    /\ Len(stack') = i
    /\ \A k \in 1 .. i : k # i => stack'[k] = s[k]
    /\ stack'[i].id = s[i].id /\ stack'[i].base = s[i].base
    /\ stack'[i].date = s[i].date /\ stack'[i].todo = s[i].todo \ {id}
    /\ blocks'[s[i].base] # NULL
    /\ blocks'[s[i].base].id = blocks[s[i].base].id
    /\ blocks'[s[i].base].date = blocks[s[i].base].date
    /\ blocks'[s[i].base].links = blocks[s[i].base].links \cup {<<id, base>>}

LEMMA WithLink ==
    ASSUME NEW b \in Block, NEW id \in Ids, NEW base \in Addr
    PROVE  LET c == [b EXCEPT !.links = @ \cup {<<id, base>>}]
           IN  /\ c \in Block /\ c # NULL /\ c.id = b.id /\ c.date = b.date
               /\ c.links = b.links \cup {<<id, base>>}
BY BfltAssumption DEF Block

LEMMA WithoutTodo ==
    ASSUME NEW f \in Load, NEW id
    PROVE  LET g == [f EXCEPT !.todo = @ \ {id}]
           IN  /\ g \in Load /\ g.id = f.id /\ g.base = f.base /\ g.date = f.date
               /\ g.todo = f.todo \ {id}
BY DEF Load

LEMMA LinkedCached ==
    ASSUME IInv, NEW id \in Ids, LinkCached(id)
    PROVE  /\ Relocated(stack, Len(stack), id, lib_cache[id].base)
           /\ \A a \in Addr : a # stack[Len(stack)].base => blocks'[a] = blocks[a]
           /\ UpToDate(id) /\ lib_cache[id].build_date <= stack[Len(stack)].date
           /\ TypeOK'
<1>0. TypeOK /\ LoadsOwn
  BY DEF IInv
<1>1. PICK n : n = Len(stack) /\ n \in 1 .. Len(stack) /\ n \in Nat
  BY <1>0, LoadsTyped DEF LinkCached
<1>2. PICK f \in Load : f = stack[n] /\ f.base \in Addr
  BY <1>0, <1>1, LoadsTyped
<1>3. PICK base \in Addr : base = lib_cache[id].base
  BY <1>0, CacheTyped DEF LinkCached, Cached
<1>4. PICK b \in Block : b = blocks[f.base]
  BY <1>0, <1>1, <1>2 DEF LoadsOwn, TypeOK
<1>5. PICK c : c = [b EXCEPT !.links = @ \cup {<<id, base>>}]
  OBVIOUS
<1>6. /\ c \in Block /\ c # NULL /\ c.id = b.id /\ c.date = b.date
       /\ c.links = b.links \cup {<<id, base>>}
  BY <1>5, WithLink
<1>7. PICK g : g = [f EXCEPT !.todo = @ \ {id}]
  OBVIOUS
<1>8. /\ g \in Load /\ g.id = f.id /\ g.base = f.base /\ g.date = f.date
       /\ g.todo = f.todo \ {id}
  BY <1>7, WithoutTodo
<1>9. /\ blocks' = [blocks EXCEPT ![f.base] = c]
      /\ stack' = [stack EXCEPT ![n] = g]
      /\ UNCHANGED <<files, installs, lib_cache, running>>
  BY <1>1, <1>2, <1>3, <1>4, <1>5, <1>7 DEF LinkCached, LinkTo, Top
<1>10. /\ blocks' \in [Addr -> Block \cup {NULL}] /\ blocks'[f.base] = c
      /\ \A a \in Addr : a # f.base => blocks'[a] = blocks[a]
  BY <1>0, <1>2, <1>9, <1>6 DEF TypeOK
<1>11. /\ stack' \in Seq(Load) /\ Len(stack') = n /\ stack'[n] = g
      /\ \A k \in 1 .. n : k # n => stack'[k] = stack[k]
  <2>1. stack \in Seq(Load)
    BY <1>0 DEF TypeOK
  <2> QED BY <2>1, <1>1, <1>2, <1>9, <1>8
<1>12. TypeOK'
  BY <1>0, <1>9, <1>10, <1>11 DEF TypeOK
<1>13. Relocated(stack, n, id, base)
  BY <1>2, <1>4, <1>6, <1>8, <1>10, <1>11 DEF Relocated
<1>14. UpToDate(id) /\ lib_cache[id].build_date <= f.date
  BY <1>1, <1>2 DEF LinkCached, Cached, UpToDate, Top
<1> QED BY <1>1, <1>2, <1>3, <1>10, <1>12, <1>13, <1>14

LEMMA LinkCachedInv ==
    ASSUME IInv, NEW id \in Ids, LinkCached(id)
    PROVE  IInv'
<1>0. /\ TypeOK /\ CacheOwns /\ RunningOwn /\ LoadsOwn /\ NoLeak
      /\ Nested /\ LinksHeld /\ NeverUpdated
  BY DEF IInv
<1>1. UNCHANGED <<files, installs, lib_cache, running>>
  BY DEF LinkCached
<1>2. PICK n \in Nat : n = Len(stack) /\ n \in 1 .. n
  BY <1>0, LoadsTyped DEF LinkCached
<1>3. PICK base \in Addr : base = lib_cache[id].base
  BY <1>0, CacheTyped DEF LinkCached, Cached
<1>4. /\ Relocated(stack, n, id, base)
      /\ \A a \in Addr : a # stack[n].base => blocks'[a] = blocks[a]
      /\ UpToDate(id) /\ lib_cache[id].build_date <= stack[n].date
      /\ TypeOK'
  BY <1>2, <1>3, LinkedCached
<1>5. Len(stack') = n /\ \A i \in 1 .. n : stack[i].base \in Addr
  BY <1>0, <1>2, <1>4, LoadsTyped DEF Relocated
<1>6. \A i \in 1 .. n : /\ stack'[i].id = stack[i].id /\ stack'[i].base = stack[i].base
                        /\ stack'[i].date = stack[i].date
                        /\ stack'[i].todo \subseteq stack[i].todo
                        /\ stack[i].todo \subseteq stack'[i].todo \cup {id}
  BY <1>4 DEF Relocated
<1>7. /\ \A a \in Addr : (blocks'[a] # NULL) <=> (blocks[a] # NULL)
      /\ \A a \in Addr : blocks[a] # NULL =>
           /\ blocks'[a].id = blocks[a].id /\ blocks'[a].date = blocks[a].date
           /\ \A l \in blocks'[a].links :
                 l \in blocks[a].links \/ (a = stack[n].base /\ l = <<id, base>>)
  BY <1>0, <1>2, <1>4, <1>5 DEF Relocated, LoadsOwn
<1>8. \A d : UpToDate(d)' <=> UpToDate(d)
  BY <1>1 DEF UpToDate
<1>9. CacheOwns'
  <2> SUFFICES ASSUME NEW x \in Ids, lib_cache[x].base # NULL
               PROVE  LET b == blocks'[lib_cache[x].base]
                      IN  b # NULL /\ b.id = x /\ b.date = lib_cache[x].build_date
    BY <1>1 DEF CacheOwns
  <2> QED BY <1>0, <1>7, CacheTyped DEF CacheOwns
<1>10. RunningOwn'
  <2> SUFFICES ASSUME NEW i \in 1 .. Len(running)
               PROVE  blocks'[running[i]] # NULL /\ blocks'[running[i]].id = 0
    BY <1>0, <1>1 DEF RunningOwn
  <2> QED BY <1>0, <1>7, LoadsTyped DEF RunningOwn
<1>11. LoadsOwn'
  <2> SUFFICES ASSUME NEW i \in 1 .. n
               PROVE  /\ blocks'[stack'[i].base] # NULL
                      /\ blocks'[stack'[i].base].id = stack'[i].id
                      /\ blocks'[stack'[i].base].date = stack'[i].date
                      /\ \A j \in 1 .. n : i # j => stack'[i].base # stack'[j].base
                      /\ \A x \in Ids : stack'[i].base # lib_cache[x].base
                      /\ \A j \in 1 .. Len(running) : stack'[i].base # running[j]
    BY <1>1, <1>5 DEF LoadsOwn
  <2> QED BY <1>0, <1>2, <1>5, <1>6, <1>7 DEF LoadsOwn
<1>12. NoLeak'
  <2>1. EachOwned
    BY <1>0, OwnedBy
  <2>2. EachOwned'
    BY <2>1, <1>1, <1>2, <1>5, <1>6, <1>7 DEF EachOwned
  <2> QED BY <2>2, <1>4, OwnedByNext
<1>13. Nested'
  <2>1. stack'[1].id = 0
    <3>1. 1 \in 1 .. n /\ stack # <<>>
      BY <1>0, <1>2, LoadsTyped
    <3> QED BY <3>1, <1>0, <1>6 DEF Nested
  <2>2. ASSUME NEW i \in 2 .. n
        PROVE  LET x == stack'[i].id
               IN  /\ x \in Ids /\ files[x] # NULL
                   /\ stack'[i].date = files[x].date
                   /\ stack'[i].date <= stack'[i - 1].date
                   /\ x \in stack'[i - 1].todo /\ ~UpToDate(x)
                   /\ stack'[i].todo \subseteq files[x].deps
                   /\ \A d \in files[x].deps \ stack'[i].todo : UpToDate(d)
    <3>1. /\ i \in 1 .. n /\ i - 1 \in 1 .. n /\ i - 1 # n
      BY <1>2
    <3>2. stack'[i - 1] = stack[i - 1]
      BY <3>1, <1>4 DEF Relocated
    <3> QED BY <3>1, <3>2, <1>0, <1>2, <1>4, <1>6 DEF Nested
  <2> QED BY <2>1, <2>2, <1>1, <1>5, <1>8 DEF Nested
<1>14. LinksHeld'
  <2> SUFFICES ASSUME NEW i \in 1 .. n, NEW l \in blocks'[stack'[i].base].links
               PROVE  /\ UpToDate(l[1]) /\ l[2] = lib_cache[l[1]].base
                      /\ lib_cache[l[1]].build_date <= stack'[i].date
    BY <1>1, <1>5, <1>8 DEF LinksHeld
  <2>1. CASE l \in blocks[stack[i].base].links
    BY <2>1, <1>0, <1>2, <1>6 DEF LinksHeld
  <2>2. CASE l \notin blocks[stack[i].base].links
    <3>1. stack[i].base = stack[n].base /\ l = <<id, base>>
      BY <2>2, <1>0, <1>2, <1>5, <1>6, <1>7 DEF LoadsOwn
    <3>2. i = n
      BY <3>1, <1>0, <1>2 DEF LoadsOwn
    <3> QED BY <3>1, <3>2, <1>3, <1>4, <1>6
  <2> QED BY <2>1, <2>2
<1>15. NeverUpdated'
  <2> SUFFICES ASSUME installs = 0, NEW a \in Addr, blocks'[a] # NULL,
                      NEW l \in blocks'[a].links
               PROVE  l[2] # NULL /\ l[2] = lib_cache[l[1]].base
    BY <1>0, <1>1, <1>8 DEF NeverUpdated
  <2>1. CASE l \in blocks[a].links
    BY <2>1, <1>0, <1>7 DEF NeverUpdated
  <2>2. CASE l \notin blocks[a].links
    BY <2>2, <1>3, <1>7, BfltAssumption
  <2> QED BY <2>1, <2>2
<1> QED BY <1>4, <1>9, <1>10, <1>11, <1>12, <1>13, <1>14, <1>15 DEF IInv

----------------------------------------------------------------------------
(***************************************************************************)
(* A library is complete.  It replaces the stale version in the cache,     *)
(* which nothing in progress links to, and the outer load links to it.     *)
(***************************************************************************)

\* The innermost load is the only one of its library: an outer one would wait
\* for a load that is not up to date, and all the innermost one waited for is.
LEMMA LoadedOnce ==
    ASSUME IInv, Top.todo = {}, NEW i \in 2 .. Len(stack), stack[i].id = Top.id
    PROVE  i = Len(stack)
<1>0. TypeOK /\ Nested
  BY DEF IInv
<1>1. PICK n \in Nat : n = Len(stack) /\ Top = stack[n]
  BY <1>0, LoadsTyped DEF Top
<1> SUFFICES ASSUME i # n PROVE FALSE
  BY <1>1
<1>2. i \in 2 .. n /\ n \in 2 .. n /\ i + 1 \in 2 .. n /\ (i + 1) - 1 = i
  BY <1>1
<1>3. stack[i + 1].id \in stack[i].todo /\ ~UpToDate(stack[i + 1].id)
  BY <1>0, <1>1, <1>2 DEF Nested
<1>4. stack[i].todo \subseteq files[stack[i].id].deps
  BY <1>0, <1>1, <1>2 DEF Nested
<1>5. \A d \in files[stack[n].id].deps : UpToDate(d)
  BY <1>0, <1>1, <1>2 DEF Nested
<1> QED BY <1>1, <1>3, <1>4, <1>5

LEMMA Completed ==
    ASSUME IInv, FinishLibrary
    PROVE  LET n == Len(stack) - 1
               base == stack[n + 1].base
               id == stack[n + 1].id
               stale == lib_cache[id].base
           IN  /\ n \in 1 .. Len(stack) /\ id \in Ids
               /\ stale # base /\ stale # stack[n].base /\ stack[n].base # base
               /\ Relocated(stack, n, id, base)
               /\ \A a \in Addr : a # stack[n].base /\ a # stale => blocks'[a] = blocks[a]
               /\ stale \in Addr => blocks'[stale] = NULL
               /\ lib_cache'[id].base = base
               /\ lib_cache'[id].build_date = stack[n + 1].date
               /\ \A x \in Ids : x # id => lib_cache'[x] = lib_cache[x]
               /\ TypeOK'
<1>0. TypeOK /\ LoadsOwn /\ Nested
  BY DEF IInv
<1>1. PICK n \in Nat : n + 1 = Len(stack) /\ n = Len(stack) - 1 /\ n # 0
  <2>1. Len(stack) \in Nat /\ Len(stack) > 1
    BY <1>0, LoadsTyped DEF FinishLibrary
  <2> QED BY <2>1
<1>2. n \in 1 .. Len(stack) /\ n + 1 \in 2 .. Len(stack) /\ n + 1 \in 1 .. Len(stack)
  BY <1>1
<1>3. PICK f \in Load : f = stack[n] /\ f.base \in Addr
  BY <1>0, <1>2, LoadsTyped
<1>4. PICK t \in Load : t = stack[n + 1] /\ t = Top /\ t.base \in Addr /\ t.date \in Dates
  BY <1>0, <1>1, <1>2, LoadsTyped DEF Top
<1>5. t.id \in Ids
  BY <1>0, <1>2, <1>4 DEF Nested
<1>6. PICK stale : stale = lib_cache[t.id].base
  OBVIOUS
<1>7. stale # t.base /\ stale # f.base /\ f.base # t.base
  <2>1. /\ \A x \in Ids : stack[n].base # lib_cache[x].base
        /\ \A x \in Ids : stack[n + 1].base # lib_cache[x].base
    BY <1>0, <1>2 DEF LoadsOwn
  <2>2. n # n + 1 /\ stack[n].base # stack[n + 1].base
    BY <1>0, <1>2 DEF LoadsOwn
  <2> QED BY <2>1, <2>2, <1>3, <1>4, <1>5, <1>6
<1>8. PICK b \in Block : b = blocks[f.base]
  BY <1>0, <1>2, <1>3 DEF LoadsOwn, TypeOK
<1>9. PICK c : c = [b EXCEPT !.links = @ \cup {<<t.id, t.base>>}]
  OBVIOUS
<1>10. /\ c \in Block /\ c # NULL /\ c.id = b.id /\ c.date = b.date
       /\ c.links = b.links \cup {<<t.id, t.base>>}
  BY <1>4, <1>5, <1>9, WithLink
<1>11. PICK g : g = [f EXCEPT !.todo = @ \ {t.id}]
  OBVIOUS
<1>12. /\ g \in Load /\ g.id = f.id /\ g.base = f.base /\ g.date = f.date
       /\ g.todo = f.todo \ {t.id}
  BY <1>11, WithoutTodo
<1>13. PICK freed : freed = [a \in Addr |-> IF a = stale THEN NULL ELSE blocks[a]]
  OBVIOUS
<1>14. PICK front : front = SubSeq(stack, 1, n)
  OBVIOUS
<1>15. /\ front \in Seq(Load) /\ Len(front) = n
       /\ \A k \in 1 .. n : front[k] = stack[k]
  <2>1. stack \in Seq(Load)
    BY <1>0 DEF TypeOK
  <2> QED BY <2>1, <1>1, <1>14
<1>16. freed[f.base] = b
  BY <1>3, <1>7, <1>8, <1>13
<1>17. front[n] = f
  BY <1>1, <1>3, <1>15
<1>18. Front(stack) = front /\ stack[Len(stack) - 1] = f /\ Len(stack) - 1 = n
  BY <1>1, <1>3, <1>14 DEF Front
<1>19. /\ blocks' = [freed EXCEPT ![f.base] = c]
       /\ stack' = [front EXCEPT ![n] = g]
       /\ lib_cache' = [lib_cache EXCEPT ![t.id] = [base |-> t.base, build_date |-> t.date]]
       /\ UNCHANGED <<files, installs, running>>
  <2>1. blocks' = [freed EXCEPT ![f.base].links = @ \cup {<<t.id, t.base>>}]
    BY <1>4, <1>6, <1>13, <1>18 DEF FinishLibrary
  <2>2. stack' = [front EXCEPT ![n].todo = @ \ {t.id}]
    BY <1>4, <1>18 DEF FinishLibrary
  <2>3. /\ lib_cache' = [lib_cache EXCEPT ![t.id] = [base |-> t.base, build_date |-> t.date]]
        /\ UNCHANGED <<files, installs, running>>
    BY <1>4 DEF FinishLibrary
  <2> QED BY <2>1, <2>2, <2>3, <1>9, <1>11, <1>16, <1>17
<1>20. freed \in [Addr -> Block \cup {NULL}]
  BY <1>0, <1>13 DEF TypeOK
<1>21. /\ blocks' \in [Addr -> Block \cup {NULL}] /\ blocks'[f.base] = c
       /\ \A a \in Addr : a # f.base /\ a # stale => blocks'[a] = blocks[a]
       /\ stale \in Addr => blocks'[stale] = NULL
  BY <1>3, <1>7, <1>10, <1>13, <1>19, <1>20
<1>22. /\ stack' \in Seq(Load) /\ Len(stack') = n /\ stack'[n] = g
       /\ \A k \in 1 .. n : k # n => stack'[k] = stack[k]
  <2>1. n \in 1 .. Len(front) /\ g \in Load /\ front \in Seq(Load)
    BY <1>1, <1>12, <1>15
  <2>2. /\ [front EXCEPT ![n] = g] \in Seq(Load) /\ Len([front EXCEPT ![n] = g]) = n
        /\ [front EXCEPT ![n] = g][n] = g
        /\ \A k \in 1 .. n : k # n => [front EXCEPT ![n] = g][k] = front[k]
    BY <2>1, <1>15, ReplacedLoad
  <2> QED BY <2>2, <1>15, <1>19
<1>23. /\ lib_cache' \in [Ids -> [base: Addr, build_date: Dates] \cup {NoLib}]
       /\ lib_cache'[t.id].base = t.base /\ lib_cache'[t.id].build_date = t.date
       /\ \A x \in Ids : x # t.id => lib_cache'[x] = lib_cache[x]
  BY <1>0, <1>4, <1>5, <1>19 DEF TypeOK
<1>24. TypeOK'
  BY <1>0, <1>19, <1>21, <1>22, <1>23 DEF TypeOK
<1>25. Relocated(stack, n, t.id, t.base)
  BY <1>3, <1>8, <1>10, <1>12, <1>21, <1>22 DEF Relocated
<1> QED BY <1>1, <1>2, <1>3, <1>4, <1>5, <1>6, <1>7, <1>21, <1>23, <1>24, <1>25

LEMMA FinishLibraryInv ==
    ASSUME IInv, FinishLibrary
    PROVE  IInv'
<1>0. /\ TypeOK /\ CacheOwns /\ RunningOwn /\ LoadsOwn /\ NoLeak
      /\ Nested /\ LinksHeld /\ NeverUpdated
  BY DEF IInv
<1>1. UNCHANGED <<files, installs, running>> /\ Top.todo = {}
  BY DEF FinishLibrary
<1>2. PICK n \in Nat : n = Len(stack) - 1
  <2>1. Len(stack) \in Nat /\ Len(stack) > 1
    BY <1>0, LoadsTyped DEF FinishLibrary
  <2> QED BY <2>1
<1>3. PICK base : base = stack[n + 1].base
  OBVIOUS
<1>4. PICK id : id = stack[n + 1].id
  OBVIOUS
<1>5. PICK stale : stale = lib_cache[id].base
  OBVIOUS
<1>6. /\ n \in 1 .. Len(stack) /\ id \in Ids
      /\ stale # base /\ stale # stack[n].base /\ stack[n].base # base
      /\ Relocated(stack, n, id, base)
      /\ \A a \in Addr : a # stack[n].base /\ a # stale => blocks'[a] = blocks[a]
      /\ stale \in Addr => blocks'[stale] = NULL
      /\ lib_cache'[id].base = base /\ lib_cache'[id].build_date = stack[n + 1].date
      /\ \A x \in Ids : x # id => lib_cache'[x] = lib_cache[x]
      /\ TypeOK'
  BY <1>2, <1>3, <1>4, <1>5, Completed
<1>7. /\ Len(stack) = n + 1 /\ n + 1 \in 1 .. n + 1 /\ Len(stack') = n
      /\ \A i \in 1 .. n : i \in 1 .. n + 1 /\ i # n + 1
      /\ n \in 1 .. n
  BY <1>0, <1>2, <1>6, LoadsTyped DEF Relocated
<1>8. base \in Addr /\ base # NULL /\ \A i \in 1 .. n : stack[i].base \in Addr
  BY <1>0, <1>3, <1>7, LoadsTyped, BfltAssumption
<1>9. n + 1 \in 2 .. n + 1 /\ Top = stack[n + 1]
  BY <1>7 DEF Top
<1>10. /\ files[id] # NULL /\ stack[n + 1].date = files[id].date
       /\ stack[n + 1].date <= stack[n].date /\ ~UpToDate(id)
  BY <1>0, <1>4, <1>7, <1>9 DEF Nested
<1>11. \A i \in 1 .. n : /\ stack'[i].id = stack[i].id /\ stack'[i].base = stack[i].base
                         /\ stack'[i].date = stack[i].date
                         /\ stack'[i].todo \subseteq stack[i].todo
                         /\ stack[i].todo \subseteq stack'[i].todo \cup {id}
  BY <1>6 DEF Relocated
<1>12. /\ blocks[base] # NULL /\ blocks[base].id = id
       /\ blocks[base].date = stack[n + 1].date
       /\ \A x \in Ids : base # lib_cache[x].base
       /\ \A j \in 1 .. Len(running) : base # running[j]
       /\ \A i \in 1 .. n : stack[i].base # base
  BY <1>0, <1>3, <1>4, <1>7 DEF LoadsOwn
<1>13. /\ \A a \in Addr : a # stale =>
            /\ (blocks'[a] # NULL) <=> (blocks[a] # NULL)
            /\ blocks[a] # NULL =>
                 /\ blocks'[a].id = blocks[a].id /\ blocks'[a].date = blocks[a].date
                 /\ \A l \in blocks'[a].links :
                       l \in blocks[a].links \/ (a = stack[n].base /\ l = <<id, base>>)
  <2>1. blocks[stack[n].base] # NULL
    BY <1>0, <1>6 DEF LoadsOwn
  <2> QED BY <2>1, <1>6 DEF Relocated
\* The stale version belongs to the cache alone, and under one name.
<1>14. ASSUME stale # NULL
       PROVE  /\ stale \in Addr
              /\ \A x \in Ids : x # id => lib_cache[x].base # stale
              /\ \A i \in 1 .. n : stack[i].base # stale
              /\ \A j \in 1 .. Len(running) : running[j] # stale
  <2>1. stale \in Addr /\ blocks[stale] # NULL /\ blocks[stale].id = id
    BY <1>0, <1>5, <1>6, <1>14, CacheTyped DEF CacheOwns
  <2>2. \A x \in Ids : x # id => lib_cache[x].base # stale
    BY <2>1, <1>0, <1>14 DEF CacheOwns
  <2>3. \A i \in 1 .. n : stack[i].base # stale
    BY <1>0, <1>5, <1>6, <1>7 DEF LoadsOwn
  <2>4. \A j \in 1 .. Len(running) : running[j] # stale
    BY <2>1, <1>0, <1>6, BfltAssumption DEF RunningOwn
  <2> QED BY <2>1, <2>2, <2>3, <2>4
<1>15. \A i \in 1 .. n : stack[i].base # stale
  BY <1>8, <1>14, BfltAssumption
<1>16. \A j \in 1 .. Len(running) : running[j] # stale /\ running[j] \in Addr
  BY <1>0, <1>14, LoadsTyped, BfltAssumption
<1>17. \A x \in Ids : UpToDate(x)' <=> UpToDate(x) \/ x = id
  BY <1>1, <1>6, <1>8, <1>10 DEF UpToDate
<1>18. CacheOwns'
  <2> SUFFICES ASSUME NEW x \in Ids, lib_cache'[x].base # NULL
               PROVE  LET b == blocks'[lib_cache'[x].base]
                      IN  b # NULL /\ b.id = x /\ b.date = lib_cache'[x].build_date
    BY DEF CacheOwns
  <2>1. CASE x = id
    BY <2>1, <1>6, <1>8, <1>12, <1>13
  <2>2. CASE x # id
    <3>1. lib_cache'[x] = lib_cache[x] /\ lib_cache[x].base \in Addr
      BY <2>2, <1>0, <1>6, CacheTyped
    <3>2. lib_cache[x].base # stale
      BY <2>2, <3>1, <1>14, BfltAssumption
    <3> QED BY <3>1, <3>2, <1>0, <1>13, BfltAssumption DEF CacheOwns
  <2> QED BY <2>1, <2>2
<1>19. RunningOwn'
  <2> SUFFICES ASSUME NEW i \in 1 .. Len(running)
               PROVE  blocks'[running[i]] # NULL /\ blocks'[running[i]].id = 0
    BY <1>0, <1>1 DEF RunningOwn
  <2> QED BY <1>0, <1>13, <1>16 DEF RunningOwn
<1>20. LoadsOwn'
  <2> SUFFICES ASSUME NEW i \in 1 .. n
               PROVE  /\ blocks'[stack'[i].base] # NULL
                      /\ blocks'[stack'[i].base].id = stack'[i].id
                      /\ blocks'[stack'[i].base].date = stack'[i].date
                      /\ \A j \in 1 .. n : i # j => stack'[i].base # stack'[j].base
                      /\ \A x \in Ids : stack'[i].base # lib_cache'[x].base
                      /\ \A j \in 1 .. Len(running) : stack'[i].base # running[j]
    BY <1>1, <1>7 DEF LoadsOwn
  <2>1. /\ blocks[stack[i].base] # NULL
        /\ blocks[stack[i].base].id = stack[i].id
        /\ blocks[stack[i].base].date = stack[i].date
        /\ \A j \in 1 .. n : i # j => stack[i].base # stack[j].base
        /\ \A x \in Ids : stack[i].base # lib_cache[x].base
        /\ \A j \in 1 .. Len(running) : stack[i].base # running[j]
    BY <1>0, <1>7 DEF LoadsOwn
  <2>2. \A x \in Ids : stack[i].base # lib_cache'[x].base
    BY <2>1, <1>6, <1>12
  <2> QED BY <2>1, <2>2, <1>8, <1>11, <1>13, <1>15
<1>21. NoLeak'
  <2>1. EachOwned
    BY <1>0, OwnedBy
  <2>2. ASSUME NEW a \in Addr
        PROVE  blocks'[a] # NULL <=>
                 \/ \E x \in Ids : lib_cache'[x].base = a
                 \/ \E i \in 1 .. Len(running) : running[i] = a
                 \/ \E i \in 1 .. n : stack'[i].base = a
    <3>1. CASE a = stale
      <4>1. blocks'[a] = NULL
        BY <3>1, <1>6
      <4>2. \A x \in Ids : lib_cache'[x].base # a
        BY <3>1, <1>6, <1>14, BfltAssumption
      <4> QED BY <4>1, <4>2, <3>1, <1>11, <1>15, <1>16
    <3>2. CASE a # stale
      <4>1. (\E x \in Ids : lib_cache'[x].base = a)
               <=> a = base \/ \E x \in Ids : lib_cache[x].base = a
        BY <3>2, <1>5, <1>6
      <4>2. (\E i \in 1 .. n + 1 : stack[i].base = a)
               <=> a = base \/ \E i \in 1 .. n : stack'[i].base = a
        <5>1. \A i \in 1 .. n + 1 : i = n + 1 \/ i \in 1 .. n
          BY <1>7
        <5> QED BY <5>1, <1>3, <1>7, <1>11
      <4> QED BY <4>1, <4>2, <3>2, <2>1, <1>7, <1>13 DEF EachOwned
    <3> QED BY <3>1, <3>2
  <2>3. EachOwned'
    BY <2>2, <1>1, <1>7 DEF EachOwned
  <2> QED BY <2>3, <1>6, OwnedByNext
<1>22. Nested'
  <2>1. stack'[1].id = 0
    <3>1. 1 \in 1 .. n /\ stack # <<>>
      BY <1>0, <1>7, LoadsTyped
    <3> QED BY <3>1, <1>0, <1>11 DEF Nested
  <2>2. ASSUME NEW i \in 2 .. n
        PROVE  LET x == stack'[i].id
               IN  /\ x \in Ids /\ files[x] # NULL
                   /\ stack'[i].date = files[x].date
                   /\ stack'[i].date <= stack'[i - 1].date
                   /\ x \in stack'[i - 1].todo /\ ~UpToDate(x) /\ x # id
                   /\ stack'[i].todo \subseteq files[x].deps
                   /\ \A d \in files[x].deps \ stack'[i].todo :
                         d \in Ids /\ (UpToDate(d) \/ d = id)
    <3>1. /\ i \in 1 .. n /\ i - 1 \in 1 .. n /\ i - 1 # n
          /\ i \in 2 .. Len(stack) /\ i # Len(stack)
      BY <1>7
    <3>2. stack'[i - 1] = stack[i - 1]
      BY <3>1, <1>6 DEF Relocated
    <3>3. PICK x : x = stack[i].id
      OBVIOUS
    <3>4. /\ x \in Ids /\ files[x] # NULL
          /\ stack[i].date = files[x].date
          /\ stack[i].date <= stack[i - 1].date
          /\ x \in stack[i - 1].todo /\ ~UpToDate(x)
          /\ stack[i].todo \subseteq files[x].deps
          /\ \A d \in files[x].deps \ stack[i].todo : UpToDate(d)
      BY <3>1, <3>3, <1>0 DEF Nested
    <3>5. x # id
      BY <3>1, <3>3, <1>1, <1>4, <1>9, LoadedOnce
    <3>6. files[x].deps \subseteq Ids
      BY <3>4, <1>0, CacheTyped
    <3> QED BY <3>1, <3>2, <3>3, <3>4, <3>5, <3>6, <1>11
  <2>3. \A x \in Ids : (/\ files'[x] # NULL /\ lib_cache'[x].base # NULL
                       /\ lib_cache'[x].build_date = files'[x].date)
                     <=> UpToDate(x) \/ x = id
    BY <1>17 DEF UpToDate
  <2>4. ASSUME NEW i \in 2 .. n
        PROVE  LET x == stack'[i].id
               IN  /\ x \in Ids /\ files'[x] # NULL
                   /\ stack'[i].date = files'[x].date
                   /\ stack'[i].date <= stack'[i - 1].date
                   /\ x \in stack'[i - 1].todo
                   /\ ~(/\ files'[x] # NULL /\ lib_cache'[x].base # NULL
                        /\ lib_cache'[x].build_date = files'[x].date)
                   /\ stack'[i].todo \subseteq files'[x].deps
                   /\ \A d \in files'[x].deps \ stack'[i].todo :
                         /\ files'[d] # NULL /\ lib_cache'[d].base # NULL
                         /\ lib_cache'[d].build_date = files'[d].date
    BY <2>2, <2>3, <1>1
  <2> QED BY <2>1, <2>4, <1>7 DEF Nested, UpToDate
<1>23. LinksHeld'
  <2> SUFFICES ASSUME NEW i \in 1 .. n, NEW l \in blocks'[stack'[i].base].links
               PROVE  /\ UpToDate(l[1])' /\ l[2] = lib_cache'[l[1]].base
                      /\ lib_cache'[l[1]].build_date <= stack'[i].date
    BY <1>7 DEF LinksHeld
  <2>1. CASE l \in blocks[stack[i].base].links
    <3>1. /\ UpToDate(l[1]) /\ l[2] = lib_cache[l[1]].base
          /\ lib_cache[l[1]].build_date <= stack[i].date
      BY <2>1, <1>0, <1>7 DEF LinksHeld
    <3>2. l[1] \in Ids
      <4>1. blocks[stack[i].base] # NULL
        BY <1>0, <1>7 DEF LoadsOwn
      <4> QED BY <2>1, <4>1, <1>0, <1>8, LinkOf
    <3> QED BY <3>1, <3>2, <1>6, <1>10, <1>11, <1>17
  <2>2. CASE l \notin blocks[stack[i].base].links
    <3>1. blocks[stack[i].base] # NULL
      BY <1>0, <1>7 DEF LoadsOwn
    <3>2. stack[i].base = stack[n].base /\ l = <<id, base>>
      BY <2>2, <3>1, <1>8, <1>11, <1>13, <1>15
    <3>3. i = n
      BY <3>2, <1>0, <1>7 DEF LoadsOwn
    <3> QED BY <3>2, <3>3, <1>6, <1>10, <1>11, <1>17
  <2> QED BY <2>1, <2>2
<1>24. NeverUpdated'
  <2> SUFFICES ASSUME installs = 0
               PROVE  /\ \A x \in Ids : lib_cache'[x].base # NULL => UpToDate(x)'
                      /\ \A a \in Addr : blocks'[a] # NULL =>
                            \A l \in blocks'[a].links :
                               l[2] # NULL /\ l[2] = lib_cache'[l[1]].base
    BY <1>1 DEF NeverUpdated
  <2>1. stale = NULL
    BY <1>0, <1>5, <1>6, <1>10 DEF NeverUpdated
  <2>2. \A x \in Ids : lib_cache'[x].base # NULL => UpToDate(x)'
    BY <1>0, <1>6, <1>17 DEF NeverUpdated
  <2>3. ASSUME NEW a \in Addr, blocks'[a] # NULL, NEW l \in blocks'[a].links
        PROVE  l[2] # NULL /\ l[2] = lib_cache'[l[1]].base
    <3>1. blocks[a] # NULL
      BY <2>1, <2>3, <1>13, BfltAssumption
    <3>2. CASE l \in blocks[a].links
      <4>1. l[2] # NULL /\ l[2] = lib_cache[l[1]].base /\ l[1] \in Ids
        BY <3>1, <3>2, <1>0, LinkOf DEF NeverUpdated
      <4>2. l[1] # id
        BY <4>1, <2>1, <1>5
      <4> QED BY <4>1, <4>2, <1>6
    <3>3. CASE l \notin blocks[a].links
      BY <3>1, <3>3, <2>1, <1>6, <1>8, <1>13, BfltAssumption
    <3> QED BY <3>2, <3>3
  <2> QED BY <2>2, <2>3
<1> QED BY <1>6, <1>18, <1>19, <1>20, <1>21, <1>22, <1>23, <1>24 DEF IInv

----------------------------------------------------------------------------
(***************************************************************************)
(* The invariant, and what follows from it.                                *)
(***************************************************************************)

LEMMA StepInv == IInv /\ [Next]_vars => IInv'
<1> SUFFICES ASSUME IInv, [Next]_vars PROVE IInv'
  OBVIOUS
<1>1. ASSUME NEW id \in Ids, NEW file \in File \cup {NULL}, Install(id, file) PROVE IInv'
  BY <1>1, InstallInv
<1>2. ASSUME NEW file \in File, LoadProgram(file) PROVE IInv'
  BY <1>2, BeginInv DEF LoadProgram
<1>3. ASSUME NEW id \in Ids, LinkCached(id) PROVE IInv'
  BY <1>3, LinkCachedInv
<1>4. ASSUME NEW id \in Ids, Refuse(id) PROVE IInv'
  BY <1>4, FailInv DEF Refuse
<1>5. ASSUME NEW id \in Ids, LoadLibrary(id) PROVE IInv'
  <2>1. /\ stack # <<>> /\ id \in Top.todo
        /\ files[id] # NULL /\ ~Cached(id, Top.date) /\ files[id].date <= Top.date
        /\ Begin(id, files[id])
    BY <1>5 DEF LoadLibrary
  <2>2. ~UpToDate(id)
    BY <2>1 DEF Cached, UpToDate
  <2>3. files[id] \in File
    BY <2>1 DEF IInv, TypeOK
  <2> QED BY <2>1, <2>2, <2>3, BeginInv
<1>6. CASE GiveUp
  BY <1>6, FailInv DEF GiveUp
<1>7. CASE FinishLibrary
  BY <1>7, FinishLibraryInv
<1>8. CASE FinishProgram
  BY <1>8, FinishProgramInv
<1>9. CASE End
  BY <1>9, EndInv
<1>10. CASE UNCHANGED vars
  <2>1. /\ TypeOK /\ CacheOwns /\ RunningOwn /\ LoadsOwn /\ NoLeak
        /\ Nested /\ LinksHeld /\ NeverUpdated
    BY DEF IInv
  <2>2. UNCHANGED <<files, installs, blocks, lib_cache, stack, running>>
    BY <1>10 DEF vars
  <2>3. TypeOK' /\ CacheOwns' /\ RunningOwn' /\ LoadsOwn'
    BY <2>1, <2>2 DEF TypeOK, CacheOwns, RunningOwn, LoadsOwn
  <2>4. NoLeak' /\ Nested' /\ LinksHeld' /\ NeverUpdated'
    BY <2>1, <2>2 DEF NoLeak, Allocated, CacheBlocks, Nested, LinksHeld, NeverUpdated, UpToDate
  <2> QED BY <2>3, <2>4 DEF IInv
<1> QED BY <1>1, <1>2, <1>3, <1>4, <1>5, <1>6, <1>7, <1>8, <1>9, <1>10 DEF Next, LoadStep

LEMMA SpecInv == Spec => []IInv
BY InitInv, StepInv, PTL DEF Spec

\* The files, the blocks, the cache, the loads and the programs keep their
\* types: no null pointer is linked to, loaded into or run.
THEOREM BfltTypes == Spec => []TypeOK
<1>1. IInv => TypeOK
  BY DEF IInv
<1> QED BY <1>1, SpecInv, PTL

\* A load that fails frees the blocks of all the loads it is nested in, and a
\* library that replaces a stale one frees its block: every block that is
\* allocated is a cached library, a program that runs or a load in progress.
THEOREM EveryBlockIsOwned == Spec => []NoLeak
<1>1. IInv => NoLeak
  BY DEF IInv
<1> QED BY <1>1, SpecInv, PTL

\* A load in progress links to the libraries its files hold, and the loads
\* nested in it take none of them away, whatever libraries need each other.
THEOREM LoadsLinkToCurrentLibraries == Spec => []LinksCurrent
BY InvGivesLinksCurrent, SpecInv, PTL

\* As long as no library file is replaced, every image that is loaded links to
\* blocks that hold the libraries it asked for.
THEOREM LinksLiveUntilUpdate == Spec => []LiveUntilUpdate
BY InvGivesLiveUntilUpdate, SpecInv, PTL
=============================================================================
