------------------------------- MODULE OsFile -------------------------------
(***************************************************************************)
(* The part of the installer that makes Ndless survive a reboot:           *)
(* persistent() of src/Ndless/trunk/arm/install.c inserts the installer as *)
(* an entry of the OS file, an archive, before its entry "boot2.cer",      *)
(* replaces the entry of another release, or removes it.  There is no room *)
(* for a copy of the file: its end is shifted in place, a chunk at a time. *)
(*                                                                         *)
(* A file is a sequence of cells of the same size.  The first cell of an   *)
(* entry is its local file header.  Between two steps and within a write   *)
(* the power may fail, or a file operation may, which panics and reboots.  *)
(***************************************************************************)
EXTENDS Integers, Sequences

CONSTANTS
    Versions,     \* the releases of Ndless
    PatchSize,    \* patch_data_size of each of them, in cells
    Before,       \* how many cells the OS has before boot2.cer
    Afters,       \* how many it may have from there on
    CHUNK_SIZE,   \* how many cells are moved at a time
    TemplateSize, \* the size in zipped_file_header, before it is patched
    MaxCrashes    \* how often a call is interrupted (bound)

NoVersion == "none"

ASSUME OsFileAssumption ==
    /\ NoVersion \notin Versions
    /\ PatchSize \in [Versions -> Nat \ {0}]
    /\ Before \in Nat
    /\ Afters \subseteq Nat \ {0}
    /\ CHUNK_SIZE \in Nat \ {0}
    /\ TemplateSize \in Nat
    /\ MaxCrashes \in Nat

VARIABLES
    file,       \* TI-Nspire.tnc
    shift_buf,
    call,       \* the locals of the call of persistent() in progress
    os,         \* the OS, as its file is shipped
    installed,  \* history: the release that persistent() has installed last
    crashes,    \* history: how many calls have been interrupted
    torn        \* history: a write that may lose a part of the OS was cut short

vars == <<file, shift_buf, call, os, installed, crashes, torn>>

OsCell(k)      == <<"os", k>>
Header(size)   == <<"ndless", size>>
DataCell(v, k) == <<"data", v, k>>
Boot2          == <<"boot2">>    \* a header of Ndless's that has boot2.cer's name
Gap            == <<"gap">>      \* what a write beyond the end leaves behind

\* What persistent() may be doing.
Idle == [at |-> "idle"]

Init ==
    /\ \E n \in Afters : os = [k \in 1 .. Before + n |-> OsCell(k)]
    /\ file = os
    /\ shift_buf = <<>>
    /\ call = Idle
    /\ installed = NoVersion
    /\ crashes = 0
    /\ torn = FALSE

----------------------------------------------------------------------------
(***************************************************************************)
(* Files.  Offsets count from 0, as those of fseek().                      *)
(***************************************************************************)

\* fread() of n cells at an offset: fewer at the end of the file.
Read(offset, n) ==
    SubSeq(file, offset + 1, IF offset + n < Len(file) THEN offset + n ELSE Len(file))

\* fwrite() of cells at an offset.
Write(offset, cells) ==
    LET end == IF offset + Len(cells) > Len(file) THEN offset + Len(cells) ELSE Len(file)
    IN  file' = [i \in 1 .. end |->
                    IF i \in offset + 1 .. offset + Len(cells) THEN cells[i - offset]
                    ELSE IF i \in DOMAIN file THEN file[i] ELSE Gap]

\* The size of an entry of Ndless: its header and its payload.
EntrySize(v) == 1 + PatchSize[v]

\* The entry found where boot2.cer is looked for: Ndless's, of this size, or
\* boot2.cer's itself (0).
AtDest == IF Before < Len(file) THEN file[Before + 1] ELSE Gap
EntryFound == IF AtDest[1] = "ndless" THEN 1 + AtDest[2] ELSE 0
GoodFormat == AtDest[1] = "ndless" \/ AtDest \in {OsCell(Before + 1), Boot2}

\* The header is 26 bytes, without the name, which stays that of the cell it
\* overwrites until the payload is written; what was no header is none then.
Named(cell, size) == CASE cell[1] = "ndless"                   -> Header(size)
                       [] cell \in {OsCell(Before + 1), Boot2} -> Boot2
                       [] OTHER                                -> cell

\* The entry of a release: its name is at the begin of the payload.
PkFile(v) == <<Header(PatchSize[v])>> \o [k \in 1 .. PatchSize[v] |-> DataCell(v, k)]

----------------------------------------------------------------------------
(***************************************************************************)
(* persistent(), step by step.                                             *)
(***************************************************************************)

Goes(at) == call' = [call EXCEPT !.at = at]

Done(v) == call' = Idle /\ installed' = v /\ shift_buf' = <<>>

\* The search is over: the locals that the rest of the call works on.  In a
\* file of any other format, and in one to extend that is shorter than a chunk,
\* it panics (Refuse), having changed nothing.
Begin(at, v, by, curpos) ==
    /\ call = Idle
    /\ GoodFormat
    /\ call' = [at |-> at, v |-> v, by |-> by, curpos |-> curpos]
    /\ UNCHANGED <<file, shift_buf, os, installed, crashes, torn>>

Refuse == /\ call = Idle
          /\ ~GoodFormat \/ Len(file) < CHUNK_SIZE
          /\ UNCHANGED vars

\* main(), Ndless sent over USB: persistent(FALSE).
Install(v) ==
    LET new     == EntrySize(v)
        current == EntryFound
    IN  \/ /\ new < current
           /\ Begin("shrink", v, current - new, Before + current - new)
        \/ /\ new > current /\ CHUNK_SIZE <= Len(file)
           /\ Begin("extend", v, new - current, Len(file) - CHUNK_SIZE)
        \/ /\ new = current
           /\ Begin("header", v, 0, 0)

\* main(), ndless_resources run by a user of Ndless: persistent(TRUE).
Uninstall ==
    /\ EntryFound # 0
    /\ Begin("shrink", NoVersion, EntryFound, Before + EntryFound)

\* Reducing the file: the content is shifted towards its start.
ShrinkRead ==
    /\ call.at = "shrink"
    /\ shift_buf' = Read(call.curpos, CHUNK_SIZE)
    /\ Goes("shrinkwrite")
    /\ UNCHANGED <<file, os, installed, crashes, torn>>

\* Variant: a chunk that fills the buffer is taken for the last one.
ShrinkWriteOnce ==
    /\ call.at = "shrinkwrite"
    /\ Write(call.curpos - call.by, shift_buf)
    /\ Goes("truncate")
    /\ UNCHANGED <<shift_buf, os, installed, crashes, torn>>

\* Variant: the loop never finds the end of the file.
ShrinkWriteForever ==
    /\ call.at = "shrinkwrite"
    /\ Write(call.curpos - call.by, shift_buf)
    /\ call' = [call EXCEPT !.at = "shrink",
                            !.curpos = IF @ < Len(file) THEN @ + CHUNK_SIZE ELSE @]
    /\ UNCHANGED <<shift_buf, os, installed, crashes, torn>>

ShrinkWrite ==
    /\ call.at = "shrinkwrite"
    /\ Write(call.curpos - call.by, shift_buf)
    /\ call' = IF Len(shift_buf) = CHUNK_SIZE
               THEN [call EXCEPT !.at = "shrink", !.curpos = @ + CHUNK_SIZE]
               ELSE [call EXCEPT !.at = "truncate"]
    /\ UNCHANGED <<shift_buf, os, installed, crashes, torn>>

\* truncate() panics when there is less than that in the file.
Truncate ==
    /\ call.at = "truncate"
    /\ \/ /\ call.by <= Len(file)
          /\ file' = SubSeq(file, 1, Len(file) - call.by)
          /\ IF call.v = NoVersion THEN Done(NoVersion)
             ELSE Goes("header") /\ UNCHANGED <<shift_buf, installed>>
       \/ /\ call.by > Len(file)
          /\ call' = Idle /\ shift_buf' = <<>>
          /\ UNCHANGED <<file, installed>>
    /\ UNCHANGED <<os, crashes, torn>>

\* Extending the file: the content is shifted towards its end, the last chunk
\* first, and what is left of it before the first whole chunk at last.
\* Variant: what is left is forgotten.
ExtendReadWhole ==
    /\ call.at = "extend"
    /\ IF call.curpos >= Before
       THEN shift_buf' = Read(call.curpos, CHUNK_SIZE) /\ Goes("extendwrite")
       ELSE UNCHANGED shift_buf /\ Goes("header")
    /\ UNCHANGED <<file, os, installed, crashes, torn>>

ExtendRead ==
    /\ call.at = "extend"
    /\ IF call.curpos >= Before
       THEN shift_buf' = Read(call.curpos, CHUNK_SIZE) /\ Goes("extendwrite")
       ELSE LET left == call.curpos + CHUNK_SIZE - Before IN
            IF left # 0
            THEN shift_buf' = Read(Before, left) /\ Goes("extendlast")
            ELSE UNCHANGED shift_buf /\ Goes("header")
    /\ UNCHANGED <<file, os, installed, crashes, torn>>

ExtendWrite ==
    /\ call.at = "extendwrite"
    /\ Write(call.curpos + call.by, shift_buf)
    /\ call' = [call EXCEPT !.at = "extend", !.curpos = @ - CHUNK_SIZE]
    /\ UNCHANGED <<shift_buf, os, installed, crashes, torn>>

ExtendLast ==
    /\ call.at = "extendlast"
    /\ Write(Before + call.by, shift_buf)
    /\ Goes("header")
    /\ UNCHANGED <<shift_buf, os, installed, crashes, torn>>

WriteHeader ==
    /\ call.at = "header"
    /\ Write(Before, <<Named(AtDest, PatchSize[call.v])>>)
    /\ Goes("payload")
    /\ UNCHANGED <<shift_buf, os, installed, crashes, torn>>

WritePayload ==
    /\ call.at = "payload"
    /\ Write(Before, PkFile(call.v))
    /\ Done(call.v)
    /\ UNCHANGED <<os, crashes, torn>>

Step == \/ ShrinkRead \/ ShrinkWrite \/ Truncate
        \/ ExtendRead \/ ExtendWrite \/ ExtendLast
        \/ WriteHeader \/ WritePayload

\* The power fails, or a file operation does and ut_panic() reboots.
Interrupted ==
    /\ call # Idle
    /\ crashes < MaxCrashes
    /\ crashes' = crashes + 1
    /\ call' = Idle
    /\ shift_buf' = <<>>
    /\ UNCHANGED <<os, installed>>

Crash == Interrupted /\ UNCHANGED <<file, torn>>

\* Or it does within fwriteos(), when only the first n of the cells are written.
Partly(offset, cells, n) == Write(offset, SubSeq(cells, 1, n)) /\ Interrupted

CutShrink == /\ call.at = "shrinkwrite"
             /\ \E n \in 1 .. Len(shift_buf) - 1 :
                   Partly(call.curpos - call.by, shift_buf, n)
             /\ UNCHANGED torn

\* A chunk that is moved by less than its size overwrites its own last cells,
\* which are still to be written; and of an entry of Ndless in it, only the
\* begin may be there.
CutExtend ==
    \E n \in 1 .. Len(shift_buf) - 1 :
       /\ \/ call.at = "extendwrite" /\ Partly(call.curpos + call.by, shift_buf, n)
          \/ call.at = "extendlast" /\ Partly(Before + call.by, shift_buf, n)
       /\ torn' = TRUE

\* The header is left with the size it has in the template: if Ndless's name
\* follows, all that comes after it may be taken for the entry.
CutHeader == /\ call.at = "header"
             /\ Write(Before, <<Named(AtDest, TemplateSize)>>)
             /\ Interrupted
             /\ torn' = (torn \/ AtDest[1] = "ndless")

CutPayload == /\ call.at = "payload"
              /\ \E n \in 1 .. PatchSize[call.v] : Partly(Before, PkFile(call.v), n)
              /\ UNCHANGED torn

Next ==
    \/ \E v \in Versions : Install(v)
    \/ Uninstall
    \/ Refuse
    \/ Step
    \/ Crash \/ CutShrink \/ CutExtend \/ CutHeader \/ CutPayload

Spec == Init /\ [][Next]_vars /\ WF_vars(Step)

----------------------------------------------------------------------------
(***************************************************************************)
(* Properties.                                                             *)
(***************************************************************************)

\* The OS file with release v of Ndless in it.
Archive(v) ==
    SubSeq(os, 1, Before)
    \o (IF v = NoVersion THEN <<>> ELSE PkFile(v))
    \o SubSeq(os, Before + 1, Len(os))

\* A call that is not interrupted leaves the whole OS, and the whole of the
\* release it installs just before boot2.cer, whatever the sizes are: a file
\* shifted by more or by less than a chunk, to either side.
WholeWhenDone == call = Idle /\ crashes = 0 => file = Archive(installed)

\* Nothing of the OS is overwritten before it has been copied, and a later call
\* keeps what the interrupted ones have left, although it takes what it finds
\* for an archive.  This holds between the writes and within those of the
\* shrinking loop and of the payload.  It does not hold once a call has been
\* interrupted within a write of the extending loop, or within the write of the
\* header over another one.
OsKept == torn \/ \A k \in DOMAIN os : \E i \in DOMAIN file : file[i] = os[k]

\* The loops over the chunks end.
PersistentEnds == call # Idle ~> call = Idle
=============================================================================
