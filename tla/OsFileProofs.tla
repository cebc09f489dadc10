---------------------------- MODULE OsFileProofs ----------------------------
(***************************************************************************)
(* Proofs about OsFile, for any releases, sizes of their payloads and of   *)
(* the OS, chunks, and calls interrupted anywhere and as often as you like.*)
(***************************************************************************)
EXTENDS OsFile, TLAPS, SequenceTheorems

----------------------------------------------------------------------------
(***************************************************************************)
(* The inductive invariant.                                                *)
(***************************************************************************)

Releases == Versions \cup {NoVersion}
Size(v)  == IF v = NoVersion THEN 0 ELSE EntrySize(v)

Cell == {OsCell(k) : k \in Nat} \cup {Header(s) : s \in Nat}
        \cup {DataCell(v, k) : v \in Versions, k \in Nat} \cup {Boot2, Gap}

Rest == Before + 1 .. Len(os)   \* the OS from boot2.cer on

\* All of it is in f, after the cell `from'.
OsIn(f, from) == \A k \in Rest : \E j \in from + 1 .. Len(f) : f[j] = os[k]

IsHeader(c) == c[1] = "ndless"

\* The entry a call would find in f.
Entry(f) == IF IsHeader(f[Before + 1]) THEN 1 + f[Before + 1][2] ELSE 0

\* What a call may start from, whatever was interrupted before.  What looks
\* like a header may be found by a later call, once the file is shifted, and
\* everything up to the end of its entry given up: the OS is beyond it too.
Good(f) ==
    /\ f \in Seq(Cell)
    /\ Before < Len(f) /\ \A k \in 1 .. Before : f[k] = os[k]
    /\ OsIn(f, Before)
    /\ \A i \in Before + 1 .. Len(f) : IsHeader(f[i]) => OsIn(f, i + f[i][2])

\* The cells of f, that was o, have been moved by `by' towards the start, up to w.
Shrunk(f, o, by, w) ==
    /\ f \in Seq(Cell) /\ Len(f) = Len(o)
    /\ w \in Before .. Len(o) - by
    /\ \A i \in 1 .. Len(o) : f[i] = IF i > Before /\ i <= w THEN o[i + by] ELSE o[i]

\* They have been moved towards the end, from the end down to p.
Extended(f, o, by, p) ==
    /\ f \in Seq(Cell) /\ Len(f) = IF p = Len(o) THEN Len(o) ELSE Len(o) + by
    /\ p \in Before .. Len(o)
    /\ \A i \in 1 .. Len(f) : f[i] = IF i > p + by THEN o[i - by]
                                     ELSE IF i <= Len(o) THEN o[i] ELSE Gap

\* f has its place for the entry of v before the OS.
Place(f, v) == /\ OsIn(f, Before + Size(v))
               /\ crashes = 0 => /\ Len(f) = Len(os) + Size(v)
                                 /\ \A k \in Rest : f[k + Size(v)] = os[k]

Shrinks(c, o) == /\ c.by \in Nat \ {0}
                 /\ Entry(o) = c.by + Size(c.v)

Extends(c, o) == /\ c.by \in Nat \ {0} /\ c.v # NoVersion
                 /\ Size(c.v) = Entry(o) + c.by

Stages == {"shrink", "shrinkwrite", "truncate", "extend", "extendwrite",
           "extendlast", "header", "payload"}

Locals == [at : Stages, v : Releases, by : Nat, curpos : Int]

\* How far a call whose locals are c has come in shifting o.
Shifted(c, f, o) ==
    /\ c.at \in {"shrink", "shrinkwrite"} =>
          Shrinks(c, o) /\ Shrunk(f, o, c.by, c.curpos - c.by)
    /\ c.at = "truncate" =>
          Shrinks(c, o) /\ Shrunk(f, o, c.by, Len(o) - c.by)
    /\ c.at \in {"extend", "extendwrite", "extendlast"} =>
          Extends(c, o) /\ Extended(f, o, c.by, c.curpos + CHUNK_SIZE)

\* The file without the end that has been moved.
Cut(c) == SubSeq(file, 1, Len(file) - c.by)

\* What the call in progress may have found.
Found(o) == Good(o) /\ (crashes = 0 => o = Archive(installed))

CallInv ==
    /\ call \in Locals
    /\ call.at = "shrinkwrite" => shift_buf = Read(call.curpos, CHUNK_SIZE)
    /\ call.at = "extendwrite" => /\ call.curpos >= Before
                                  /\ shift_buf = Read(call.curpos, CHUNK_SIZE)
    /\ call.at = "extendlast" => /\ call.curpos + CHUNK_SIZE # Before
                                 /\ shift_buf = Read(Before, call.curpos + CHUNK_SIZE - Before)
    /\ call.at \in {"header", "payload"} => call.v # NoVersion /\ Place(file, call.v)

Typed ==
    /\ os \in Seq(Cell) /\ Before < Len(os) /\ \A k \in 1 .. Len(os) : os[k] = OsCell(k)
    /\ installed \in Releases /\ crashes \in Nat

IInv ==
    /\ Typed /\ Good(file)
    /\ call # Idle => CallInv /\ \E o \in Seq(Cell) : Found(o) /\ Shifted(call, file, o)
    /\ WholeWhenDone

\* One of the two writes that may lose a part of the OS was cut short.
Doomed == torn /\ crashes \in Nat \ {0}

----------------------------------------------------------------------------
(***************************************************************************)
(* Cells and files.                                                        *)
(***************************************************************************)

LEMMA Constants == /\ Before \in Nat /\ CHUNK_SIZE \in Nat \ {0}
                   /\ NoVersion \notin Versions
                   /\ \A v \in Versions : PatchSize[v] \in Nat \ {0}
                   /\ \A v \in Versions : EntrySize(v) \in Nat /\ Size(v) = EntrySize(v)
                   /\ \A v \in Versions : EntrySize(v) = PatchSize[v] + 1
                   /\ Size(NoVersion) = 0
BY OsFileAssumption DEF EntrySize, Size

LEMMA CellKinds ==
    /\ \A k \in Nat : OsCell(k) \in Cell /\ ~IsHeader(OsCell(k))
    /\ \A s \in Nat : Header(s) \in Cell /\ IsHeader(Header(s)) /\ Header(s)[2] = s
    /\ \A v \in Versions, k \in Nat : DataCell(v, k) \in Cell /\ ~IsHeader(DataCell(v, k))
    /\ Gap \in Cell /\ ~IsHeader(Gap) /\ Boot2 \in Cell /\ ~IsHeader(Boot2)
BY DEF Cell, OsCell, Header, DataCell, Boot2, Gap, IsHeader

LEMMA HeaderSize == ASSUME NEW c \in Cell, IsHeader(c) PROVE c[2] \in Nat
<1>1. CASE \E s \in Nat : c = Header(s)
  BY <1>1, CellKinds
<1>2. CASE c \in {Boot2, Gap}
  BY <1>2, CellKinds
<1>3. CASE \E k \in Nat : c = OsCell(k)
  BY <1>3, CellKinds
<1>4. CASE \E v \in Versions, k \in Nat : c = DataCell(v, k)
  BY <1>4, CellKinds
<1> QED BY <1>1, <1>2, <1>3, <1>4 DEF Cell

LEMMA SeqMade ==
    ASSUME NEW n \in Nat, NEW f \in [1 .. n -> Cell]
    PROVE  f \in Seq(Cell) /\ Len(f) = n
BY SeqDef

LEMMA Cells ==
    ASSUME NEW f \in Seq(Cell)
    PROVE  /\ Len(f) \in Nat /\ f \in [1 .. Len(f) -> Cell] /\ DOMAIN f = 1 .. Len(f)
           /\ \A i \in 1 .. Len(f) : f[i] \in Cell
BY LenProperties, ElementOfSeq

\* fread(): a file is read up to its end.
LEMMA ReadCells ==
    ASSUME file \in Seq(Cell), NEW offset \in Nat, NEW n \in Nat, offset <= Len(file)
    PROVE  /\ Read(offset, n) \in Seq(Cell)
           /\ Len(Read(offset, n)) = IF offset + n < Len(file) THEN n ELSE Len(file) - offset
           /\ \A m \in 1 .. Len(Read(offset, n)) : Read(offset, n)[m] = file[offset + m]
<1>1. PICK end \in Nat : /\ end = IF offset + n < Len(file) THEN offset + n ELSE Len(file)
                         /\ offset <= end /\ end <= Len(file)
  BY Cells
<1>2. Read(offset, n) = SubSeq(file, offset + 1, end)
  BY <1>1 DEF Read
<1>3. \A i \in offset + 1 .. end : file[i] \in Cell
  BY <1>1, Cells
<1>4. /\ Read(offset, n) \in Seq(Cell)
      /\ Len(Read(offset, n)) = IF offset + 1 <= end THEN end - (offset + 1) + 1 ELSE 0
      /\ \A m \in 1 .. end - (offset + 1) + 1 :
            Read(offset, n)[m] = file[offset + 1 + m - 1]
  <2>1. offset + 1 \in Int /\ end \in Int
    BY <1>1
  <2> QED BY <1>2, <1>3, <2>1, SubSeqProperties
<1>5. Len(Read(offset, n)) = end - offset
  BY <1>1, <1>4
<1>6. \A m \in 1 .. Len(Read(offset, n)) :
         m \in 1 .. end - (offset + 1) + 1 /\ offset + 1 + m - 1 = offset + m
  BY <1>1, <1>5
<1> QED BY <1>1, <1>4, <1>5, <1>6, Cells

LEMMA FirstCells ==
    ASSUME NEW f \in Seq(Cell), NEW n \in Nat, 1 <= n, n <= Len(f)
    PROVE  /\ SubSeq(f, 1, n) \in Seq(Cell) /\ Len(SubSeq(f, 1, n)) = n
           /\ \A k \in 1 .. n : SubSeq(f, 1, n)[k] = f[k]
<1>1. PICK t : t = SubSeq(f, 1, n)
  OBVIOUS
<1>2. \A i \in 1 .. n : f[i] \in Cell
  <2>1. PICK l \in Nat : l = Len(f)
    BY Cells
  <2>2. \A i \in 1 .. n : i \in 1 .. Len(f)
    BY <2>1
  <2> QED BY <2>2, Cells
<1>3. t \in Seq(Cell) /\ Len(t) = IF 1 <= n THEN n - 1 + 1 ELSE 0
  BY <1>1, <1>2, SubSeqProperties
<1>4. \A i \in 1 .. n - 1 + 1 : t[i] = f[1 + i - 1]
  BY <1>1, <1>2, SubSeqProperties
<1>5. n - 1 + 1 = n /\ \A i \in 1 .. n : 1 + i - 1 = i
  OBVIOUS
<1> QED BY <1>1, <1>3, <1>4, <1>5

\* Part of what was read is what a shorter fread() reads.
LEMMA ReadFewer ==
    ASSUME file \in Seq(Cell), NEW offset \in Nat, offset <= Len(file),
           NEW n \in Nat, n \in 1 .. Len(Read(offset, CHUNK_SIZE))
    PROVE  SubSeq(Read(offset, CHUNK_SIZE), 1, n) = Read(offset, n)
<1>1. PICK a : a = Read(offset, CHUNK_SIZE)
  OBVIOUS
<1>2. PICK c \in Nat : c = CHUNK_SIZE
  BY Constants
<1>3. /\ a \in Seq(Cell)
      /\ Len(a) = IF offset + c < Len(file) THEN c ELSE Len(file) - offset
      /\ \A m \in 1 .. Len(a) : a[m] = file[offset + m]
  BY <1>1, <1>2, ReadCells
<1>4. PICK l \in Nat, k \in Nat : l = Len(file) /\ k = Len(a) /\ 1 <= n /\ n <= k /\ offset + k <= l
  <2>1. PICK l \in Nat, k \in Nat : l = Len(file) /\ k = Len(a)
    BY <1>3, Cells
  <2>2. 1 <= n /\ n <= k
    BY <1>1, <2>1
  <2>3. k = IF offset + c < l THEN c ELSE l - offset
    BY <1>3, <2>1
  <2>4. offset + k <= l
    BY <2>1, <2>3
  <2> QED BY <2>1, <2>2, <2>4
<1>5. PICK b : b = Read(offset, n)
  OBVIOUS
<1>6. /\ b \in Seq(Cell) /\ Len(b) = n
      /\ \A m \in 1 .. n : b[m] = file[offset + m]
  <2>1. /\ b \in Seq(Cell) /\ Len(b) = IF offset + n < Len(file) THEN n ELSE Len(file) - offset
        /\ \A m \in 1 .. Len(b) : b[m] = file[offset + m]
    BY <1>5, ReadCells
  <2>2. Len(b) = n
    BY <1>4, <2>1
  <2> QED BY <2>1, <2>2
<1>7. PICK t : t = SubSeq(a, 1, n)
  OBVIOUS
<1>8. t \in Seq(Cell) /\ Len(t) = n /\ \A m \in 1 .. n : t[m] = a[m]
  BY <1>3, <1>4, <1>7, FirstCells
<1>9. ASSUME NEW m \in 1 .. n PROVE t[m] = b[m]
  <2>1. m \in 1 .. Len(a)
    BY <1>4
  <2> QED BY <1>3, <1>6, <1>8, <2>1
<1>10. t = b
  BY <1>6, <1>8, <1>9, SeqEqual
<1> QED BY <1>1, <1>5, <1>7, <1>10

\* fwrite(): it replaces cells, or adds some, a gap before them if there is one.
LEMMA Written ==
    ASSUME file \in Seq(Cell), NEW offset \in Nat, NEW cells \in Seq(Cell),
           Write(offset, cells)
    PROVE  /\ file' \in Seq(Cell)
           /\ Len(file') = IF offset + Len(cells) > Len(file)
                           THEN offset + Len(cells) ELSE Len(file)
           /\ \A i \in 1 .. Len(file') :
                 file'[i] = IF i > offset /\ i <= offset + Len(cells) THEN cells[i - offset]
                            ELSE IF i <= Len(file) THEN file[i] ELSE Gap
<1>1. PICK end \in Nat : end = IF offset + Len(cells) > Len(file)
                               THEN offset + Len(cells) ELSE Len(file)
  BY Cells
<1>2. file' = [i \in 1 .. end |->
                  IF i \in offset + 1 .. offset + Len(cells) THEN cells[i - offset]
                  ELSE IF i \in DOMAIN file THEN file[i] ELSE Gap]
  BY <1>1 DEF Write
<1>3. Len(cells) \in Nat /\ Len(file) \in Nat /\ DOMAIN file = 1 .. Len(file)
  BY Cells
<1>3a. PICK n \in Nat, l \in Nat : n = Len(cells) /\ l = Len(file)
  BY <1>3
<1>4. ASSUME NEW i \in 1 .. end
      PROVE  /\ file'[i] = IF i > offset /\ i <= offset + Len(cells) THEN cells[i - offset]
                           ELSE IF i <= Len(file) THEN file[i] ELSE Gap
             /\ file'[i] \in Cell
  <2>1. file'[i] = IF i > offset /\ i <= offset + Len(cells) THEN cells[i - offset]
                   ELSE IF i <= Len(file) THEN file[i] ELSE Gap
    BY <1>2, <1>3, <1>3a
  <2>2. i > offset /\ i <= offset + Len(cells) => i - offset \in 1 .. Len(cells)
    BY <1>3a
  <2>3. i <= Len(file) => file[i] \in Cell
    <3>1. i <= Len(file) => i \in 1 .. Len(file)
      BY <1>3a
    <3> QED BY <3>1, Cells
  <2> QED BY <2>1, <2>2, <2>3, Cells, CellKinds
<1>5. file' \in [1 .. end -> Cell]
  BY <1>2, <1>4
<1>6. file' \in Seq(Cell) /\ Len(file') = end
  BY <1>5, SeqMade
<1> QED BY <1>1, <1>4, <1>6

----------------------------------------------------------------------------
(***************************************************************************)
(* Shifting the file keeps the OS beyond whatever may be taken for an      *)
(* entry, as far as the shift has come.                                    *)
(***************************************************************************)

LEMMA EntryBefore ==
    ASSUME NEW f, Good(f)
    PROVE  /\ Entry(f) \in Nat /\ OsIn(f, Before + Entry(f))
           /\ Len(f) \in Nat /\ Before < Len(f) /\ f \in Seq(Cell)
<1>1. f \in Seq(Cell) /\ Before < Len(f) /\ Len(f) \in Nat /\ OsIn(f, Before)
      /\ \A i \in Before + 1 .. Len(f) : IsHeader(f[i]) => OsIn(f, i + f[i][2])
  BY Cells DEF Good
<1>2. Before + 1 \in Before + 1 .. Len(f) /\ f[Before + 1] \in Cell
  BY <1>1, Constants, Cells
<1>3. CASE IsHeader(f[Before + 1])
  <2>1. PICK n \in Nat : n = f[Before + 1][2]
    BY <1>2, <1>3, HeaderSize
  <2>2. Entry(f) = 1 + n /\ OsIn(f, Before + 1 + n)
    BY <1>1, <1>2, <1>3, <2>1 DEF Entry
  <2>3. Before + 1 + n = Before + (1 + n)
    BY Constants
  <2> QED BY <1>1, <2>2, <2>3
<1>4. CASE ~IsHeader(f[Before + 1])
  <2>1. Entry(f) = 0
    BY <1>4 DEF Entry
  <2>2. Before + 0 = Before
    BY Constants
  <2> QED BY <1>1, <2>1, <2>2
<1> QED BY <1>3, <1>4

LEMMA ShrunkGood ==
    ASSUME NEW f, NEW o, NEW by, NEW w, Typed, Good(o), by \in 1 .. Entry(o), Shrunk(f, o, by, w)
    PROVE  Good(f)
<1>1. /\ Before \in Nat /\ Len(o) \in Nat /\ Before < Len(o) /\ Entry(o) \in Nat
      /\ by \in Nat /\ by <= Entry(o) /\ 0 < by
  BY EntryBefore, Constants
<1>2. /\ f \in Seq(Cell) /\ Len(f) = Len(o) /\ w \in Nat /\ Before <= w /\ w + by <= Len(o)
      /\ \A i \in 1 .. Len(o) : f[i] = IF i > Before /\ i <= w THEN o[i + by] ELSE o[i]
  BY <1>1 DEF Shrunk
<1>3. /\ o \in Seq(Cell) /\ \A k \in 1 .. Before : o[k] = os[k]
      /\ \A i \in Before + 1 .. Len(o) : IsHeader(o[i]) => OsIn(o, i + o[i][2])
  BY DEF Good
\* A cell beyond the first `by' is where it was, or by cells before.
<1>4. ASSUME NEW j \in Nat, Before + by < j, j <= Len(o)
      PROVE  \E m \in Nat : /\ m <= Len(f) /\ f[m] = o[j] /\ j <= m + by
                            /\ (w < j => m = j)
  <2>1. CASE w < j
    <3>1. f[j] = o[j]
      BY <1>1, <1>2, <1>4, <2>1
    <3> QED BY <1>1, <1>2, <1>4, <2>1, <3>1
  <2>2. CASE ~(w < j)
    <3>3. j - by \in Nat /\ Before < j - by /\ j - by <= w /\ w <= Len(o)
      BY <1>1, <1>2, <1>4, <2>2
    <3>1. PICK m \in Nat : m = j - by /\ Before < m /\ m <= w /\ m \in 1 .. Len(o) /\ m + by = j
      BY <1>1, <1>2, <1>4, <3>3
    <3>2. f[m] = o[j]
      BY <1>2, <3>1
    <3> QED BY <1>1, <1>2, <2>2, <3>1, <3>2
  <2> QED BY <2>1, <2>2
<1>5. \A k \in 1 .. Before : f[k] = os[k]
  BY <1>1, <1>2, <1>3
<1>6. OsIn(f, Before)
  <2> SUFFICES ASSUME NEW k \in Rest PROVE \E m \in Before + 1 .. Len(f) : f[m] = os[k]
    BY DEF OsIn
  <2>1. PICK j \in Before + Entry(o) + 1 .. Len(o) : o[j] = os[k]
    BY EntryBefore DEF OsIn
  <2>2. j \in Nat /\ Before + by < j /\ j <= Len(o)
    BY <1>1
  <2>3. PICK m \in Nat : m <= Len(f) /\ f[m] = o[j] /\ j <= m + by
    BY <1>4, <2>2
  <2>4. m \in Before + 1 .. Len(f)
    BY <1>1, <1>2, <2>2, <2>3
  <2> QED BY <2>1, <2>3, <2>4
<1>7. ASSUME NEW i \in Before + 1 .. Len(f), IsHeader(f[i]), NEW k \in Rest
      PROVE  \E m \in i + f[i][2] + 1 .. Len(f) : f[m] = os[k]
  <2>1. i \in Nat /\ Before < i /\ i <= Len(o) /\ i \in 1 .. Len(o) /\ i \in 1 .. Len(f)
    BY <1>1, <1>2
  <2>2. PICK s \in Nat : s = f[i][2]
    <3>1. f[i] \in Cell
      BY <1>2, <2>1, Cells
    <3>2. f[i][2] \in Nat
      BY <1>7, <3>1, HeaderSize
    <3> QED BY <3>2
  <2>3. CASE i <= w
    <3>1. f[i] = o[i + by] /\ i + by \in Before + 1 .. Len(o)
      BY <1>1, <1>2, <2>1, <2>3
    <3>2. OsIn(o, i + by + s)
      BY <1>3, <1>7, <2>2, <3>1
    <3>3. PICK j \in i + by + s + 1 .. Len(o) : o[j] = os[k]
      BY <3>2 DEF OsIn
    <3>4. j \in Nat /\ Before + by < j /\ j <= Len(o)
      BY <1>1, <2>1
    <3>5. PICK m \in Nat : m <= Len(f) /\ f[m] = o[j] /\ j <= m + by
      BY <1>4, <3>4
    <3>6. j > i + by + s
      BY <1>1, <2>1, <2>2
    <3>7. m > i + s /\ m <= Len(f)
      BY <1>1, <2>1, <2>2, <3>4, <3>5, <3>6
    <3>8. m \in i + s + 1 .. Len(f)
      <4>1. PICK l \in Nat, n \in Nat : l = Len(f) /\ n = i + s
        BY <1>1, <1>2, <2>1
      <4> QED BY <3>7, <4>1
    <3> QED BY <2>2, <3>3, <3>5, <3>8
  <2>4. CASE ~(i <= w)
    <3>1. f[i] = o[i] /\ i \in Before + 1 .. Len(o)
      BY <1>1, <1>2, <2>1, <2>4
    <3>2. OsIn(o, i + s)
      BY <1>3, <1>7, <2>2, <3>1
    <3>3. PICK j \in i + s + 1 .. Len(o) : o[j] = os[k]
      BY <3>2 DEF OsIn
    <3>4. j \in 1 .. Len(o) /\ w < j /\ j > i + s
      BY <1>1, <1>2, <2>1, <2>4
    <3>5. f[j] = o[j]
      BY <1>2, <3>4
    <3>6. j \in i + s + 1 .. Len(f)
      BY <1>2, <2>1, <2>2, <3>3
    <3> QED BY <2>2, <3>3, <3>5, <3>6
  <2> QED BY <2>3, <2>4
<1> QED BY <1>1, <1>2, <1>5, <1>6, <1>7 DEF Good, OsIn

LEMMA ExtendedGood ==
    ASSUME NEW f, NEW o, NEW by \in Nat \ {0}, NEW p, Typed, Good(o), Extended(f, o, by, p)
    PROVE  /\ Good(f)
           /\ p = Before => OsIn(f, Before + Entry(o) + by)
<1>1. Before \in Nat /\ Len(o) \in Nat /\ Before < Len(o) /\ Entry(o) \in Nat
  BY EntryBefore, Constants
<1>2. /\ f \in Seq(Cell) /\ Len(f) = IF p = Len(o) THEN Len(o) ELSE Len(o) + by
      /\ p \in Nat /\ Before <= p /\ p <= Len(o)
      /\ \A i \in 1 .. Len(f) : f[i] = IF i > p + by THEN o[i - by]
                                       ELSE IF i <= Len(o) THEN o[i] ELSE Gap
  BY <1>1 DEF Extended
<1>3. /\ o \in Seq(Cell) /\ \A k \in 1 .. Before : o[k] = os[k]
      /\ \A i \in Before + 1 .. Len(o) : IsHeader(o[i]) => OsIn(o, i + o[i][2])
  BY DEF Good
\* A cell is where it was, up to p, or `by' cells further.
<1>4. ASSUME NEW j \in 1 .. Len(o)
      PROVE  \E m \in Nat : /\ m <= Len(f) /\ f[m] = o[j] /\ j <= m
                            /\ (p < j => m = j + by)
  <2>1. CASE p < j
    <3>1. j + by \in 1 .. Len(f) /\ j + by > p + by /\ j + by - by = j
      BY <1>1, <1>2, <2>1
    <3>2. f[j + by] = o[j]
      BY <1>2, <3>1
    <3> QED BY <1>1, <3>1, <3>2
  <2>2. CASE ~(p < j)
    <3>1. j \in 1 .. Len(f) /\ ~(j > p + by)
      BY <1>1, <1>2, <2>2
    <3>2. f[j] = o[j]
      BY <1>2, <3>1
    <3> QED BY <1>1, <1>2, <2>2, <3>1, <3>2
  <2> QED BY <2>1, <2>2
<1>5. \A k \in 1 .. Before : f[k] = os[k]
  BY <1>1, <1>2, <1>3
<1>6. OsIn(f, Before) /\ (p = Before => OsIn(f, Before + Entry(o) + by))
  <2> SUFFICES ASSUME NEW k \in Rest
               PROVE  /\ \E m \in Before + 1 .. Len(f) : f[m] = os[k]
                      /\ p = Before => \E m \in Before + Entry(o) + by + 1 .. Len(f) : f[m] = os[k]
    BY DEF OsIn
  <2>1. PICK j \in Before + Entry(o) + 1 .. Len(o) : o[j] = os[k]
    BY EntryBefore DEF OsIn
  <2>2. j \in 1 .. Len(o) /\ Before < j
    BY <1>1
  <2>3. PICK m \in Nat : m <= Len(f) /\ f[m] = o[j] /\ j <= m /\ (p < j => m = j + by)
    BY <1>4, <2>2
  <2>4. Len(f) \in Nat
    BY <1>1, <1>2
  <2> QED BY <1>1, <2>1, <2>2, <2>3, <2>4
<1>7. ASSUME NEW i \in Before + 1 .. Len(f), IsHeader(f[i]), NEW k \in Rest
      PROVE  \E m \in i + f[i][2] + 1 .. Len(f) : f[m] = os[k]
  <2>1. i \in Nat /\ Before < i /\ i \in 1 .. Len(f) /\ Len(f) \in Nat
    BY <1>1, <1>2
  <2>2. PICK s \in Nat : s = f[i][2]
    BY <1>2, <1>7, <2>1, Cells, HeaderSize
  <2>3. CASE i > p + by
    <3>1. f[i] = o[i - by] /\ i - by \in Before + 1 .. Len(o) /\ i - by > p
      BY <1>1, <1>2, <2>1, <2>3
    <3>2. OsIn(o, i - by + s)
      BY <1>3, <1>7, <2>2, <3>1
    <3>3. PICK j \in i - by + s + 1 .. Len(o) : o[j] = os[k]
      BY <3>2 DEF OsIn
    <3>4. j \in 1 .. Len(o) /\ p < j /\ j + by > i + s
      BY <1>1, <1>2, <2>1, <3>1
    <3>5. PICK m \in Nat : m <= Len(f) /\ f[m] = o[j] /\ m = j + by
      BY <1>4, <3>4
    <3>6. m \in i + s + 1 .. Len(f) /\ f[m] = os[k]
      BY <1>1, <2>1, <3>3, <3>4, <3>5
    <3> QED BY <2>2, <3>6
  <2>4. CASE ~(i > p + by)
    <3>1. i <= Len(o) /\ f[i] = o[i] /\ i \in Before + 1 .. Len(o)
      BY <1>1, <1>2, <1>7, <2>1, <2>4, CellKinds
    <3>2. OsIn(o, i + s)
      BY <1>3, <1>7, <2>2, <3>1
    <3>3. PICK j \in i + s + 1 .. Len(o) : o[j] = os[k]
      BY <3>2 DEF OsIn
    <3>4. j \in 1 .. Len(o) /\ j > i + s
      BY <1>1, <2>1
    <3>5. PICK m \in Nat : m <= Len(f) /\ f[m] = o[j] /\ j <= m
      BY <1>4, <3>4
    <3> QED BY <1>1, <2>1, <2>2, <3>3, <3>4, <3>5
  <2> QED BY <2>3, <2>4
<1>8. Before < Len(f)
  BY <1>1, <1>2
<1> QED BY <1>2, <1>5, <1>6, <1>7, <1>8 DEF Good, OsIn

\* The OS is not empty from boot2.cer on.
LEMMA RestBeyond ==
    ASSUME Typed, NEW f \in Seq(Cell), NEW n \in Nat, OsIn(f, n)
    PROVE  n < Len(f)
<1>1. Before + 1 \in Rest
  BY Constants, Cells DEF Typed, Rest
<1>2. PICK l \in Nat : l = Len(f)
  BY Cells
<1>3. PICK j \in n + 1 .. Len(f) : f[j] = os[Before + 1]
  BY <1>1 DEF OsIn
<1> QED BY <1>2, <1>3

----------------------------------------------------------------------------
(***************************************************************************)
(* The archive that a call is to leave.                                    *)
(***************************************************************************)

LEMMA Joined ==
    ASSUME NEW a \in Seq(Cell), NEW b \in Seq(Cell), NEW m \in Nat, NEW n \in Nat,
           m = Len(a), n = Len(b)
    PROVE  /\ a \o b \in Seq(Cell) /\ Len(a \o b) = m + n
           /\ \A i \in 1 .. m : (a \o b)[i] = a[i]
           /\ \A i \in 1 .. n : (a \o b)[m + i] = b[i]
<1>1. PICK c : c = a \o b
  OBVIOUS
<1>2. /\ c \in Seq(Cell) /\ Len(c) = Len(a) + Len(b)
      /\ \A i \in 1 .. Len(a) + Len(b) : c[i] = IF i <= Len(a) THEN a[i] ELSE b[i - Len(a)]
  BY <1>1, ConcatProperties
<1>3. ASSUME NEW i \in 1 .. m PROVE c[i] = a[i]
  <2>1. i \in 1 .. Len(a) + Len(b) /\ i <= Len(a)
    OBVIOUS
  <2> QED BY <1>2, <2>1
<1>4. ASSUME NEW i \in 1 .. n PROVE c[m + i] = b[i]
  <2>1. m + i \in 1 .. Len(a) + Len(b) /\ ~(m + i <= Len(a)) /\ m + i - Len(a) = i
    OBVIOUS
  <2> QED BY <1>2, <2>1
<1> QED BY <1>1, <1>2, <1>3, <1>4

LEMMA PkFileCells ==
    ASSUME NEW v \in Versions
    PROVE  /\ PkFile(v) \in Seq(Cell) /\ Len(PkFile(v)) = PatchSize[v] + 1
           /\ PatchSize[v] + 1 \in Nat
           /\ PkFile(v)[1] = Header(PatchSize[v])
           /\ \A k \in 1 .. PatchSize[v] : PkFile(v)[1 + k] = DataCell(v, k)
<1>1. PICK z \in Nat : z = PatchSize[v]
  BY Constants
<1>2. PICK d : d = [k \in 1 .. z |-> DataCell(v, k)]
  OBVIOUS
<1>3. d \in [1 .. z -> Cell]
  BY <1>2, CellKinds
<1>4. d \in Seq(Cell) /\ Len(d) = z
  BY <1>3, SeqMade
<1>5. PICK h \in Seq(Cell) : h = <<Header(z)>>
  <2>1. Header(z) \in Cell
    BY CellKinds
  <2>2. <<Header(z)>> \in Seq(Cell)
    BY <2>1
  <2> QED BY <2>2
<1>6. h \in Seq(Cell) /\ Len(h) = 1 /\ h[1] = Header(z)
  BY <1>5, CellKinds
<1>7. PICK b : b = h \o d
  OBVIOUS
<1>8. PkFile(v) = b
  BY <1>1, <1>2, <1>5, <1>7 DEF PkFile
<1>9. /\ b \in Seq(Cell) /\ Len(b) = 1 + z
      /\ \A i \in 1 .. 1 : b[i] = h[i]
      /\ \A i \in 1 .. z : b[1 + i] = d[i]
  <2>1. PICK y \in Nat : y = 1
    OBVIOUS
  <2>2. y = Len(h) /\ z = Len(d) /\ y \in Nat /\ z \in Nat /\ h \in Seq(Cell) /\ d \in Seq(Cell)
    BY <1>4, <1>6, <2>1
  <2>3. /\ h \o d \in Seq(Cell) /\ Len(h \o d) = y + z
        /\ \A i \in 1 .. y : (h \o d)[i] = h[i]
        /\ \A i \in 1 .. z : (h \o d)[y + i] = d[i]
    BY <2>2, Joined, SMT
  <2> QED BY <1>7, <2>1, <2>3
<1>10. b[1] = Header(z)
  BY <1>6, <1>9
<1>11. ASSUME NEW k \in 1 .. z PROVE b[1 + k] = DataCell(v, k)
  BY <1>2, <1>9
<1> QED BY <1>1, <1>8, <1>9, <1>10, <1>11

LEMMA ArchiveCells ==
    ASSUME Typed, NEW v \in Releases
    PROVE  /\ Archive(v) \in Seq(Cell) /\ Len(Archive(v)) = Len(os) + Size(v)
           /\ \A k \in 1 .. Before : Archive(v)[k] = os[k]
           /\ \A k \in Rest : Archive(v)[k + Size(v)] = os[k]
           /\ v # NoVersion => /\ Archive(v)[Before + 1] = Header(PatchSize[v])
                               /\ \A k \in 1 .. PatchSize[v] :
                                     Archive(v)[Before + 1 + k] = DataCell(v, k)
<1>1. PICK n \in Nat : n = Len(os) /\ Before < n /\ Before \in Nat /\ os \in Seq(Cell)
  BY Constants, Cells DEF Typed
<1>2. PICK a : a = SubSeq(os, 1, Before)
  OBVIOUS
<1>3. a \in Seq(Cell) /\ Len(a) = Before /\ \A k \in 1 .. Before : a[k] = os[k]
  <2>1. \A i \in 1 .. Before : os[i] \in Cell
    BY <1>1, Cells
  <2>2. \A k \in 1 .. Before - 1 + 1 : a[k] = os[1 + k - 1]
    BY <1>1, <1>2, <2>1, SubSeqProperties
  <2>3. a \in Seq(Cell) /\ Len(a) = IF 1 <= Before THEN Before - 1 + 1 ELSE 0
    BY <1>1, <1>2, <2>1, SubSeqProperties
  <2> QED BY <1>1, <2>2, <2>3
<1>4. PICK c : c = SubSeq(os, Before + 1, Len(os))
  OBVIOUS
<1>5. c \in Seq(Cell) /\ Len(c) = n - Before /\ \A m \in 1 .. n - Before : c[m] = os[Before + m]
  <2>1. \A i \in Before + 1 .. n : os[i] \in Cell
    BY <1>1, Cells
  <2>2. \A k \in 1 .. n - (Before + 1) + 1 : c[k] = os[Before + 1 + k - 1]
    BY <1>1, <1>4, <2>1, SubSeqProperties
  <2>3. c \in Seq(Cell) /\ Len(c) = IF Before + 1 <= n THEN n - (Before + 1) + 1 ELSE 0
    BY <1>1, <1>4, <2>1, SubSeqProperties
  <2> QED BY <1>1, <2>2, <2>3
<1>6. PICK b : b = IF v = NoVersion THEN <<>> ELSE PkFile(v)
  OBVIOUS
<1>7. /\ b \in Seq(Cell) /\ Len(b) = Size(v) /\ Size(v) \in Nat
      /\ v # NoVersion => /\ b[1] = Header(PatchSize[v])
                          /\ \A k \in 1 .. PatchSize[v] : b[1 + k] = DataCell(v, k)
  <2>1. CASE v = NoVersion
    BY <1>6, <2>1, EmptySeq DEF Size
  <2>2. CASE v # NoVersion
    <3>1. v \in Versions /\ Size(v) = PatchSize[v] + 1
      BY <2>2, Constants DEF Releases
    <3> QED BY <1>6, <2>2, <3>1, PkFileCells
  <2> QED BY <2>1, <2>2
<1>8. PICK z \in Nat : z = Size(v)
  BY <1>7
<1>9. PICK ab : ab = a \o b
  OBVIOUS
<1>10. /\ ab \in Seq(Cell) /\ Len(ab) = Before + z
       /\ \A i \in 1 .. Before : ab[i] = a[i]
       /\ \A i \in 1 .. z : ab[Before + i] = b[i]
  <2>1. Before \in Nat /\ Before = Len(a) /\ z = Len(b) /\ a \in Seq(Cell) /\ b \in Seq(Cell)
    BY <1>1, <1>3, <1>7, <1>8
  <2>2. /\ a \o b \in Seq(Cell) /\ Len(a \o b) = Before + z
        /\ \A i \in 1 .. Before : (a \o b)[i] = a[i]
        /\ \A i \in 1 .. z : (a \o b)[Before + i] = b[i]
    BY <2>1, Joined, SMT
  <2> QED BY <1>9, <2>2
<1>11. Archive(v) = ab \o c
  BY <1>2, <1>4, <1>6, <1>9 DEF Archive
<1>12. PICK r : r = Archive(v)
  OBVIOUS
<1>13. PICK y \in Nat : y = Before + z
  BY <1>1
<1>14. PICK l \in Nat : l = n - Before
  <2>1. n - Before \in Nat
    BY <1>1
  <2> QED BY <2>1
<1>15. /\ r \in Seq(Cell) /\ Len(r) = y + l
       /\ \A i \in 1 .. y : r[i] = ab[i]
       /\ \A i \in 1 .. l : r[y + i] = c[i]
  <2>1. l = Len(c) /\ y = Len(ab) /\ ab \in Seq(Cell) /\ c \in Seq(Cell)
    BY <1>5, <1>10, <1>13, <1>14
  <2>2. /\ ab \o c \in Seq(Cell) /\ Len(ab \o c) = y + l
        /\ \A i \in 1 .. y : (ab \o c)[i] = ab[i]
        /\ \A i \in 1 .. l : (ab \o c)[y + i] = c[i]
    BY <2>1, Joined, SMT
  <2> QED BY <1>11, <1>12, <2>2
<1>16. Len(r) = n + z
  BY <1>1, <1>13, <1>14, <1>15
<1>17. ASSUME NEW k \in 1 .. Before PROVE r[k] = os[k]
  <2>1. k \in 1 .. y
    BY <1>1, <1>13
  <2> QED BY <1>3, <1>10, <1>15, <2>1
<1>18. ASSUME NEW k \in Rest PROVE r[k + z] = os[k]
  <2>1. k \in Before + 1 .. n
    BY <1>1 DEF Rest
  <2>2. PICK i \in 1 .. l : i = k - Before
    BY <1>1, <1>14, <2>1
  <2>3. k + z = y + i /\ Before + i = k
    BY <1>1, <1>13, <2>1, <2>2
  <2>4. i \in 1 .. n - Before
    BY <1>14
  <2> QED BY <1>5, <1>15, <2>3, <2>4
<1>19. ASSUME NEW i \in 1 .. z PROVE r[Before + i] = b[i]
  <2>1. Before + i \in 1 .. y
    BY <1>1, <1>13
  <2> QED BY <1>10, <1>15, <2>1
<1>20. ASSUME v # NoVersion
       PROVE  /\ r[Before + 1] = Header(PatchSize[v])
              /\ \A k \in 1 .. PatchSize[v] : r[Before + 1 + k] = DataCell(v, k)
  <2>1. PICK x \in Nat : x = PatchSize[v] /\ z = x + 1
    BY <1>8, <1>20, Constants DEF Releases
  <2>2. 1 \in 1 .. z /\ \A k \in 1 .. x : 1 + k \in 1 .. z /\ Before + (1 + k) = Before + 1 + k
    BY <1>1, <2>1
  <2>3. r[Before + 1] = b[1]
    BY <1>19, <2>2
  <2>4. \A k \in 1 .. x : r[Before + (1 + k)] = b[1 + k]
    BY <1>19, <2>2
  <2> QED BY <1>7, <1>20, <2>1, <2>2, <2>3, <2>4
<1> QED BY <1>1, <1>8, <1>12, <1>15, <1>16, <1>17, <1>18, <1>20

\* The entry found in it is that of its release, or none.
LEMMA ArchiveEntry ==
    ASSUME Typed, NEW v \in Releases
    PROVE  Entry(Archive(v)) = Size(v)
<1>1. CASE v = NoVersion
  <2>1. Before + 1 \in Rest /\ Before + 1 + 0 = Before + 1 /\ Before + 1 \in Nat
    BY Constants, Cells DEF Typed, Rest
  <2>2. Archive(v)[Before + 1] = os[Before + 1]
    BY <1>1, <2>1, ArchiveCells, Constants
  <2>3. os[Before + 1] = OsCell(Before + 1)
    BY <2>1, Constants DEF Typed, Rest
  <2> QED BY <1>1, <2>1, <2>2, <2>3, Constants, CellKinds DEF Entry
<1>2. CASE v # NoVersion
  <2>1. v \in Versions /\ PatchSize[v] \in Nat
    BY <1>2, Constants DEF Releases
  <2>2. Archive(v)[Before + 1] = Header(PatchSize[v])
    BY <1>2, ArchiveCells
  <2> QED BY <1>2, <2>1, <2>2, CellKinds DEF Entry, Size, EntrySize
<1> QED BY <1>1, <1>2

LEMMA IsArchive ==
    ASSUME Typed, NEW v \in Releases, NEW f \in Seq(Cell), Len(f) = Len(os) + Size(v),
           \A k \in 1 .. Before : f[k] = os[k],
           \A k \in Rest : f[k + Size(v)] = os[k],
           v # NoVersion => /\ f[Before + 1] = Header(PatchSize[v])
                            /\ \A k \in 1 .. PatchSize[v] : f[Before + 1 + k] = DataCell(v, k)
    PROVE  f = Archive(v)
<1>1. PICK g \in Seq(Cell) : g = Archive(v)
  BY ArchiveCells
<1>2. PICK n \in Nat, z \in Nat : n = Len(os) /\ z = Size(v) /\ Before \in Nat /\ Before < n
  <2>1. Size(v) \in Nat
    BY Constants DEF Releases
  <2> QED BY <2>1, Constants, Cells DEF Typed
<1>3. Len(f) = n + z /\ Len(g) = n + z
  BY <1>1, <1>2, ArchiveCells
<1>4. ASSUME NEW i \in 1 .. n + z PROVE f[i] = g[i]
  <2>1. CASE i <= Before
    BY <1>1, <1>2, <2>1, ArchiveCells
  <2>2. CASE i > Before + z
    <3>1. PICK k \in Rest : k + z = i
      <4>1. i - z \in Rest /\ i - z + z = i
        BY <1>2, <2>2 DEF Rest
      <4> QED BY <4>1
    <3> QED BY <1>1, <1>2, <3>1, ArchiveCells
  <2>3. CASE i > Before /\ i <= Before + z
    <3>1. PICK y \in Nat : y = PatchSize[v] /\ z = y + 1 /\ v # NoVersion
      <4>1. z # 0
        BY <1>2, <2>3
      <4> QED BY <1>2, <4>1, Constants DEF Releases
    <3>2. CASE i = Before + 1
      BY <1>1, <3>1, <3>2, ArchiveCells
    <3>3. CASE i # Before + 1
      <4>1. PICK k \in 1 .. y : Before + 1 + k = i
        <5>1. i \in Nat /\ Before + 1 < i /\ i <= Before + 1 + y
          <6>1. i \in Nat
            BY <1>2
          <6> QED BY <1>2, <2>3, <3>1, <3>3, <6>1
        <5>2. i - (Before + 1) \in 1 .. y /\ Before + 1 + (i - (Before + 1)) = i
          BY <1>2, <5>1
        <5> QED BY <5>2
      <4> QED BY <1>1, <3>1, <4>1, ArchiveCells
    <3> QED BY <3>2, <3>3
  <2> QED BY <1>2, <2>1, <2>2, <2>3
<1> QED BY <1>1, <1>3, <1>4, SeqEqual

----------------------------------------------------------------------------
(***************************************************************************)
(* What each write does to the file.                                       *)
(***************************************************************************)

\* Some cells of o, as many as a chunk or fewer, moved towards the start.
LEMMA ShrunkMore ==
    ASSUME Typed, NEW o, Good(o), NEW by, by \in 1 .. Entry(o), NEW w, Shrunk(file, o, by, w),
           NEW size \in Nat, Write(w, Read(w + by, size))
    PROVE  /\ Shrunk(file', o, by, w + Len(Read(w + by, size)))
           /\ Len(Read(w + by, size)) # size =>
                 w + Len(Read(w + by, size)) = Len(o) - by
<1>1. /\ Before \in Nat /\ Len(o) \in Nat /\ by \in Nat
      /\ Before < Len(o)
  BY EntryBefore, Constants
<1>2. PICK l \in Nat : l = Len(o)
  BY <1>1
<1>3. /\ file \in Seq(Cell) /\ Len(file) = l /\ w \in Nat /\ Before <= w /\ w + by <= l
      /\ \A i \in 1 .. l : file[i] = IF i > Before /\ i <= w THEN o[i + by] ELSE o[i]
  BY <1>1, <1>2 DEF Shrunk
<1>4. PICK cells : cells = Read(w + by, size)
  OBVIOUS
<1>5. /\ w + by \in Nat /\ cells \in Seq(Cell)
      /\ Len(cells) = IF w + by + size < l THEN size ELSE l - (w + by)
      /\ \A m \in 1 .. Len(cells) : cells[m] = file[w + by + m]
  <2>1. PICK x \in Nat : x = w + by /\ x <= l
    <3>1. w + by \in Nat /\ w + by <= l
      BY <1>1, <1>3
    <3> QED BY <3>1
  <2>2. /\ Read(x, size) \in Seq(Cell)
        /\ Len(Read(x, size)) = IF x + size < Len(file) THEN size
                                      ELSE Len(file) - x
        /\ \A m \in 1 .. Len(Read(x, size)) : Read(x, size)[m] = file[x + m]
    BY <1>1, <1>3, <2>1, ReadCells
  <2>3. cells = Read(x, size)
    BY <1>4, <2>1
  <2> QED BY <1>3, <2>1, <2>2, <2>3
<1>6. PICK n \in Nat : n = Len(cells) /\ w + by + n <= l /\ (n # size => w + by + n = l)
  <2>1. PICK n \in Nat : n = Len(cells)
    BY <1>5, Cells
  <2>2. PICK x \in Nat : x = w + by /\ x <= l
    BY <1>3, <1>5
  <2>3. n = IF x + size < l THEN size ELSE l - x
    BY <1>5, <2>1, <2>2
  <2>4. x + n <= l /\ (n # size => x + n = l)
    BY <2>2, <2>3, Constants
  <2> QED BY <2>1, <2>2, <2>4
<1>7. PICK g : g = file'
  OBVIOUS
<1>8. /\ g \in Seq(Cell) /\ Len(g) = l
      /\ \A i \in 1 .. l : g[i] = IF i > w /\ i <= w + n THEN cells[i - w] ELSE file[i]
  <2>1. /\ file' \in Seq(Cell)
        /\ Len(file') = IF w + Len(cells) > Len(file) THEN w + Len(cells) ELSE Len(file)
        /\ \A i \in 1 .. Len(file') :
              file'[i] = IF i > w /\ i <= w + Len(cells) THEN cells[i - w]
                         ELSE IF i <= Len(file) THEN file[i] ELSE Gap
    BY <1>3, <1>4, <1>5, Written
  <2>2. Len(g) = l
    BY <1>3, <1>6, <1>7, <2>1
  <2> QED BY <1>3, <1>6, <1>7, <2>1, <2>2
<1>9. ASSUME NEW i \in 1 .. l
      PROVE  g[i] = IF i > Before /\ i <= w + n THEN o[i + by] ELSE o[i]
  <2>1. CASE i > w /\ i <= w + n
    <3>1. i - w \in 1 .. n /\ w + by + (i - w) = i + by /\ i + by \in 1 .. l /\ i + by > w
      BY <1>1, <1>3, <1>6, <2>1
    <3>2. g[i] = file[i + by]
      BY <1>5, <1>6, <1>8, <2>1, <3>1
    <3>3. file[i + by] = o[i + by] /\ i > Before
      BY <1>1, <1>3, <2>1, <3>1
    <3> QED BY <2>1, <3>2, <3>3
  <2>2. CASE ~(i > w /\ i <= w + n)
    <3>1. g[i] = file[i] /\ file[i] = IF i > Before /\ i <= w THEN o[i + by] ELSE o[i]
      BY <1>3, <1>8, <2>2
    <3>2. i <= w <=> i <= w + n
      BY <1>3, <2>2
    <3> QED BY <3>1, <3>2
  <2> QED BY <2>1, <2>2
<1>10. w + n \in Before .. l - by
  BY <1>1, <1>3, <1>6
<1>11. Shrunk(g, o, by, w + n)
  BY <1>2, <1>8, <1>9, <1>10 DEF Shrunk
<1>12. n # size => w + n = Len(o) - by
  <2>1. w \in Nat /\ by \in Nat
    BY <1>1, <1>3
  <2>2. PICK a \in Nat, b \in Nat : a = w /\ b = by
    BY <2>1
  <2>3. n # size => a + b + n = l
    BY <1>6, <2>2
  <2>4. a + b + n = l => a + n = l - b
    OBVIOUS
  <2> QED BY <1>2, <2>2, <2>3, <2>4
<1>13. Len(Read(w + by, size)) = n
  BY <1>4, <1>6
<1> QED BY <1>7, <1>11, <1>12, <1>13

\* The cells q + 1 to p of o moved towards the end.
LEMMA ExtendedMore ==
    ASSUME Typed, NEW o, Good(o), NEW by \in Nat \ {0}, NEW p, Extended(file, o, by, p),
           NEW q \in Nat, Before <= q, q < p, Write(q + by, Read(q, p - q))
    PROVE  Extended(file', o, by, q)
<1>1. Before \in Nat /\ Len(o) \in Nat
  BY EntryBefore, Constants
<1>2. PICK l \in Nat : l = Len(o)
  BY <1>1
<1>3. /\ file \in Seq(Cell) /\ Len(file) = IF p = l THEN l ELSE l + by
      /\ p \in Nat /\ Before <= p /\ p <= l
      /\ \A i \in 1 .. Len(file) : file[i] = IF i > p + by THEN o[i - by]
                                             ELSE IF i <= l THEN o[i] ELSE Gap
  BY <1>1, <1>2 DEF Extended
<1>4. PICK n \in Nat : n = p - q /\ q + n = p
  <2>1. p - q \in Nat /\ q + (p - q) = p
    BY <1>3
  <2> QED BY <2>1
<1>5. PICK cells : cells = Read(q, n)
  OBVIOUS
<1>6. PICK k \in Nat : k = Len(file) /\ l <= k /\ k <= l + by
  BY <1>3
<1>7. /\ cells \in Seq(Cell) /\ Len(cells) = n
      /\ \A m \in 1 .. n : cells[m] = file[q + m]
  <2>1. /\ cells \in Seq(Cell) /\ Len(cells) = IF q + n < k THEN n ELSE k - q
        /\ \A m \in 1 .. Len(cells) : cells[m] = file[q + m]
    <3>1. q <= Len(file)
      BY <1>3, <1>6
    <3>2. /\ Read(q, n) \in Seq(Cell)
          /\ Len(Read(q, n)) = IF q + n < Len(file) THEN n ELSE Len(file) - q
          /\ \A m \in 1 .. Len(Read(q, n)) : Read(q, n)[m] = file[q + m]
      BY <1>3, <3>1, ReadCells
    <3> QED BY <1>5, <1>6, <3>2
  <2>2. Len(cells) = n
    BY <1>3, <1>4, <1>6, <2>1
  <2> QED BY <2>1, <2>2
<1>8. PICK g : g = file'
  OBVIOUS
<1>9. /\ g \in Seq(Cell) /\ Len(g) = l + by
      /\ \A i \in 1 .. l + by : g[i] = IF i > q + by /\ i <= p + by THEN cells[i - (q + by)]
                                      ELSE IF i <= k THEN file[i] ELSE Gap
  <2>1. q + by \in Nat /\ Write(q + by, cells)
    BY <1>4, <1>5
  <2>2. /\ file' \in Seq(Cell)
        /\ Len(file') = IF q + by + Len(cells) > Len(file) THEN q + by + Len(cells) ELSE Len(file)
        /\ \A i \in 1 .. Len(file') :
              file'[i] = IF i > q + by /\ i <= q + by + Len(cells) THEN cells[i - (q + by)]
                         ELSE IF i <= Len(file) THEN file[i] ELSE Gap
    BY <1>3, <1>7, <2>1, Written
  <2>3. q + by + n = p + by
    BY <1>3, <1>4
  <2>4. Len(g) = l + by
    BY <1>3, <1>6, <1>7, <1>8, <2>2, <2>3
  <2> QED BY <1>6, <1>7, <1>8, <2>2, <2>3, <2>4
<1>10. ASSUME NEW i \in 1 .. l + by
       PROVE  g[i] = IF i > q + by THEN o[i - by] ELSE IF i <= l THEN o[i] ELSE Gap
  <2>1. CASE i > q + by /\ i <= p + by
    <3>1. PICK m \in 1 .. n : m = i - (q + by) /\ q + m = i - by
      <4>1. i - (q + by) \in 1 .. n /\ q + (i - (q + by)) = i - by
        BY <1>3, <1>4, <2>1
      <4> QED BY <4>1
    <3>2. q + m \in 1 .. k /\ ~(q + m > p + by) /\ q + m <= l
      BY <1>3, <1>4, <1>6
    <3>3. g[i] = file[q + m] /\ file[q + m] = o[q + m]
      BY <1>3, <1>6, <1>7, <1>9, <2>1, <3>1, <3>2
    <3> QED BY <2>1, <3>1, <3>3
  <2>2. CASE i > p + by
    <3>1. i \in 1 .. k /\ i > q + by
      BY <1>3, <1>6, <2>2
    <3> QED BY <1>3, <1>6, <1>9, <2>2, <3>1
  <2>3. CASE ~(i > q + by)
    BY <1>3, <1>6, <1>9, <2>3
  <2> QED BY <1>3, <2>1, <2>2, <2>3
<1>11. Extended(g, o, by, q)
  BY <1>2, <1>3, <1>9, <1>10 DEF Extended
<1> QED BY <1>8, <1>11

\* The end of the file, moved, is cut off.
LEMMA Truncated ==
    ASSUME Typed, NEW o, Good(o), NEW c \in Locals, c.at = "truncate", Shifted(c, file, o)
    PROVE  \E by \in Nat \ {0}, z \in Nat :
              /\ by = c.by /\ z = Size(c.v) /\ Entry(o) = by + z
              /\ Good(Cut(c)) /\ OsIn(Cut(c), Before + z) /\ Len(Cut(c)) = Len(o) - by
              /\ \A i \in Before + 1 .. Len(Cut(c)) : Cut(c)[i] = o[i + by]
<1>1a. PICK by \in Nat \ {0}, z \in Nat : by = c.by /\ z = Size(c.v) /\ Entry(o) = by + z
  <2>1. c.v \in Releases /\ Size(c.v) \in Nat
    BY Constants DEF Locals, Releases
  <2> QED BY <2>1 DEF Shifted, Shrinks
<1>1b. PICK t : t = Cut(c)
  OBVIOUS
<1>1c. Shrunk(file, o, by, Len(o) - by) /\ t = SubSeq(file, 1, Len(file) - by)
  BY <1>1a, <1>1b DEF Shifted, Cut
<1>1. /\ Before \in Nat /\ Before < Len(o) /\ o \in Seq(Cell) /\ OsIn(o, Before + Entry(o))
      /\ Entry(o) \in Nat
  BY EntryBefore, Constants
<1>2. PICK l \in Nat, e \in Nat : l = Len(o) /\ e = Entry(o) /\ e = by + z
  BY <1>1, <1>1a, Cells
<1>3. Before + e < l
  BY <1>1, <1>2, RestBeyond
<1>4. PICK n \in Nat : n = l - by /\ n + by = l /\ Before < n
  <2>1. l - by \in Nat /\ l - by + by = l /\ Before < l - by
    BY <1>1, <1>2, <1>3
  <2> QED BY <2>1
<1>5. /\ file \in Seq(Cell) /\ Len(file) = l
      /\ \A i \in 1 .. l : file[i] = IF i > Before /\ i <= n THEN o[i + by] ELSE o[i]
  BY <1>1c, <1>2, <1>4 DEF Shrunk
<1>6. /\ t \in Seq(Cell) /\ Len(t) = n
      /\ \A i \in 1 .. n : t[i] = file[i]
  <2>1. t = SubSeq(file, 1, n) /\ 1 \in Int /\ n \in Int /\ 1 <= n
    BY <1>1, <1>1c, <1>4, <1>5
  <2>2. \A i \in 1 .. n : file[i] \in Cell
    <3>1. \A i \in 1 .. n : i \in 1 .. Len(file)
      BY <1>4, <1>5
    <3> QED BY <1>5, <3>1, Cells
  <2>3. t \in Seq(Cell) /\ Len(t) = IF 1 <= n THEN n - 1 + 1 ELSE 0
    BY <2>1, <2>2, SubSeqProperties
  <2>4. \A i \in 1 .. n - 1 + 1 : t[i] = file[1 + i - 1]
    BY <2>1, <2>2, SubSeqProperties
  <2> QED BY <2>1, <2>3, <2>4
<1>7. \A i \in Before + 1 .. n : t[i] = o[i + by]
  BY <1>1, <1>4, <1>5, <1>6
<1>8. \A k \in 1 .. Before : t[k] = os[k]
  <2>1. \A k \in 1 .. Before : o[k] = os[k]
    BY DEF Good
  <2>2. \A k \in 1 .. Before : k \in 1 .. n /\ k \in 1 .. l /\ ~(k > Before)
    BY <1>1, <1>4
  <2> QED BY <1>5, <1>6, <2>1, <2>2
\* A cell of o beyond the first `by' from boot2.cer on is `by' cells before.
<1>9. ASSUME NEW j \in Nat, Before + by < j, j <= l
      PROVE  \E m \in Before + 1 .. n : m = j - by /\ t[m] = o[j]
  <2>1. PICK m \in Before + 1 .. n : m = j - by /\ m + by = j
    <3>1. j - by \in Before + 1 .. n /\ j - by + by = j
      BY <1>1, <1>2, <1>4, <1>9
    <3> QED BY <3>1
  <2> QED BY <1>7, <2>1
<1>10. OsIn(t, Before + z)
  <2> SUFFICES ASSUME NEW k \in Rest PROVE \E m \in Before + z + 1 .. Len(t) : t[m] = os[k]
    BY DEF OsIn
  <2>1. PICK j \in Before + e + 1 .. l : o[j] = os[k]
    BY <1>1, <1>2 DEF OsIn
  <2>2. PICK m \in Before + 1 .. n : m = j - by /\ t[m] = o[j]
    <3>1. j \in Nat /\ Before + by < j /\ j <= l
      BY <1>1, <1>2
    <3> QED BY <1>9, <3>1
  <2>3. m \in Before + z + 1 .. n
    BY <1>1, <1>2, <2>1, <2>2
  <2> QED BY <1>6, <2>1, <2>2, <2>3
<1>11. OsIn(t, Before)
  BY <1>1, <1>6, <1>10 DEF OsIn
<1>12. ASSUME NEW i \in Before + 1 .. Len(t), IsHeader(t[i])
       PROVE  OsIn(t, i + t[i][2])
  <2> SUFFICES ASSUME NEW k \in Rest PROVE \E m \in i + t[i][2] + 1 .. Len(t) : t[m] = os[k]
    BY DEF OsIn
  <2>1. i \in Nat /\ i \in 1 .. Len(t) /\ t[i] = o[i + by] /\ i + by \in Before + 1 .. l /\ Before < i
    BY <1>1, <1>2, <1>4, <1>6, <1>7
  <2>2. PICK s \in Nat : s = t[i][2]
    BY <1>6, <1>12, <2>1, Cells, HeaderSize
  <2>3. OsIn(o, i + by + s)
    BY <1>2, <1>12, <2>1, <2>2 DEF Good
  <2>4. PICK j \in i + by + s + 1 .. l : o[j] = os[k]
    BY <1>2, <2>3 DEF OsIn
  <2>5. PICK m \in Before + 1 .. n : m = j - by /\ t[m] = o[j]
    <3>1. i + by + s \in Nat /\ Before + by < i + by + s
      BY <1>1, <2>1
    <3>2. j \in Nat /\ Before + by < j /\ j <= l
      BY <1>1, <3>1
    <3> QED BY <1>9, <3>2
  <2>6. m \in i + s + 1 .. n
    BY <1>2, <2>1, <2>4, <2>5
  <2> QED BY <1>6, <2>2, <2>4, <2>5, <2>6
<1>13. Good(t)
  BY <1>4, <1>6, <1>8, <1>11, <1>12 DEF Good
<1> QED BY <1>1a, <1>1b, <1>2, <1>4, <1>6, <1>7, <1>10, <1>13

\* Cells of the place for an entry, up to m, are overwritten.
LEMMA Overwritten ==
    ASSUME Typed, NEW f, Good(f), NEW e \in Nat, OsIn(f, Before + e), NEW m \in Nat, m <= Before + e,
           NEW g \in Seq(Cell), Len(g) = Len(f),
           \A i \in 1 .. Len(f) : i <= Before \/ i > m => g[i] = f[i],
           \A i \in Before + 1 .. m : IsHeader(g[i]) => i + g[i][2] = Before + e
    PROVE  Good(g) /\ OsIn(g, Before + e)
<1>1. Before \in Nat /\ Before < Len(f) /\ f \in Seq(Cell) /\ Len(f) \in Nat
  BY EntryBefore, Constants
<1>2. PICK l \in Nat : l = Len(f) /\ l = Len(g)
  BY <1>1
<1>3. ASSUME NEW from \in Nat, m <= from, OsIn(f, from)
      PROVE  OsIn(g, from)
  <2> SUFFICES ASSUME NEW k \in Rest PROVE \E j \in from + 1 .. Len(g) : g[j] = os[k]
    BY DEF OsIn
  <2>1. PICK j \in from + 1 .. l : f[j] = os[k]
    BY <1>2, <1>3 DEF OsIn
  <2>2. j \in 1 .. l /\ j > m
    BY <1>3
  <2> QED BY <1>2, <2>1, <2>2
<1>4. OsIn(g, Before + e)
  BY <1>1, <1>3
<1>5. OsIn(g, Before)
  <2> SUFFICES ASSUME NEW k \in Rest PROVE \E j \in Before + 1 .. Len(g) : g[j] = os[k]
    BY DEF OsIn
  <2>1. PICK j \in Before + e + 1 .. l : g[j] = os[k]
    BY <1>2, <1>4 DEF OsIn
  <2> QED BY <1>1, <1>2, <2>1
<1>6. \A k \in 1 .. Before : g[k] = os[k]
  <2>1. \A k \in 1 .. Before : f[k] = os[k]
    BY DEF Good
  <2> QED BY <1>1, <2>1
<1>7. ASSUME NEW i \in Before + 1 .. Len(g), IsHeader(g[i])
      PROVE  OsIn(g, i + g[i][2])
  <2>1. CASE i <= m
    <3>1. i \in Before + 1 .. m
      BY <1>1, <1>2, <2>1
    <3>2. i + g[i][2] = Before + e
      BY <1>7, <3>1
    <3> QED BY <1>4, <3>2
  <2>2. CASE ~(i <= m)
    <3>1. i \in 1 .. Len(f) /\ i \in Before + 1 .. Len(f) /\ i > m /\ i \in 1 .. Len(g)
      BY <1>1, <1>2, <2>2
    <3>2. g[i] = f[i]
      BY <3>1
    <3>3. PICK s \in Nat : s = g[i][2]
      BY <1>7, <3>1, Cells, HeaderSize
    <3>4. OsIn(f, i + s)
      BY <1>7, <3>1, <3>2, <3>3 DEF Good
    <3>5. i + s \in Nat /\ m <= i + s
      BY <1>1, <3>1
    <3> QED BY <1>3, <3>3, <3>4, <3>5
  <2> QED BY <2>1, <2>2
<1> QED BY <1>1, <1>2, <1>4, <1>5, <1>6, <1>7 DEF Good

----------------------------------------------------------------------------
(***************************************************************************)
(* The place that the shift leaves.                                        *)
(***************************************************************************)

LEMMA PlaceCut ==
    ASSUME Typed, NEW o, Found(o), NEW c \in Locals, c.at = "truncate", Shifted(c, file, o)
    PROVE  Good(Cut(c)) /\ Place(Cut(c), c.v)
<1>1. PICK by \in Nat \ {0}, z \in Nat :
         /\ by = c.by /\ z = Size(c.v) /\ Entry(o) = by + z
         /\ Good(Cut(c)) /\ OsIn(Cut(c), Before + z) /\ Len(Cut(c)) = Len(o) - by
         /\ \A i \in Before + 1 .. Len(Cut(c)) : Cut(c)[i] = o[i + by]
  BY Truncated DEF Found
<1>2. PICK t : /\ t = Cut(c) /\ Len(t) = Len(o) - by
               /\ \A i \in Before + 1 .. Len(t) : t[i] = o[i + by]
  BY <1>1
<1>3. ASSUME crashes = 0
      PROVE  /\ Len(t) = Len(os) + z
             /\ \A k \in Rest : t[k + z] = os[k]
  <2>1. PICK u \in Releases : u = installed /\ o = Archive(u)
    BY <1>3 DEF Typed, Found
  <2>2. PICK e \in Nat : e = by + z /\ e = Size(u)
    BY <1>1, <2>1, ArchiveEntry
  <2>3. PICK n \in Nat : n = Len(os) /\ Before \in Nat
    BY Constants, Cells DEF Typed
  <2>4. Len(o) = n + e /\ \A k \in Rest : o[k + e] = os[k]
    BY <2>1, <2>2, <2>3, ArchiveCells
  <2>5. Len(t) = n + z
    BY <1>2, <2>2, <2>4
  <2>6. ASSUME NEW k \in Rest PROVE t[k + z] = os[k]
    <3>1. k \in Before + 1 .. n
      BY <2>3 DEF Rest
    <3>2. k + z \in Before + 1 .. n + z /\ k + z + by = k + e
      BY <2>2, <2>3, <3>1
    <3>3. t[k + z] = o[k + z + by]
      BY <1>2, <2>5, <3>2
    <3> QED BY <2>4, <3>2, <3>3
  <2> QED BY <2>3, <2>5, <2>6
<1> QED BY <1>1, <1>2, <1>3 DEF Place

LEMMA PlaceMade ==
    ASSUME Typed, NEW o, Found(o), NEW c \in Locals, Extends(c, o),
           NEW g, Extended(g, o, c.by, Before)
    PROVE  Good(g) /\ Place(g, c.v)
<1>1. PICK by \in Nat \ {0}, e \in Nat, z \in Nat :
         by = c.by /\ z = Size(c.v) /\ e = Entry(o) /\ z = e + by
  <2>1. c.v \in Releases /\ Size(c.v) \in Nat /\ Entry(o) \in Nat
    BY Constants, EntryBefore DEF Locals, Releases, Found
  <2> QED BY <2>1 DEF Extends
<1>2. Before \in Nat /\ Len(o) \in Nat /\ Before < Len(o)
  BY EntryBefore, Constants DEF Found
<1>3. Good(g) /\ OsIn(g, Before + e + by)
  <2>1. Good(o) /\ Extended(g, o, by, Before)
    BY <1>1 DEF Found
  <2> QED BY <1>1, <1>2, <2>1, ExtendedGood
<1>4. Before + e + by = Before + z
  BY <1>1, <1>2
<1>5. PICK l \in Nat : /\ l = Len(o) /\ Len(g) = l + by
                     /\ \A i \in 1 .. l + by : i > Before + by => g[i] = o[i - by]
  <2>1. Extended(g, o, by, Before)
    BY <1>1
  <2>2. PICK l \in Nat : l = Len(o)
    BY <1>2
  <2>3. Len(g) = l + by
    BY <1>2, <2>1, <2>2 DEF Extended
  <2>4. \A i \in 1 .. l + by : i > Before + by => g[i] = o[i - by]
    BY <1>2, <2>1, <2>2, <2>3 DEF Extended
  <2> QED BY <2>2, <2>3, <2>4
<1>6. ASSUME crashes = 0
      PROVE  /\ Len(g) = Len(os) + z
             /\ \A k \in Rest : g[k + z] = os[k]
  <2>1. PICK u \in Releases : u = installed /\ o = Archive(u)
    BY <1>6 DEF Typed, Found
  <2>2. e = Size(u)
    BY <1>1, <1>2, <2>1, ArchiveEntry
  <2>3. PICK n \in Nat : n = Len(os) /\ Before \in Nat
    BY <1>2, Cells DEF Typed
  <2>4. l = n + e /\ \A k \in Rest : o[k + e] = os[k]
    BY <1>5, <2>1, <2>2, <2>3, ArchiveCells
  <2>5. Len(g) = n + z
    BY <1>1, <1>2, <1>5, <2>3, <2>4
  <2>6. ASSUME NEW k \in Before + 1 .. n, k \in Rest PROVE g[k + z] = os[k]
    <3>1. l = n + e /\ z = e + by
      BY <1>1, <2>4
    <3>2. k + z \in 1 .. l + by /\ k + z > Before + by /\ k + z - by = k + e
      BY <1>2, <3>1
    <3>3. g[k + z] = o[k + e]
      BY <1>5, <3>2
    <3> QED BY <2>4, <2>6, <3>3
  <2>7. Rest = Before + 1 .. n
    BY <2>3 DEF Rest
  <2> QED BY <2>3, <2>5, <2>6, <2>7
<1> QED BY <1>1, <1>3, <1>4, <1>6 DEF Place

----------------------------------------------------------------------------
(***************************************************************************)
(* The next states: of a call that goes on, and of one that returns.       *)
(***************************************************************************)

LEMMA Stays ==
    ASSUME UNCHANGED os
    PROVE  /\ \A f, n : OsIn(f, n)' <=> OsIn(f, n)
           /\ \A f : Good(f)' <=> Good(f)
           /\ \A v : Archive(v)' = Archive(v)
           /\ Rest' = Rest
BY DEF OsIn, Good, Rest, Archive

LEMMA InCall ==
    ASSUME IInv, call.at \in Stages
    PROVE  /\ Typed /\ Good(file) /\ CallInv
           /\ \E o \in Seq(Cell) : Found(o) /\ Shifted(call, file, o)
<1>1. call # Idle
  BY DEF Stages, Idle
<1> QED BY <1>1 DEF IInv

LEMMA CallGoesOn ==
    ASSUME Typed, UNCHANGED <<os, installed, crashes>>, NEW g, g = file', Good(g),
           NEW o \in Seq(Cell), Found(o), NEW c, c = call', Shifted(c, g, o), CallInv'
    PROVE  IInv'
<1>1. Typed' /\ Good(file)'
  <2>1. Good(g)'
    BY Stays
  <2> QED BY <2>1 DEF Typed, Good, OsIn, Rest
<1>2. Found(o)'
  <2>1. Good(o)' /\ Archive(installed)' = Archive(installed)
    BY Stays DEF Found, Archive
  <2> QED BY <2>1 DEF Found
<1>3. call' # Idle
  BY DEF CallInv, Locals, Stages, Idle
<1>4. Shifted(call, file, o)'
  BY DEF Shifted, Shrinks, Extends, Shrunk, Extended
<1> QED BY <1>1, <1>2, <1>3, <1>4 DEF IInv, WholeWhenDone, Idle

LEMMA CallReturns ==
    ASSUME Typed, UNCHANGED <<os, crashes>>, NEW v \in Releases, installed' = v, call' = Idle,
           NEW g, g = file', Good(g), crashes = 0 => g = Archive(v)
    PROVE  IInv'
<1>1. Typed' /\ Good(file)'
  <2>1. Good(g)'
    BY Stays
  <2> QED BY <2>1 DEF Typed, Good, OsIn, Rest
<1>2. WholeWhenDone'
  BY DEF WholeWhenDone, Archive
<1> QED BY <1>1, <1>2 DEF IInv, Idle

----------------------------------------------------------------------------
(***************************************************************************)
(* The steps of a call.                                                    *)
(***************************************************************************)

LEMMA Going ==
    ASSUME CallInv, NEW at \in Stages, Goes(at)
    PROVE  /\ call' \in Locals /\ call'.at = at /\ call'.v = call.v
           /\ call'.by = call.by /\ call'.curpos = call.curpos
BY DEF CallInv, Locals, Goes

LEMMA ShrinkReadKeeps == ASSUME IInv, ShrinkRead PROVE IInv'
<1>1. /\ call.at = "shrink" /\ shift_buf' = Read(call.curpos, CHUNK_SIZE)
      /\ Goes("shrinkwrite") /\ UNCHANGED <<file, os, installed, crashes>>
  BY DEF ShrinkRead
<1>2. Typed /\ Good(file) /\ CallInv
  BY <1>1, InCall DEF Stages
<1>3. PICK o \in Seq(Cell) : Found(o) /\ Shifted(call, file, o)
  BY <1>1, InCall DEF Stages
<1>4. PICK c : c = call'
  OBVIOUS
<1>5. /\ c \in Locals /\ c.at = "shrinkwrite" /\ c.v = call.v
      /\ c.by = call.by /\ c.curpos = call.curpos
  BY <1>1, <1>2, <1>4, Going DEF Stages
<1>6. Shifted(c, file, o)
  BY <1>1, <1>3, <1>5 DEF Shifted, Shrinks
<1>7. CallInv'
  BY <1>1, <1>4, <1>5 DEF CallInv, Read
<1> QED BY <1>1, <1>2, <1>3, <1>4, <1>6, <1>7, CallGoesOn

LEMMA ShrinkWriteKeeps == ASSUME IInv, ShrinkWrite PROVE IInv'
<1>1. /\ call.at = "shrinkwrite" /\ Write(call.curpos - call.by, shift_buf)
      /\ call' = IF Len(shift_buf) = CHUNK_SIZE
                 THEN [call EXCEPT !.at = "shrink", !.curpos = @ + CHUNK_SIZE]
                 ELSE [call EXCEPT !.at = "truncate"]
      /\ UNCHANGED <<os, installed, crashes>>
  BY DEF ShrinkWrite
<1>2. Typed /\ Good(file) /\ CallInv
  BY <1>1, InCall DEF Stages
<1>3. PICK o \in Seq(Cell) : Found(o) /\ Shifted(call, file, o)
  BY <1>1, InCall DEF Stages
<1>4. call \in Locals /\ shift_buf = Read(call.curpos, CHUNK_SIZE)
  BY <1>1, <1>2 DEF CallInv
<1>5. PICK by \in Nat \ {0} : by = call.by /\ by \in 1 .. Entry(o)
  <2>1. call.by \in Nat \ {0} /\ Entry(o) = call.by + Size(call.v)
    BY <1>1, <1>3 DEF Shifted, Shrinks
  <2>2. Size(call.v) \in Nat
    BY <1>4, Constants DEF Locals, Releases
  <2> QED BY <2>1, <2>2
<1>6. PICK curpos \in Int, w \in Int : curpos = call.curpos /\ w = curpos - by /\ w + by = curpos
  BY <1>4 DEF Locals
<1>7. Good(o) /\ Shrunk(file, o, by, w) /\ Write(w, Read(w + by, CHUNK_SIZE))
  BY <1>1, <1>3, <1>4, <1>5, <1>6 DEF Shifted, Found
<1>8. PICK g : g = file'
  OBVIOUS
<1>9. PICK n \in Nat : n = Len(shift_buf)
  <2>1. Len(Read(w + by, CHUNK_SIZE)) \in Nat
    <3>1. w \in Before .. Len(o) - by /\ file \in Seq(Cell) /\ Len(file) = Len(o)
      BY <1>7 DEF Shrunk
    <3>2. Len(o) \in Nat /\ Before \in Nat
      BY <1>7, EntryBefore, Constants
    <3>3. PICK x \in Nat : x = w + by /\ x <= Len(file)
      BY <3>1, <3>2
    <3>4. Read(x, CHUNK_SIZE) \in Seq(Cell)
      BY <3>1, <3>3, Constants, ReadCells
    <3> QED BY <3>3, <3>4, Cells
  <2> QED BY <1>4, <1>6, <2>1
<1>10. Shrunk(g, o, by, w + n) /\ (n # CHUNK_SIZE => w + n = Len(o) - by)
  BY <1>2, <1>4, <1>5, <1>6, <1>7, <1>8, <1>9, ShrunkMore, Constants
<1>11. Good(g)
  BY <1>2, <1>5, <1>7, <1>10, ShrunkGood
<1>12. PICK c : c = call'
  OBVIOUS
<1>13. /\ c \in Locals /\ c.at \in {"shrink", "truncate"} /\ c.v = call.v /\ c.by = by
       /\ c.at = "shrink" => n = CHUNK_SIZE /\ c.curpos = curpos + CHUNK_SIZE
       /\ c.at = "truncate" => n # CHUNK_SIZE
  <2>1. curpos + CHUNK_SIZE \in Int
    BY Constants
  <2>2. CASE n = CHUNK_SIZE
    <3>1. c = [call EXCEPT !.at = "shrink", !.curpos = curpos + CHUNK_SIZE]
      BY <1>1, <1>6, <1>9, <1>12, <2>2
    <3> QED BY <1>4, <1>5, <2>1, <2>2, <3>1 DEF Locals, Stages
  <2>3. CASE n # CHUNK_SIZE
    <3>1. c = [call EXCEPT !.at = "truncate"]
      BY <1>1, <1>9, <1>12, <2>3
    <3> QED BY <1>4, <1>5, <2>3, <3>1 DEF Locals, Stages
  <2> QED BY <2>2, <2>3
<1>14. Shifted(c, g, o)
  <2>1. Shrinks(c, o)
    BY <1>1, <1>3, <1>5, <1>13 DEF Shifted, Shrinks
  <2>2. curpos + CHUNK_SIZE - by = w + CHUNK_SIZE
    BY <1>6, Constants
  <2>3. c.at = "shrink" => Shrunk(g, o, c.by, c.curpos - c.by)
    BY <1>10, <1>13, <2>2
  <2>4. c.at = "truncate" => Shrunk(g, o, c.by, Len(o) - c.by)
    BY <1>10, <1>13
  <2> QED BY <1>13, <2>1, <2>3, <2>4 DEF Shifted
<1>15. CallInv'
  BY <1>12, <1>13 DEF CallInv
<1> QED BY <1>1, <1>2, <1>3, <1>8, <1>11, <1>12, <1>14, <1>15, CallGoesOn

\* The place is there: what is left is to write the entry.
LEMMA PlaceIsThere ==
    ASSUME Typed, UNCHANGED <<os, installed, crashes>>, NEW g, g = file', Good(g),
           NEW o \in Seq(Cell), Found(o), call' \in Locals, call'.at = "header",
           call'.v # NoVersion, Place(g, call'.v)
    PROVE  IInv'
<1>1. PICK c : c = call'
  OBVIOUS
<1>2. Shifted(c, g, o)
  BY <1>1 DEF Shifted
<1>3. Place(file, call.v)'
  BY DEF Place, OsIn, Rest
<1>4. CallInv'
  BY <1>3 DEF CallInv
<1> QED BY <1>1, <1>2, <1>4, CallGoesOn

LEMMA TruncateKeeps == ASSUME IInv, Truncate PROVE IInv'
<1>1. call.at = "truncate" /\ UNCHANGED <<os, crashes>>
  BY DEF Truncate
<1>2. Typed /\ Good(file) /\ CallInv
  BY <1>1, InCall DEF Stages
<1>3. PICK o \in Seq(Cell) : Found(o) /\ Shifted(call, file, o)
  BY <1>1, InCall DEF Stages
<1>4. PICK c \in Locals : c = call
  BY <1>2 DEF CallInv
\* What is cut off is in the file.
<1>4a. call.by <= Len(file)
  <2>1. Shrunk(file, o, call.by, Len(o) - call.by) /\ call.by \in Nat
    BY <1>1, <1>3 DEF Shifted, Shrinks
  <2>2. Len(o) \in Nat /\ Before \in Nat
    BY <1>2, <1>3, EntryBefore, Constants DEF Found
  <2>3. Len(file) = Len(o) /\ Len(o) - call.by \in Before .. Len(o) - call.by
    BY <2>1 DEF Shrunk
  <2> QED BY <2>1, <2>2, <2>3
<1>4b. /\ file' = Cut(call)
       /\ IF call.v = NoVersion THEN Done(NoVersion) ELSE Goes("header") /\ UNCHANGED installed
  <2>1. ~(call.by > Len(file))
    <3>1. PICK by \in Nat, l \in Nat : by = call.by /\ l = Len(file)
      BY <1>2, <1>4, EntryBefore DEF Locals
    <3> QED BY <1>4a, <3>1
  <2> QED BY <2>1 DEF Truncate, Cut
<1>5. PICK g : g = file' /\ g = Cut(c)
  BY <1>4, <1>4b
<1>6. Good(g) /\ Place(g, c.v)
  BY <1>1, <1>2, <1>3, <1>4, <1>5, PlaceCut
<1>7. CASE call.v = NoVersion
  <2>1. crashes = 0 => g = Archive(NoVersion)
    <3>1. NoVersion \in Releases /\ g \in Seq(Cell) /\ \A k \in 1 .. Before : g[k] = os[k]
      BY <1>6 DEF Releases, Good
    <3>2. crashes = 0 => /\ Len(g) = Len(os) + Size(NoVersion)
                         /\ \A k \in Rest : g[k + Size(NoVersion)] = os[k]
      BY <1>4, <1>6, <1>7 DEF Place
    <3> QED BY <1>2, <3>1, <3>2, IsArchive
  <2>2. call' = Idle /\ installed' = NoVersion /\ NoVersion \in Releases
    BY <1>4b, <1>7 DEF Done, Releases
  <2> QED BY <1>1, <1>2, <1>5, <1>6, <2>1, <2>2, CallReturns
<1>8. CASE call.v # NoVersion
  <2>1. call' \in Locals /\ call'.at = "header" /\ call'.v = c.v
    BY <1>2, <1>4, <1>4b, <1>8, Going DEF Stages
  <2> QED BY <1>1, <1>2, <1>3, <1>4, <1>4b, <1>5, <1>6, <1>8, <2>1, PlaceIsThere
<1> QED BY <1>7, <1>8

\* What the three steps of the extension start from.
LEMMA InExtension ==
    ASSUME IInv, call.at \in {"extend", "extendwrite", "extendlast"}
    PROVE  \E o \in Seq(Cell), by \in Nat \ {0}, p \in Nat :
              /\ Found(o) /\ Good(o) /\ Extends(call, o) /\ by = call.by
              /\ p = call.curpos + CHUNK_SIZE /\ p - CHUNK_SIZE = call.curpos
              /\ Extended(file, o, by, p) /\ Before <= p
<1>1. PICK o \in Seq(Cell) : Found(o) /\ Shifted(call, file, o)
  BY InCall DEF Stages
<1>2. Extends(call, o) /\ Extended(file, o, call.by, call.curpos + CHUNK_SIZE) /\ Good(o)
  BY <1>1 DEF Shifted, Found
<1>3. call.by \in Nat \ {0}
  BY <1>2 DEF Extends
<1>4. call \in Locals
  BY InCall DEF Stages, CallInv
<1>5. PICK curpos \in Int : curpos = call.curpos
  BY <1>4 DEF Locals
<1>6. PICK p \in Int : p = curpos + CHUNK_SIZE /\ p - CHUNK_SIZE = curpos
  BY Constants
<1>7. p \in Before .. Len(o)
  BY <1>2, <1>5, <1>6 DEF Extended
<1>8. p \in Nat /\ Before <= p
  BY <1>2, <1>7, EntryBefore, Constants
<1> QED BY <1>1, <1>2, <1>3, <1>5, <1>6, <1>8

LEMMA ExtendReadKeeps == ASSUME IInv, ExtendRead PROVE IInv'
<1>1. call.at = "extend" /\ UNCHANGED <<file, os, installed, crashes>>
  BY DEF ExtendRead
<1>2. Typed /\ Good(file) /\ CallInv /\ call \in Locals
  BY <1>1, InCall DEF Stages, CallInv
<1>3. PICK o \in Seq(Cell), by \in Nat \ {0}, p \in Nat :
         /\ Found(o) /\ Good(o) /\ Extends(call, o) /\ by = call.by
         /\ p = call.curpos + CHUNK_SIZE /\ p - CHUNK_SIZE = call.curpos
         /\ Extended(file, o, by, p) /\ Before <= p
  BY <1>1, InExtension
<1>4. PICK c : c = call'
  OBVIOUS
<1>5. CASE call.curpos >= Before
  <2>1. shift_buf' = Read(call.curpos, CHUNK_SIZE) /\ Goes("extendwrite")
    BY <1>5 DEF ExtendRead
  <2>2. /\ c \in Locals /\ c.at = "extendwrite" /\ c.v = call.v
        /\ c.by = call.by /\ c.curpos = call.curpos
    BY <1>2, <1>4, <2>1, Going DEF Stages
  <2>3. Shifted(c, file, o)
    BY <1>3, <2>2 DEF Shifted, Extends
  <2>4. CallInv'
    BY <1>1, <1>4, <1>5, <2>1, <2>2 DEF CallInv, Read
  <2> QED BY <1>1, <1>2, <1>3, <1>4, <2>3, <2>4, CallGoesOn
<1>6. CASE ~(call.curpos >= Before) /\ call.curpos + CHUNK_SIZE - Before # 0
  <2>1. shift_buf' = Read(Before, call.curpos + CHUNK_SIZE - Before) /\ Goes("extendlast")
    BY <1>6 DEF ExtendRead
  <2>2. /\ c \in Locals /\ c.at = "extendlast" /\ c.v = call.v
        /\ c.by = call.by /\ c.curpos = call.curpos
    BY <1>2, <1>4, <2>1, Going DEF Stages
  <2>3. Shifted(c, file, o)
    BY <1>3, <2>2 DEF Shifted, Extends
  <2>4. c.curpos + CHUNK_SIZE # Before
    BY <1>3, <1>6, <2>2, Constants
  <2>5. CallInv'
    BY <1>1, <1>4, <2>1, <2>2, <2>4 DEF CallInv, Read
  <2> QED BY <1>1, <1>2, <1>3, <1>4, <2>3, <2>5, CallGoesOn
<1>7. CASE ~(call.curpos >= Before) /\ ~(call.curpos + CHUNK_SIZE - Before # 0)
  <2>1. Goes("header")
    BY <1>7 DEF ExtendRead
  <2>2. call' \in Locals /\ call'.at = "header" /\ call'.v = call.v
    BY <1>2, <2>1, Going DEF Stages
  <2>3. p = Before
    BY <1>3, <1>7, Constants
  <2>4. Place(file, call.v) /\ call.v # NoVersion
    BY <1>2, <1>3, <2>3, PlaceMade DEF Extends
  <2> QED BY <1>1, <1>2, <1>3, <2>2, <2>4, PlaceIsThere
<1> QED BY <1>5, <1>6, <1>7

LEMMA ExtendWriteKeeps == ASSUME IInv, ExtendWrite PROVE IInv'
<1>1. /\ call.at = "extendwrite" /\ Write(call.curpos + call.by, shift_buf)
      /\ call' = [call EXCEPT !.at = "extend", !.curpos = @ - CHUNK_SIZE]
      /\ UNCHANGED <<os, installed, crashes>>
  BY DEF ExtendWrite
<1>2. Typed /\ Good(file) /\ CallInv /\ call \in Locals
  BY <1>1, InCall DEF Stages, CallInv
<1>3. PICK o \in Seq(Cell), by \in Nat \ {0}, p \in Nat :
         /\ Found(o) /\ Good(o) /\ Extends(call, o) /\ by = call.by
         /\ p = call.curpos + CHUNK_SIZE /\ p - CHUNK_SIZE = call.curpos
         /\ Extended(file, o, by, p) /\ Before <= p
  BY <1>1, InExtension
<1>4. call.curpos >= Before /\ shift_buf = Read(call.curpos, CHUNK_SIZE)
  BY <1>1, <1>2 DEF CallInv
<1>5. PICK q \in Nat : q = call.curpos /\ Before <= q /\ q < p /\ p - q = CHUNK_SIZE
  <2>1. PICK q \in Int : q = call.curpos
    BY <1>2 DEF Locals
  <2> QED BY <1>3, <1>4, <2>1, Constants
<1>6. PICK g : g = file'
  OBVIOUS
<1>7. Extended(g, o, by, q)
  <2>1. Write(q + by, Read(q, p - q))
    BY <1>1, <1>3, <1>4, <1>5
  <2> QED BY <1>2, <1>3, <1>5, <1>6, <2>1, ExtendedMore
<1>8. Good(g)
  BY <1>2, <1>3, <1>7, ExtendedGood
<1>9. PICK c : c = call'
  OBVIOUS
<1>10. /\ c \in Locals /\ c.at = "extend" /\ c.v = call.v /\ c.by = by
       /\ c.curpos + CHUNK_SIZE = q
  <2>1. PICK x \in Int : x = q - CHUNK_SIZE /\ x + CHUNK_SIZE = q
    BY Constants
  <2>2. c = [call EXCEPT !.at = "extend", !.curpos = x]
    BY <1>1, <1>5, <1>9, <2>1
  <2> QED BY <1>2, <1>3, <2>1, <2>2 DEF Locals, Stages
<1>11. Shifted(c, g, o)
  BY <1>3, <1>7, <1>10 DEF Shifted, Extends
<1>12. CallInv'
  BY <1>9, <1>10 DEF CallInv
<1> QED BY <1>1, <1>2, <1>3, <1>6, <1>8, <1>9, <1>11, <1>12, CallGoesOn

LEMMA ExtendLastKeeps == ASSUME IInv, ExtendLast PROVE IInv'
<1>1. /\ call.at = "extendlast" /\ Write(Before + call.by, shift_buf)
      /\ Goes("header") /\ UNCHANGED <<os, installed, crashes>>
  BY DEF ExtendLast
<1>2. Typed /\ Good(file) /\ CallInv /\ call \in Locals
  BY <1>1, InCall DEF Stages, CallInv
<1>3. PICK o \in Seq(Cell), by \in Nat \ {0}, p \in Nat :
         /\ Found(o) /\ Good(o) /\ Extends(call, o) /\ by = call.by
         /\ p = call.curpos + CHUNK_SIZE /\ p - CHUNK_SIZE = call.curpos
         /\ Extended(file, o, by, p) /\ Before <= p
  BY <1>1, InExtension
<1>4. shift_buf = Read(Before, p - Before) /\ p # Before
  <2>1. /\ call.curpos + CHUNK_SIZE # Before
        /\ shift_buf = Read(Before, call.curpos + CHUNK_SIZE - Before)
    BY <1>1, <1>2 DEF CallInv
  <2>2. PICK x \in Int : x = call.curpos
    BY <1>2 DEF Locals
  <2>3. x + CHUNK_SIZE = p
    BY <1>3, <2>2
  <2>4. shift_buf = Read(Before, x + CHUNK_SIZE - Before) /\ x + CHUNK_SIZE # Before
    BY <2>1, <2>2
  <2> QED BY <2>3, <2>4, Constants
<1>5. PICK g : g = file'
  OBVIOUS
<1>6. Extended(g, o, by, Before)
  <2>1. PICK q \in Nat : q = Before /\ q < p
    BY <1>3, <1>4, Constants
  <2>2. Write(q + by, Read(q, p - q))
    BY <1>1, <1>3, <1>4, <2>1
  <2>3. Extended(g, o, by, q)
    BY <1>2, <1>3, <1>5, <2>1, <2>2, ExtendedMore
  <2> QED BY <2>1, <2>3
<1>7. call' \in Locals /\ call'.at = "header" /\ call'.v = call.v
  BY <1>1, <1>2, Going DEF Stages
<1>8. Good(g) /\ Place(g, call.v) /\ call.v # NoVersion
  BY <1>2, <1>3, <1>6, PlaceMade DEF Extends
<1> QED BY <1>1, <1>2, <1>3, <1>5, <1>7, <1>8, PlaceIsThere

\* What the two steps that write the entry start from.
LEMMA InEntry ==
    ASSUME IInv, call.at \in {"header", "payload"}
    PROVE  /\ Typed /\ Good(file) /\ call \in Locals /\ call.v \in Versions
           /\ \E z \in Nat, l \in Nat :
                 /\ z = PatchSize[call.v] /\ z + 1 = Size(call.v) /\ 0 < z /\ l = Len(file)
                 /\ OsIn(file, Before + (z + 1)) /\ Before + (z + 1) < l
                 /\ crashes = 0 => /\ l = Len(os) + (z + 1)
                                   /\ \A k \in Rest : file[k + (z + 1)] = os[k]
<1>1. Typed /\ Good(file) /\ CallInv
  BY InCall DEF Stages
<1>2. call \in Locals /\ call.v # NoVersion /\ Place(file, call.v)
  BY <1>1 DEF CallInv
<1>3. call.v \in Versions
  BY <1>2 DEF Locals, Releases
<1>4. PICK z \in Nat : z = PatchSize[call.v] /\ z + 1 = Size(call.v) /\ 0 < z
  BY <1>3, Constants
<1>5. PICK l \in Nat : l = Len(file)
  BY <1>1, EntryBefore
<1>6. OsIn(file, Before + (z + 1))
  BY <1>2, <1>4 DEF Place
<1>7. Before + (z + 1) < l
  <2>1. Before + (z + 1) \in Nat /\ file \in Seq(Cell)
    BY <1>1, Constants DEF Good
  <2> QED BY <1>1, <1>5, <1>6, <2>1, RestBeyond
<1>8. crashes = 0 => /\ l = Len(os) + (z + 1)
                     /\ \A k \in Rest : file[k + (z + 1)] = os[k]
  BY <1>2, <1>4, <1>5 DEF Place
<1> QED BY <1>1, <1>2, <1>3, <1>4, <1>5, <1>6, <1>7, <1>8

\* The header is written, of a size that is not to be found if it is another.
LEMMA HeaderWritten ==
    ASSUME IInv, call.at = "header", NEW size \in Nat,
           IsHeader(AtDest) => size = PatchSize[call.v],
           Write(Before, <<Named(AtDest, size)>>)
    PROVE  Good(file') /\ Place(file', call.v)
<1>2. /\ Typed /\ Good(file) /\ call \in Locals /\ call.v \in Versions /\ CallInv
      /\ file \in Seq(Cell) /\ Before \in Nat
  BY InEntry, InCall, Constants DEF Stages, Good
<1>3. PICK z \in Nat, l \in Nat :
         /\ z = PatchSize[call.v] /\ z + 1 = Size(call.v) /\ 0 < z /\ l = Len(file)
         /\ OsIn(file, Before + (z + 1)) /\ Before + (z + 1) < l
         /\ crashes = 0 => /\ l = Len(os) + (z + 1)
                           /\ \A k \in Rest : file[k + (z + 1)] = os[k]
  BY InEntry
<1>4. PICK h \in Cell : h = Named(AtDest, size) /\ (IsHeader(h) => h[2] = z)
  <2>1. AtDest \in Cell
    <3>1. Before < Len(file) /\ Before + 1 \in 1 .. Len(file)
      BY <1>2, <1>3
    <3> QED BY <1>2, <3>1, Cells DEF AtDest
  <2>2. CASE IsHeader(AtDest)
    BY <1>3, <2>2, CellKinds DEF Named, IsHeader
  <2>3. CASE ~IsHeader(AtDest) /\ AtDest \in {OsCell(Before + 1), Boot2}
    <3>1. Named(AtDest, size) = Boot2
      BY <2>3 DEF Named, IsHeader
    <3> QED BY <3>1, CellKinds
  <2>4. CASE ~IsHeader(AtDest) /\ ~(AtDest \in {OsCell(Before + 1), Boot2})
    <3>1. Named(AtDest, size) = AtDest
      BY <2>4 DEF Named, IsHeader
    <3> QED BY <2>1, <2>4, <3>1
  <2> QED BY <2>2, <2>3, <2>4
<1>5. PICK cells \in Seq(Cell) : /\ cells = <<h>> /\ Len(cells) = 1
                                 /\ cells[1] = h
  <2>1. <<h>> \in Seq(Cell) /\ Len(<<h>>) = 1 /\ <<h>>[1] = h
    OBVIOUS
  <2> QED BY <2>1
<1>6. PICK g : g = file'
  OBVIOUS
<1>7. /\ g \in Seq(Cell) /\ Len(g) = l
      /\ \A i \in 1 .. l : i # Before + 1 => g[i] = file[i]
      /\ g[Before + 1] = h
  <2>1. Write(Before, cells)
    BY <1>4, <1>5
  <2>2. /\ g \in Seq(Cell) /\ Len(g) = IF Before + 1 > l THEN Before + 1 ELSE l
        /\ \A i \in 1 .. Len(g) : g[i] = IF i > Before /\ i <= Before + 1 THEN cells[i - Before]
                                        ELSE IF i <= l THEN file[i] ELSE Gap
    <3>1. /\ file' \in Seq(Cell)
          /\ Len(file') = IF Before + Len(cells) > Len(file)
                          THEN Before + Len(cells) ELSE Len(file)
          /\ \A i \in 1 .. Len(file') :
                file'[i] = IF i > Before /\ i <= Before + Len(cells) THEN cells[i - Before]
                           ELSE IF i <= Len(file) THEN file[i] ELSE Gap
      BY <1>2, <2>1, Written
    <3> QED BY <1>3, <1>5, <1>6, <3>1
  <2>3. Len(g) = l
    BY <1>2, <1>3, <2>2
  <2>4. ASSUME NEW i \in 1 .. l, i # Before + 1 PROVE g[i] = file[i]
    BY <1>2, <2>2, <2>3, <2>4
  <2>5. g[Before + 1] = h
    <3>1. PICK i \in 1 .. l : i = Before + 1 /\ i > Before /\ i <= Before + 1 /\ i - Before = 1
      BY <1>2, <1>3
    <3>2. g[i] = cells[i - Before]
      BY <2>2, <2>3, <3>1
    <3> QED BY <1>5, <3>1, <3>2
  <2> QED BY <2>2, <2>3, <2>4, <2>5
<1>8. Good(g) /\ OsIn(g, Before + (z + 1))
  <2>1. PICK e \in Nat, m \in Nat : e = z + 1 /\ m = Before + 1 /\ m <= Before + e
    BY <1>2
  <2>2. ASSUME NEW i \in 1 .. Len(file), i <= Before \/ i > m PROVE g[i] = file[i]
    <3>1. i \in 1 .. l /\ i # Before + 1
      BY <1>2, <1>3, <2>1, <2>2
    <3> QED BY <1>7, <3>1
  <2>3. ASSUME NEW i \in Before + 1 .. m, IsHeader(g[i]) PROVE i + g[i][2] = Before + e
    <3>1. i = Before + 1
      BY <1>2, <2>1
    <3>2. g[i][2] = z
      BY <1>4, <1>7, <2>3, <3>1
    <3> QED BY <1>2, <2>1, <3>1, <3>2
  <2>4. OsIn(file, Before + e) /\ Len(g) = Len(file)
    BY <1>3, <1>7, <2>1
  <2> QED BY <1>2, <1>7, <2>1, <2>2, <2>3, <2>4, Overwritten
<1>9. Place(g, call.v)
  <2>1. ASSUME crashes = 0, NEW k \in Rest PROVE g[k + (z + 1)] = os[k]
    <3>1. PICK x \in Nat : x = k /\ Before < x /\ x <= Len(os) /\ Len(os) \in Nat
      BY <1>2, Cells DEF Rest, Typed
    <3>2. x + (z + 1) \in 1 .. l /\ x + (z + 1) # Before + 1
      <4>1. PICK n \in Nat : n = Len(os) /\ l = n + (z + 1)
        BY <1>3, <2>1, <3>1
      <4> QED BY <1>2, <3>1, <4>1
    <3>3. g[x + (z + 1)] = file[x + (z + 1)]
      BY <1>7, <3>2
    <3> QED BY <1>3, <2>1, <3>1, <3>3
  <2> QED BY <1>3, <1>7, <1>8, <2>1 DEF Place
<1> QED BY <1>6, <1>8, <1>9

LEMMA WriteHeaderKeeps == ASSUME IInv, WriteHeader PROVE IInv'
<1>1. /\ call.at = "header" /\ Write(Before, <<Named(AtDest, PatchSize[call.v])>>)
      /\ Goes("payload") /\ UNCHANGED <<os, installed, crashes>>
  BY DEF WriteHeader
<1>2. Typed /\ call \in Locals /\ call.v \in Versions /\ CallInv
  BY <1>1, InEntry, InCall DEF Stages
<1>3. PICK o \in Seq(Cell) : Found(o)
  BY <1>1, InCall DEF Stages
<1>4. PICK g : g = file'
  OBVIOUS
<1>5. Good(g) /\ Place(g, call.v)
  <2>1. PatchSize[call.v] \in Nat
    BY <1>2, Constants
  <2> QED BY <1>1, <1>4, <2>1, HeaderWritten
<1>6. PICK c : c = call'
  OBVIOUS
<1>7. c \in Locals /\ c.at = "payload" /\ c.v = call.v
  BY <1>1, <1>2, <1>6, Going DEF Stages
<1>8. Shifted(c, g, o)
  BY <1>7 DEF Shifted
<1>9. CallInv'
  <2>1. Place(file, call.v)'
    BY <1>1, <1>4, <1>5, <1>6, <1>7 DEF Place, OsIn, Rest
  <2>2. c.v # NoVersion
    BY <1>2, <1>7, Constants
  <2> QED BY <1>6, <1>7, <2>1, <2>2 DEF CallInv
<1> QED BY <1>1, <1>2, <1>3, <1>4, <1>5, <1>6, <1>8, <1>9, CallGoesOn

\* The entry is written, or its first n cells are.
LEMMA EntryWritten ==
    ASSUME IInv, call.at = "payload", NEW n \in 1 .. PatchSize[call.v] + 1,
           NEW cells \in Seq(Cell), Len(cells) = n,
           \A k \in 1 .. n : cells[k] = PkFile(call.v)[k], Write(Before, cells)
    PROVE  /\ Good(file') /\ Len(file') = Len(file)
           /\ \A i \in 1 .. Len(file) :
                 file'[i] = IF i > Before /\ i <= Before + n THEN cells[i - Before] ELSE file[i]
<1>1. /\ Typed /\ Good(file) /\ call \in Locals /\ call.v \in Versions
      /\ file \in Seq(Cell) /\ Before \in Nat
  BY InEntry, Constants DEF Good
<1>2. PICK z \in Nat, l \in Nat :
         /\ z = PatchSize[call.v] /\ l = Len(file)
         /\ OsIn(file, Before + (z + 1)) /\ Before + (z + 1) < l
  BY InEntry
<1>3. PICK g : g = file'
  OBVIOUS
<1>4. n \in Nat /\ n <= z + 1
  BY <1>2
<1>5. /\ g \in Seq(Cell) /\ Len(g) = l
      /\ \A i \in 1 .. l : g[i] = IF i > Before /\ i <= Before + n THEN cells[i - Before]
                                  ELSE file[i]
  <2>1. /\ g \in Seq(Cell)
        /\ Len(g) = IF Before + Len(cells) > Len(file) THEN Before + Len(cells) ELSE Len(file)
        /\ \A i \in 1 .. Len(g) :
              g[i] = IF i > Before /\ i <= Before + Len(cells) THEN cells[i - Before]
                     ELSE IF i <= Len(file) THEN file[i] ELSE Gap
    BY <1>1, <1>3, Written
  <2>2. Len(g) = l
    BY <1>1, <1>2, <1>4, <2>1
  <2> QED BY <1>2, <2>1, <2>2
<1>6. Good(g)
  <2>1. PICK e \in Nat, m \in Nat : e = z + 1 /\ m = Before + n /\ m <= Before + e
    <3>1. PICK b \in Nat, k \in Nat : b = Before /\ k = n /\ k <= z + 1
      BY <1>1, <1>4
    <3> QED BY <3>1
  <2>2. ASSUME NEW i \in 1 .. l, i <= Before \/ i > m PROVE g[i] = file[i]
    <3>1. ~(i > Before /\ i <= Before + n)
      BY <1>1, <2>1, <2>2
    <3> QED BY <1>5, <2>2, <3>1
  <2>3. ASSUME NEW i \in Before + 1 .. m, IsHeader(g[i]) PROVE i + g[i][2] = Before + e
    <3>1. PICK k \in 1 .. n : k = i - Before /\ i = Before + k
      <4>1. i - Before \in 1 .. n /\ i = Before + (i - Before)
        BY <1>1, <1>4, <2>1
      <4> QED BY <4>1
    <3>2. i \in 1 .. l /\ i > Before /\ i <= Before + n
      BY <1>1, <1>2, <1>4, <2>1
    <3>3. g[i] = PkFile(call.v)[k]
      BY <1>5, <3>1, <3>2
    <3>4. CASE k = 1
      <4>1. g[i] = Header(z)
        BY <1>1, <1>2, <3>3, <3>4, PkFileCells
      <4>2. g[i][2] = z
        BY <4>1, CellKinds
      <4> QED BY <1>1, <2>1, <3>1, <3>4, <4>2
    <3>5. CASE k # 1
      <4>1. PICK x \in 1 .. z : 1 + x = k
        <5>1. k - 1 \in 1 .. z /\ 1 + (k - 1) = k
          BY <1>4, <3>5
        <5> QED BY <5>1
      <4>2. g[i] = DataCell(call.v, x)
        BY <1>1, <1>2, <3>3, <4>1, PkFileCells
      <4> QED BY <1>1, <2>3, <4>2, CellKinds
    <3> QED BY <3>4, <3>5
  <2>4. /\ OsIn(file, Before + e) /\ Len(g) = Len(file)
        /\ \A i \in 1 .. Len(file) : i <= Before \/ i > m => g[i] = file[i]
    BY <1>2, <1>5, <2>1, <2>2
  <2> QED BY <1>1, <1>5, <2>1, <2>3, <2>4, Overwritten
<1> QED BY <1>2, <1>3, <1>5, <1>6

LEMMA WritePayloadKeeps == ASSUME IInv, WritePayload PROVE IInv'
<1>1. /\ call.at = "payload" /\ Done(call.v) /\ UNCHANGED <<os, crashes>>
      /\ Write(Before, PkFile(call.v))
  BY DEF WritePayload
<1>2. /\ Typed /\ Good(file) /\ call \in Locals /\ call.v \in Versions
      /\ file \in Seq(Cell) /\ Before \in Nat
  BY <1>1, InEntry, Constants DEF Good
<1>3. PICK z \in Nat, l \in Nat :
         /\ z = PatchSize[call.v] /\ z + 1 = Size(call.v) /\ 0 < z /\ l = Len(file)
         /\ Before + (z + 1) < l
         /\ crashes = 0 => /\ l = Len(os) + (z + 1)
                           /\ \A k \in Rest : file[k + (z + 1)] = os[k]
  BY <1>1, InEntry
<1>4. PICK cells \in Seq(Cell) : cells = PkFile(call.v)
  BY <1>2, PkFileCells
<1>5. /\ Len(cells) = z + 1 /\ cells[1] = Header(z)
      /\ \A k \in 1 .. z : cells[1 + k] = DataCell(call.v, k)
  BY <1>2, <1>3, <1>4, PkFileCells
<1>6. PICK g : g = file'
  OBVIOUS
<1>7. /\ Good(g) /\ Len(g) = l
      /\ \A i \in 1 .. l : g[i] = IF i > Before /\ i <= Before + (z + 1) THEN cells[i - Before]
                                  ELSE file[i]
  <2>1. PICK n \in 1 .. PatchSize[call.v] + 1 : n = z + 1
    BY <1>3
  <2>2. Len(cells) = n /\ \A k \in 1 .. n : cells[k] = PkFile(call.v)[k]
    BY <1>4, <1>5, <2>1
  <2>3. Write(Before, cells)
    BY <1>1, <1>4
  <2> QED BY <1>1, <1>3, <1>6, <2>1, <2>2, <2>3, EntryWritten
<1>8. ASSUME crashes = 0 PROVE g = Archive(call.v)
  <2>1. ASSUME NEW k \in Rest PROVE g[k + (z + 1)] = os[k]
    <3>1. PICK x \in Nat : x = k /\ Before < x /\ x <= Len(os) /\ Len(os) \in Nat
      BY <1>2, Cells DEF Rest, Typed
    <3>2. x + (z + 1) \in 1 .. l /\ ~(x + (z + 1) <= Before + (z + 1))
      <4>1. PICK t \in Nat : t = Len(os) /\ l = t + (z + 1)
        BY <1>3, <1>8, <3>1
      <4> QED BY <1>2, <3>1, <4>1
    <3>3. g[x + (z + 1)] = file[x + (z + 1)]
      BY <1>7, <3>2
    <3> QED BY <1>3, <1>8, <3>1, <3>3
  <2>2. call.v \in Releases /\ Len(g) = Len(os) + Size(call.v)
    BY <1>2, <1>3, <1>7, <1>8 DEF Releases
  <2>3. g \in Seq(Cell) /\ \A k \in 1 .. Before : g[k] = os[k]
    BY <1>7 DEF Good
  <2>4. \A k \in Rest : g[k + Size(call.v)] = os[k]
    BY <1>3, <2>1
  <2>5. ASSUME NEW k \in 1 .. z + 1 PROVE g[Before + k] = cells[k]
    <3>0. PICK b \in Nat : b = Before /\ b + (z + 1) < l
      BY <1>2, <1>3
    <3>1. /\ Before + k \in 1 .. l /\ Before + k > Before /\ Before + k <= Before + (z + 1)
          /\ Before + k - Before = k
      BY <3>0
    <3>2. PICK i \in 1 .. l : i = Before + k
      BY <3>1
    <3>3. i > Before /\ i <= Before + (z + 1) /\ i - Before = k
      BY <3>0, <3>2
    <3>4. g[i] = cells[i - Before]
      BY <1>7, <3>3
    <3> QED BY <3>2, <3>3, <3>4
  <2>6. g[Before + 1] = Header(z)
    BY <1>3, <1>5, <2>5
  <2>7. ASSUME NEW k \in 1 .. z PROVE g[Before + 1 + k] = DataCell(call.v, k)
    <3>1. 1 + k \in 1 .. z + 1 /\ Before + (1 + k) = Before + 1 + k
      BY <1>2
    <3>2. g[Before + (1 + k)] = cells[1 + k]
      BY <2>5, <3>1
    <3> QED BY <1>5, <3>1, <3>2
  <2> QED BY <1>2, <1>3, <2>2, <2>3, <2>4, <2>6, <2>7, IsArchive
<1>9. call' = Idle /\ installed' = call.v /\ call.v \in Releases
  BY <1>1, <1>2 DEF Done, Releases
<1> QED BY <1>1, <1>2, <1>6, <1>7, <1>8, <1>9, CallReturns

----------------------------------------------------------------------------
(***************************************************************************)
(* A call begins, or is interrupted.                                       *)
(***************************************************************************)

\* What a call that begins has found.
LEMMA Beginning ==
    ASSUME IInv, call = Idle
    PROVE  /\ Typed /\ Found(file) /\ Good(file) /\ file \in Seq(Cell) /\ EntryFound = Entry(file)
           /\ \E e \in Nat, l \in Nat : e = Entry(file) /\ l = Len(file) /\ Before + e < l
<1>1. Typed /\ Good(file) /\ Found(file) /\ file \in Seq(Cell)
  BY DEF IInv, WholeWhenDone, Found, Good
<1>2. EntryFound = Entry(file)
  BY <1>1 DEF EntryFound, AtDest, Entry, IsHeader, Good
<1>3. PICK e \in Nat, l \in Nat : e = Entry(file) /\ l = Len(file)
  BY <1>1, EntryBefore
<1>4. Before + e < l
  <2>1. OsIn(file, Before + e) /\ Before + e \in Nat
    BY <1>1, <1>3, EntryBefore, Constants
  <2> QED BY <1>1, <1>3, <2>1, RestBeyond
<1> QED BY <1>1, <1>2, <1>3, <1>4

\* A call that begins with these locals goes on with the invariant.
LEMMA BeginKeeps ==
    ASSUME IInv, NEW at \in {"shrink", "extend", "header"}, NEW v \in Releases,
           NEW by \in Nat, NEW curpos \in Int, Begin(at, v, by, curpos),
           at = "shrink" => by # 0 /\ Entry(file) = by + Size(v) /\ curpos - by = Before,
           at = "extend" => /\ by # 0 /\ v # NoVersion /\ Size(v) = Entry(file) + by
                            /\ curpos + CHUNK_SIZE = Len(file),
           at = "header" => v # NoVersion /\ Size(v) = Entry(file)
    PROVE  IInv'
<1>1. /\ call = Idle /\ call' = [at |-> at, v |-> v, by |-> by, curpos |-> curpos]
      /\ UNCHANGED <<file, os, installed, crashes>>
  BY DEF Begin
<1>2. Typed /\ Found(file) /\ Good(file) /\ file \in Seq(Cell)
  BY <1>1, Beginning
<1>3. PICK e \in Nat, l \in Nat : e = Entry(file) /\ l = Len(file) /\ Before + e < l
  BY <1>1, Beginning
<1>4. PICK c : c = call'
  OBVIOUS
<1>5. c \in Locals /\ c.at = at /\ c.v = v /\ c.by = by /\ c.curpos = curpos
  BY <1>1, <1>4 DEF Locals, Stages
<1>6. CASE at = "shrink"
  <2>1. Shrinks(c, file)
    BY <1>5, <1>6 DEF Shrinks
  <2>2. Shrunk(file, file, c.by, Before)
    <3>1. PICK z \in Nat : z = Size(v)
      BY Constants DEF Releases
    <3>2. by <= e /\ Before \in Nat
      BY <1>3, <1>6, <3>1, Constants
    <3>3. Before \in Before .. l - by
      BY <1>3, <3>2
    <3> QED BY <1>2, <1>3, <1>5, <3>2, <3>3 DEF Shrunk
  <2>3. Shifted(c, file, file)
    BY <1>5, <1>6, <2>1, <2>2 DEF Shifted
  <2>4. CallInv'
    BY <1>4, <1>5, <1>6 DEF CallInv
  <2> QED BY <1>1, <1>2, <1>4, <2>3, <2>4, CallGoesOn
<1>7. CASE at = "extend"
  <2>1. Extends(c, file)
    BY <1>5, <1>7 DEF Extends
  <2>2. Extended(file, file, c.by, l)
    <3>1. l \in Before .. l
      BY <1>3, Constants
    <3>2. \A i \in 1 .. l : ~(i > l + by) /\ i <= l
      OBVIOUS
    <3> QED BY <1>2, <1>3, <1>5, <3>1, <3>2 DEF Extended
  <2>3. Shifted(c, file, file)
    BY <1>3, <1>5, <1>7, <2>1, <2>2 DEF Shifted
  <2>4. CallInv'
    BY <1>4, <1>5, <1>7 DEF CallInv
  <2> QED BY <1>1, <1>2, <1>4, <2>3, <2>4, CallGoesOn
<1>8. CASE at = "header"
  <2>1. OsIn(file, Before + Size(v))
    BY <1>2, <1>8, EntryBefore
  <2>2. ASSUME crashes = 0
        PROVE  /\ Len(file) = Len(os) + Size(v)
               /\ \A k \in Rest : file[k + Size(v)] = os[k]
    <3>1. PICK u \in Releases : u = installed /\ file = Archive(u)
      BY <1>2, <2>2 DEF Typed, Found
    <3>2. Size(v) = Size(u)
      BY <1>2, <1>8, <3>1, ArchiveEntry
    <3> QED BY <1>2, <3>1, <3>2, ArchiveCells
  <2>3. Place(file, v)
    BY <2>1, <2>2 DEF Place
  <2> QED BY <1>1, <1>2, <1>4, <1>5, <1>8, <2>3, PlaceIsThere
<1> QED BY <1>6, <1>7, <1>8

LEMMA InstallKeeps == ASSUME IInv, NEW v \in Versions, Install(v) PROVE IInv'
<1>1. call = Idle
  BY DEF Install, Begin
<1>2. PICK e \in Nat, l \in Nat : e = Entry(file) /\ l = Len(file) /\ e = EntryFound
  BY <1>1, Beginning
<1>3. PICK z \in Nat : z = EntrySize(v) /\ z = Size(v)
  BY Constants
<1>4. v \in Releases /\ v # NoVersion /\ Before \in Nat /\ CHUNK_SIZE \in Nat
  BY Constants DEF Releases
<1>5. CASE z < e /\ Begin("shrink", v, e - z, Before + e - z)
  <2>1. PICK by \in Nat, curpos \in Int : /\ by = e - z /\ curpos = Before + e - z /\ by # 0
                                          /\ e = by + z /\ curpos - by = Before
    <3>1. e - z \in Nat /\ e - z # 0 /\ e = e - z + z
      BY <1>4, <1>5
    <3>2. PICK by \in Nat : by = e - z /\ by # 0 /\ e = by + z
      BY <3>1
    <3>3. PICK curpos \in Int : curpos = Before + e - z
      BY <1>4
    <3>4. curpos - by = Before
      BY <1>4, <3>2, <3>3
    <3> QED BY <3>2, <3>3, <3>4
  <2>2. Begin("shrink", v, by, curpos)
    BY <1>5, <2>1
  <2> QED BY <1>2, <1>3, <1>4, <2>1, <2>2, BeginKeeps
<1>6. CASE z > e /\ Begin("extend", v, z - e, l - CHUNK_SIZE)
  <2>1. PICK by \in Nat, curpos \in Int : /\ by = z - e /\ curpos = l - CHUNK_SIZE /\ by # 0
                                          /\ z = e + by /\ curpos + CHUNK_SIZE = l
    <3>1. /\ z - e \in Nat /\ l - CHUNK_SIZE \in Int /\ z - e # 0
          /\ z = e + (z - e) /\ l - CHUNK_SIZE + CHUNK_SIZE = l
      BY <1>4, <1>6
    <3> QED BY <3>1
  <2>2. Begin("extend", v, by, curpos)
    BY <1>6, <2>1
  <2> QED BY <1>2, <1>3, <1>4, <2>1, <2>2, BeginKeeps
<1>7. CASE z = e /\ Begin("header", v, 0, 0)
  <2>1. PICK by \in Nat, curpos \in Int : by = 0 /\ curpos = 0
    OBVIOUS
  <2>2. Begin("header", v, by, curpos)
    BY <1>7, <2>1
  <2> QED BY <1>2, <1>3, <1>4, <1>7, <2>2, BeginKeeps
<1> QED BY <1>2, <1>3, <1>5, <1>6, <1>7 DEF Install

LEMMA UninstallKeeps == ASSUME IInv, Uninstall PROVE IInv'
<1>1. call = Idle
  BY DEF Uninstall, Begin
<1>2. PICK e \in Nat : e = Entry(file) /\ e = EntryFound
  BY <1>1, Beginning
<1>3. PICK curpos \in Int : curpos = Before + e /\ curpos - e = Before
  BY Constants
<1>4. e # 0 /\ Begin("shrink", NoVersion, e, curpos)
  BY <1>2, <1>3 DEF Uninstall
<1>5. NoVersion \in Releases /\ e = e + Size(NoVersion)
  BY Constants DEF Releases
<1> QED BY <1>2, <1>3, <1>4, <1>5, BeginKeeps

\* An interruption that leaves such a file.
LEMMA InterruptedKeeps == ASSUME IInv, Interrupted, NEW g, g = file', Good(g) PROVE IInv'
<1>1. call' = Idle /\ crashes' = crashes + 1 /\ UNCHANGED <<os, installed>>
  BY DEF Interrupted
<1>2. Typed
  BY DEF IInv
<1>3. crashes' \in Nat /\ crashes' # 0
  BY <1>1, <1>2 DEF Typed
<1>4. Typed'
  BY <1>1, <1>2, <1>3 DEF Typed
<1>5. Good(file)'
  <2>1. Good(g)'
    BY <1>1, Stays
  <2> QED BY <1>1, <2>1 DEF Good, OsIn, Rest
<1>6. WholeWhenDone'
  BY <1>3 DEF WholeWhenDone
<1> QED BY <1>1, <1>4, <1>5, <1>6 DEF IInv, Idle

LEMMA CrashKeeps == ASSUME IInv, Crash PROVE IInv'
<1>1. Interrupted /\ file' = file
  BY DEF Crash
<1>2. PICK g : g = file
  OBVIOUS
<1>3. Good(g)
  BY <1>2 DEF IInv
<1> QED BY <1>1, <1>2, <1>3, InterruptedKeeps

\* A chunk of which only a part is moved is a shorter one.
LEMMA CutShrinkKeeps == ASSUME IInv, CutShrink PROVE IInv'
<1>1. call.at = "shrinkwrite"
  BY DEF CutShrink
<1>2. PICK m \in 1 .. Len(shift_buf) - 1 : Partly(call.curpos - call.by, shift_buf, m)
  BY DEF CutShrink
<1>3. Write(call.curpos - call.by, SubSeq(shift_buf, 1, m)) /\ Interrupted
  BY <1>2 DEF Partly
<1>4. Typed /\ Good(file) /\ CallInv
  BY <1>1, InCall DEF Stages
<1>5. PICK o \in Seq(Cell) : Found(o) /\ Shifted(call, file, o)
  BY <1>1, InCall DEF Stages
<1>6. call \in Locals /\ shift_buf = Read(call.curpos, CHUNK_SIZE)
  BY <1>1, <1>4 DEF CallInv
<1>7. PICK by \in Nat \ {0} : by = call.by /\ by \in 1 .. Entry(o)
  <2>1. call.by \in Nat \ {0} /\ Entry(o) = call.by + Size(call.v)
    BY <1>1, <1>5 DEF Shifted, Shrinks
  <2>2. Size(call.v) \in Nat
    BY <1>6, Constants DEF Locals, Releases
  <2> QED BY <2>1, <2>2
<1>8. PICK curpos \in Int, w \in Int : curpos = call.curpos /\ w = curpos - by /\ w + by = curpos
  <2>1. PICK curpos \in Int : curpos = call.curpos
    BY <1>6 DEF Locals
  <2>2. PICK w \in Int : w = curpos - by /\ w + by = curpos
    OBVIOUS
  <2> QED BY <2>1, <2>2
<1>9. Good(o) /\ Shrunk(file, o, by, w)
  BY <1>1, <1>5, <1>7, <1>8 DEF Shifted, Found
<1>10. PICK x \in Nat : x = w + by /\ x <= Len(file) /\ file \in Seq(Cell)
  <2>1. w \in Before .. Len(o) - by /\ file \in Seq(Cell) /\ Len(file) = Len(o)
    BY <1>9 DEF Shrunk
  <2>2. Len(o) \in Nat /\ Before \in Nat
    BY <1>9, EntryBefore, Constants
  <2> QED BY <2>1, <2>2
<1>11. PICK n \in Nat : n = m /\ n \in 1 .. Len(Read(x, CHUNK_SIZE)) /\ Len(Read(x, CHUNK_SIZE)) \in Nat
  <2>1. PICK k \in Nat : k = Len(Read(x, CHUNK_SIZE)) /\ k = Len(shift_buf)
    <3>1. Read(x, CHUNK_SIZE) \in Seq(Cell)
      BY <1>10, Constants, ReadCells
    <3>2. shift_buf = Read(x, CHUNK_SIZE)
      BY <1>6, <1>8, <1>10
    <3> QED BY <3>1, <3>2, Cells
  <2>2. m \in Nat /\ m \in 1 .. k
    BY <2>1
  <2> QED BY <2>1, <2>2
<1>12. SubSeq(shift_buf, 1, m) = Read(x, n)
  <2>1. shift_buf = Read(x, CHUNK_SIZE)
    BY <1>6, <1>8, <1>10
  <2> QED BY <1>10, <1>11, <2>1, ReadFewer
<1>13. Write(w, Read(w + by, n))
  <2>1. call.curpos - call.by = w
    BY <1>7, <1>8
  <2> QED BY <1>3, <1>10, <1>12, <2>1
<1>14. PICK g : g = file'
  OBVIOUS
<1>15. PICK y : y = w + Len(Read(w + by, n)) /\ Shrunk(g, o, by, y)
  BY <1>4, <1>7, <1>9, <1>13, <1>14, ShrunkMore
<1>16. Good(g)
  BY <1>4, <1>7, <1>9, <1>15, ShrunkGood
<1> QED BY <1>3, <1>14, <1>16, InterruptedKeeps

\* Only the header was written: without Ndless's name it is not that of an entry.
LEMMA CutHeaderKeeps == ASSUME IInv, CutHeader PROVE IInv' \/ Doomed'
<1>1. /\ call.at = "header" /\ Write(Before, <<Named(AtDest, TemplateSize)>>)
      /\ Interrupted /\ torn' = (torn \/ AtDest[1] = "ndless")
  BY DEF CutHeader
<1>2. CASE IsHeader(AtDest)
  <2>1. torn'
    BY <1>1, <1>2 DEF IsHeader
  <2>2. crashes' \in Nat \ {0}
    BY <1>1 DEF Interrupted, IInv, Typed
  <2> QED BY <2>1, <2>2 DEF Doomed
<1>3. CASE ~IsHeader(AtDest)
  <2>1. PICK g : g = file'
    OBVIOUS
  <2>2. TemplateSize \in Nat
    BY OsFileAssumption
  <2>3. Good(g)
    BY <1>1, <1>3, <2>1, <2>2, HeaderWritten
  <2> QED BY <1>1, <2>1, <2>3, InterruptedKeeps
<1> QED BY <1>2, <1>3

LEMMA CutPayloadKeeps == ASSUME IInv, CutPayload PROVE IInv'
<1>1. call.at = "payload"
  BY DEF CutPayload
<1>2. PICK m \in 1 .. PatchSize[call.v] : Partly(Before, PkFile(call.v), m)
  BY DEF CutPayload
<1>3. Write(Before, SubSeq(PkFile(call.v), 1, m)) /\ Interrupted
  BY <1>2 DEF Partly
<1>4. call.v \in Versions
  BY <1>1, InEntry
<1>5. PICK f \in Seq(Cell) : f = PkFile(call.v) /\ Len(f) = PatchSize[call.v] + 1
  BY <1>4, PkFileCells
<1>6. PICK n \in 1 .. PatchSize[call.v] + 1 : n = m /\ n \in Nat /\ n <= Len(f)
  BY <1>4, <1>5, Constants
<1>7. PICK cells : cells = SubSeq(f, 1, n)
  OBVIOUS
<1>8. cells \in Seq(Cell) /\ Len(cells) = n /\ \A k \in 1 .. n : cells[k] = f[k]
  BY <1>5, <1>6, <1>7, FirstCells
<1>9. PICK g : g = file'
  OBVIOUS
<1>10. Good(g)
  <2>1. Write(Before, cells) /\ \A k \in 1 .. n : cells[k] = PkFile(call.v)[k]
    BY <1>3, <1>5, <1>6, <1>7, <1>8
  <2> QED BY <1>1, <1>6, <1>8, <1>9, <2>1, EntryWritten
<1> QED BY <1>3, <1>9, <1>10, InterruptedKeeps

LEMMA CutExtendDooms == ASSUME IInv, CutExtend PROVE Doomed'
<1>1. Interrupted /\ torn' = TRUE
  BY DEF CutExtend, Partly
<1>2. crashes' \in Nat \ {0}
  BY <1>1 DEF Interrupted, IInv, Typed
<1> QED BY <1>1, <1>2 DEF Doomed

LEMMA NothingDone == ASSUME IInv, UNCHANGED vars PROVE IInv'
<1>1. UNCHANGED <<file, shift_buf, call, os, installed, crashes>>
  BY DEF vars
<1>2. CASE call = Idle
  <2>1. Typed /\ Good(file) /\ WholeWhenDone
    BY DEF IInv
  <2>2. PICK v \in Releases, g \in {file} : v = installed /\ (crashes = 0 => g = Archive(v))
    BY <1>2, <2>1 DEF Typed, WholeWhenDone
  <2> QED BY <1>1, <1>2, <2>1, <2>2, CallReturns
<1>3. CASE call # Idle
  <2>1. Typed /\ Good(file) /\ CallInv
    BY <1>3 DEF IInv
  <2>2. PICK o \in Seq(Cell) : Found(o) /\ Shifted(call, file, o)
    BY <1>3 DEF IInv
  <2>3. PICK c, g : c = call /\ g = file
    OBVIOUS
  <2>4. CallInv'
    <3>1. \A offset, n : Read(offset, n)' = Read(offset, n)
      BY <1>1 DEF Read
    <3>2. Place(file, call.v)' <=> Place(file, call.v)
      BY <1>1 DEF Place, OsIn, Rest
    <3> QED BY <1>1, <2>1, <3>1, <3>2 DEF CallInv
  <2> QED BY <1>1, <2>1, <2>2, <2>3, <2>4, CallGoesOn
<1> QED BY <1>2, <1>3

LEMMA InitHolds == ASSUME Init PROVE IInv
<1>1. PICK n \in Afters : os = [k \in 1 .. Before + n |-> OsCell(k)]
  BY DEF Init
<1>2. PICK l \in Nat : l = Before + n /\ Before \in Nat /\ Before < l
  <2>1. n \in Nat \ {0} /\ Before \in Nat
    BY OsFileAssumption
  <2>2. Before + n \in Nat /\ Before < Before + n
    BY <2>1
  <2> QED BY <2>1, <2>2
<1>3. os \in [1 .. l -> Cell]
  BY <1>1, <1>2, CellKinds
<1>4. os \in Seq(Cell) /\ Len(os) = l
  BY <1>3, SeqMade
<1>5. \A k \in 1 .. l : os[k] = OsCell(k)
  BY <1>1, <1>2
<1>6. file = os /\ call = Idle /\ installed = NoVersion /\ crashes = 0
  BY DEF Init
<1>7. Typed
  BY <1>2, <1>4, <1>5, <1>6 DEF Typed, Releases
<1>8. Good(file)
  <2>1. \A k \in Rest : k \in Before + 1 .. Len(file)
    BY <1>6 DEF Rest
  <2>2. \A i \in Before + 1 .. Len(file) : ~IsHeader(file[i])
    <3>1. \A i \in Before + 1 .. l : i \in 1 .. l /\ i \in Nat
      BY <1>2
    <3> QED BY <1>4, <1>5, <1>6, <3>1, CellKinds
  <2> QED BY <1>2, <1>4, <1>6, <2>1, <2>2 DEF Good, OsIn
<1>9. file = Archive(NoVersion)
  <2>1. NoVersion \in Releases /\ Size(NoVersion) = 0
    BY Constants DEF Releases
  <2>2. \A k \in Rest : k + 0 = k
    BY <1>2, <1>4 DEF Rest
  <2>3. Len(file) = Len(os) + Size(NoVersion)
    BY <1>4, <1>6, <2>1
  <2>4. \A k \in Rest : file[k + Size(NoVersion)] = os[k]
    BY <1>6, <2>1, <2>2
  <2> QED BY <1>4, <1>6, <1>7, <2>1, <2>3, <2>4, IsArchive
<1> QED BY <1>6, <1>7, <1>8, <1>9 DEF IInv, WholeWhenDone

LEMMA NextKeeps == ASSUME IInv, [Next]_vars PROVE IInv' \/ Doomed'
<1>1. ASSUME NEW v \in Versions, Install(v) PROVE IInv'
  BY <1>1, InstallKeeps
<1>2. CASE Uninstall
  BY <1>2, UninstallKeeps
<1>3. CASE Refuse
  BY <1>3, NothingDone DEF Refuse
<1>4. CASE ShrinkRead
  BY <1>4, ShrinkReadKeeps
<1>5. CASE ShrinkWrite
  BY <1>5, ShrinkWriteKeeps
<1>6. CASE Truncate
  BY <1>6, TruncateKeeps
<1>7. CASE ExtendRead
  BY <1>7, ExtendReadKeeps
<1>8. CASE ExtendWrite
  BY <1>8, ExtendWriteKeeps
<1>9. CASE ExtendLast
  BY <1>9, ExtendLastKeeps
<1>10. CASE WriteHeader
  BY <1>10, WriteHeaderKeeps
<1>11. CASE WritePayload
  BY <1>11, WritePayloadKeeps
<1>12. CASE Crash
  BY <1>12, CrashKeeps
<1>13. CASE UNCHANGED vars
  BY <1>13, NothingDone
<1>14. CASE CutShrink
  BY <1>14, CutShrinkKeeps
<1>15. CASE CutExtend
  BY <1>15, CutExtendDooms
<1>16. CASE CutHeader
  BY <1>16, CutHeaderKeeps
<1>17. CASE CutPayload
  BY <1>17, CutPayloadKeeps
<1> QED BY <1>1, <1>2, <1>3, <1>4, <1>5, <1>6, <1>7, <1>8, <1>9, <1>10, <1>11, <1>12, <1>13,
          <1>14, <1>15, <1>16, <1>17 DEF Next, Step

\* After such a write nothing is claimed any more.
LEMMA DoomedStays == ASSUME Doomed, [Next]_vars PROVE Doomed'
<1>1. torn' /\ (crashes' = crashes \/ crashes' = crashes + 1)
  <2>1. ASSUME NEW at, NEW v, NEW by, NEW curpos, Begin(at, v, by, curpos)
        PROVE  torn' = torn /\ crashes' = crashes
    BY <2>1 DEF Begin
  <2>2. CASE (\E v \in Versions : Install(v)) \/ Uninstall \/ Refuse \/ UNCHANGED vars
    BY <2>1, <2>2 DEF Install, Uninstall, Refuse, vars, Doomed
  <2>3. CASE Step
    <3>1. torn' = torn /\ crashes' = crashes
      BY <2>3 DEF Step, ShrinkRead, ShrinkWrite, Truncate, ExtendRead, ExtendWrite, ExtendLast,
                  WriteHeader, WritePayload
    <3> QED BY <3>1 DEF Doomed
  <2>4. CASE Crash \/ CutShrink \/ CutExtend \/ CutHeader \/ CutPayload
    BY <2>4 DEF Crash, CutShrink, CutExtend, CutHeader, CutPayload, Partly, Interrupted, Doomed
  <2> QED BY <2>2, <2>3, <2>4 DEF Next
<1>2. crashes' \in Nat \ {0}
  BY <1>1 DEF Doomed
<1> QED BY <1>1, <1>2 DEF Doomed

\* One of the two holds in every state of every behaviour.
LEMMA Invariant == Spec => [](IInv \/ Doomed)
<1>1. Init => IInv
  BY InitHolds
<1>2. (IInv \/ Doomed) /\ [Next]_vars => (IInv \/ Doomed)'
  BY NextKeeps, DoomedStays
<1> QED BY <1>1, <1>2, PTL DEF Spec

----------------------------------------------------------------------------
(***************************************************************************)
(* The theorems.                                                           *)
(***************************************************************************)

\* persistent() loses no part of the OS: every cell of it is in the file wherever
\* calls are interrupted, before and after any of their reads and writes and
\* within those of the shrinking loop and of the payload, and whatever file those
\* have left to the next one.  The two writes within which this may fail are the
\* ones that OsKept names.
THEOREM OsNeverLost == Spec => []OsKept
<1>1. IInv => OsKept
  <2> SUFFICES ASSUME IInv, NEW k \in DOMAIN os PROVE \E i \in DOMAIN file : file[i] = os[k]
    BY DEF OsKept
  <2>1. Typed /\ Good(file)
    BY DEF IInv
  <2>2. /\ DOMAIN os = 1 .. Len(os) /\ Len(os) \in Nat /\ DOMAIN file = 1 .. Len(file)
        /\ Len(file) \in Nat /\ Before \in Nat /\ Before < Len(file)
    BY <2>1, Cells, Constants DEF Typed, Good
  <2>3. CASE k <= Before
    <3>1. k \in 1 .. Before /\ k \in DOMAIN file
      BY <2>2, <2>3
    <3>2. file[k] = os[k]
      BY <2>1, <3>1 DEF Good
    <3> QED BY <3>1, <3>2
  <2>4. CASE ~(k <= Before)
    <3>1. k \in Rest
      BY <2>2, <2>4 DEF Rest
    <3>2. PICK j \in Before + 1 .. Len(file) : file[j] = os[k]
      BY <2>1, <3>1 DEF Good, OsIn
    <3>3. j \in DOMAIN file
      BY <2>2
    <3> QED BY <3>2, <3>3
  <2> QED BY <2>3, <2>4
<1>2. Doomed => OsKept
  BY DEF Doomed, OsKept
<1> QED BY <1>1, <1>2, Invariant, PTL

\* A call of persistent() that is not interrupted, like those before it, leaves
\* the whole OS and the whole of the release it installs in front of boot2.cer.
THEOREM WholeWhenReturned == Spec => []WholeWhenDone
<1>1. IInv => WholeWhenDone
  BY DEF IInv
<1>2. Doomed => WholeWhenDone
  BY DEF Doomed, WholeWhenDone
<1> QED BY <1>1, <1>2, Invariant, PTL
=============================================================================
