--------------------------- MODULE LinkPortProofs ---------------------------
(***************************************************************************)
(* Proofs about LinkPort, for any width of a byte, codes of the commands,  *)
(* files and numbers of transfers and cancelled packets.  What is said of  *)
(* the packets and the variables assumes Orderly: a file is sent and the   *)
(* machine reset only while the line is quiet, and a packet is not         *)
(* cancelled within a byte.                                                *)
(***************************************************************************)
EXTENDS LinkPort, SequenceTheorems, TLAPS

Orderly == Patient /\ ~CancelMidByte /\ Resets # "any"

-----------------------------------------------------------------------------
\* The size of a packet in bits, and its bits.
Size(p) == IF HasData(p[1]) THEN 2 * Width ELSE Width
BitAt(p, j) == IF j <= Width THEN p[1][j] ELSE p[2][j - Width]

IsCommand(p) == HasData(p[1]) \/ IsPlain(p[1])
IsPacket(p)  == /\ p \in Packets /\ IsCommand(p)
                /\ Len(p) = IF HasData(p[1]) THEN 2 ELSE 1

\* The constants: bytes, and which of them are commands.
LEMMA WidthPos == Width \in Nat /\ Width >= 1
BY LinkAssumption DEF LinkAssumption

LEMMA CodeBytes == \A c \in WithData \cup NoData : Code[c] \in Bytes
BY LinkAssumption DEF LinkAssumption

LEMMA CodeInj == \A c, d \in WithData \cup NoData : Code[c] = Code[d] => c = d
<1>1. /\ DOMAIN Code = WithData \cup NoData
      /\ IsInjective(Code)
  BY LinkAssumption DEF LinkAssumption
<1> QED BY <1>1 DEF IsInjective

LEMMA Codes ==
    /\ \A c \in WithData : HasData(Code[c]) /\ ~IsPlain(Code[c])
    /\ \A c \in NoData : IsPlain(Code[c]) /\ ~HasData(Code[c])
    /\ \A b : ~(HasData(b) /\ IsPlain(b))
<1>1. \A c \in WithData, d \in NoData : Code[c] # Code[d]
  BY CodeInj DEF WithData, NoData
<1> QED BY <1>1 DEF HasData, IsPlain

LEMMA ByteSeq ==
    ASSUME NEW b \in Bytes
    PROVE  /\ b \in Seq({0, 1}) /\ Len(b) = Width
           /\ \A j \in 1..Width : b[j] \in {0, 1}
<1>1. b \in [1..Width -> {0, 1}] /\ Width \in Nat
  BY WidthPos DEF Bytes
<1> QED BY <1>1

LEMMA SeqByte ==
    ASSUME NEW s \in Seq({0, 1}), Len(s) = Width
    PROVE  s \in Bytes
BY LenProperties DEF Bytes

LEMMA UpBit ==
    ASSUME NEW x \in {0, 1}
    PROVE  /\ Up(x) \in {{1}, {2}} /\ Other(Up(x)) \in {{1}, {2}}
           /\ Bit(Up(x)) = x
           /\ Other(Other(Up(x))) = Up(x)
           /\ Up(x) \cap Wires = Up(x) /\ Wires \cap Up(x) = Up(x)
           /\ Up(x) \cap Other(Up(x)) = {} /\ Other(Up(x)) \cap Up(x) = {}
           /\ Other(Up(x)) \cap Wires = Other(Up(x))
           /\ Wires \cap Other(Up(x)) = Other(Up(x))
BY DEF Up, Other, Bit, Wires

LEMMA WireSets ==
    /\ {1} # Wires /\ {2} # Wires /\ {} # Wires /\ {1} # {} /\ {2} # {} /\ {1} # {2}
    /\ Wires \cap Wires = Wires /\ Wires \notin {{1}, {2}}
    /\ Wires \cap {} = {} /\ {} \notin {{1}, {2}}
BY DEF Wires

-----------------------------------------------------------------------------
LEMMA SizeRange ==
    ASSUME NEW p
    PROVE  /\ Size(p) \in {Width, 2 * Width} /\ Size(p) \in Nat /\ Size(p) >= 1
           /\ Width \in Nat /\ Width >= 1
BY WidthPos DEF Size

LEMMA BitsOf ==
    ASSUME NEW p, IsPacket(p)
    PROVE  /\ Bits(p) \in Seq({0, 1})
           /\ Len(Bits(p)) = Size(p)
           /\ \A j \in 1..Size(p) : Bits(p)[j] = BitAt(p, j) /\ BitAt(p, j) \in {0, 1}
<1> USE WidthPos
<1>1. CASE HasData(p[1])
  <2>1. p \in [1..2 -> Bytes] /\ Len(p) = 2
    BY <1>1 DEF IsPacket, Packets
  <2>2. /\ p[1] \in Seq({0, 1}) /\ Len(p[1]) = Width
        /\ p[2] \in Seq({0, 1}) /\ Len(p[2]) = Width
        /\ \A j \in 1..Width : p[1][j] \in {0, 1} /\ p[2][j] \in {0, 1}
    BY <2>1, ByteSeq
  <2>3. Bits(p) = p[1] \o p[2]
    BY <2>1 DEF Bits
  <2>4. /\ Bits(p) \in Seq({0, 1}) /\ Len(Bits(p)) = Width + Width
        /\ \A j \in 1..(Width + Width) :
               Bits(p)[j] = IF j <= Width THEN p[1][j] ELSE p[2][j - Width]
    <3>1. /\ p[1] \o p[2] \in Seq({0, 1}) /\ Len(p[1] \o p[2]) = Len(p[1]) + Len(p[2])
          /\ \A j \in 1..(Len(p[1]) + Len(p[2])) :
                 (p[1] \o p[2])[j] = IF j <= Len(p[1]) THEN p[1][j] ELSE p[2][j - Len(p[1])]
      BY <2>2, ConcatProperties
    <3> QED BY <2>2, <2>3, <3>1
  <2>5. Size(p) = Width + Width
    BY <1>1 DEF Size
  <2> QED BY <2>2, <2>4, <2>5 DEF BitAt
<1>2. CASE ~HasData(p[1])
  <2>1. p \in [1..1 -> Bytes] /\ Len(p) = 1
    BY <1>2 DEF IsPacket, Packets
  <2>2. /\ p[1] \in Seq({0, 1}) /\ Len(p[1]) = Width
        /\ \A j \in 1..Width : p[1][j] \in {0, 1}
    BY <2>1, ByteSeq
  <2> QED BY <1>2, <2>1, <2>2 DEF Bits, Size, BitAt
<1> QED BY <1>1, <1>2

LEMMA PacketOf ==
    ASSUME NEW buf \in [1..2 -> Bytes], IsCommand(buf)
    PROVE  /\ IsPacket(Packet(buf))
           /\ Packet(buf)[1] = buf[1]
           /\ Size(Packet(buf)) = Size(buf)
           /\ HasData(buf[1]) => Packet(buf) = buf
           /\ ~HasData(buf[1]) => Packet(buf) = <<buf[1]>>
           /\ \A j \in 1..Size(buf) : /\ BitAt(Packet(buf), j) = BitAt(buf, j)
                                      /\ BitAt(buf, j) \in {0, 1}
<1> USE WidthPos
<1>1. CASE HasData(buf[1])
  <2>1. Packet(buf) = buf /\ Len(buf) = 2
    BY <1>1 DEF Packet
  <2>2. IsPacket(buf)
    BY <1>1, <2>1 DEF IsPacket, Packets
  <2> QED BY <1>1, <2>1, <2>2, BitsOf
<1>2. CASE ~HasData(buf[1])
  <2>1. /\ Packet(buf) = <<buf[1]>> /\ Len(<<buf[1]>>) = 1 /\ <<buf[1]>>[1] = buf[1]
        /\ buf[1] \in Bytes
    BY <1>2 DEF Packet
  <2>2. <<buf[1]>> \in [1..1 -> Bytes]
    BY <2>1
  <2>3. IsPacket(Packet(buf))
    BY <1>2, <2>1, <2>2 DEF IsPacket, Packets, IsCommand
  <2>4. /\ Size(Packet(buf)) = Width /\ Size(buf) = Width
    BY <1>2, <2>1 DEF Size
  <2>5. \A j \in 1..Width : BitAt(Packet(buf), j) = BitAt(buf, j)
    BY <2>1 DEF BitAt
  <2> QED BY <1>2, <2>1, <2>3, <2>4, <2>5, BitsOf
<1> QED BY <1>1, <1>2

\* The bits that the calculator has got are a whole packet when they are all.
Agrees(bits, buf, n) == /\ Len(bits) = n
                        /\ \A j \in 1..n : bits[j] = BitAt(buf, j)

LEMMA FirstByte ==
    ASSUME NEW buf \in [1..2 -> Bytes], NEW bits \in Seq({0, 1}), NEW n \in Nat,
           Agrees(bits, buf, n), n >= Width
    PROVE  SubSeq(bits, 1, Width) = buf[1]
<1> USE WidthPos
<1>1. \A i \in 1..Width : bits[i] \in {0, 1} /\ bits[i] = buf[1][i]
  BY ElementOfSeq DEF Agrees, BitAt
<1>2. /\ SubSeq(bits, 1, Width) \in Seq({0, 1})
      /\ Len(SubSeq(bits, 1, Width)) = Width
      /\ \A i \in 1..Width : SubSeq(bits, 1, Width)[i] = bits[i]
  BY <1>1, SubSeqProperties, Width >= 1, Width - 1 + 1 = Width
<1>3. buf[1] \in Seq({0, 1}) /\ Len(buf[1]) = Width
  BY ByteSeq
<1> QED BY <1>1, <1>2, <1>3, SeqEqual

LEMMA SecondByte ==
    ASSUME NEW buf \in [1..2 -> Bytes], NEW bits \in Seq({0, 1}),
           Agrees(bits, buf, 2 * Width)
    PROVE  SubSeq(bits, Width + 1, 2 * Width) = buf[2]
<1> USE WidthPos
<1>1. \A i \in (Width + 1)..(2 * Width) : bits[i] \in {0, 1} /\ bits[i] = buf[2][i - Width]
  BY ElementOfSeq DEF Agrees, BitAt
<1>2. /\ SubSeq(bits, Width + 1, 2 * Width) \in Seq({0, 1})
      /\ Len(SubSeq(bits, Width + 1, 2 * Width)) = Width
      /\ \A i \in 1..Width : SubSeq(bits, Width + 1, 2 * Width)[i] = bits[Width + 1 + i - 1]
  <2>1. /\ 2 * Width - (Width + 1) + 1 = Width /\ Width + 1 <= 2 * Width
        /\ Width + 1 \in Int /\ 2 * Width \in Int
    OBVIOUS
  <2> QED BY <1>1, <2>1, SubSeqProperties
<1>3. buf[2] \in Seq({0, 1}) /\ Len(buf[2]) = Width
  BY ByteSeq
<1>4. \A i \in 1..Width : SubSeq(bits, Width + 1, 2 * Width)[i] = buf[2][i]
  <2> TAKE i \in 1..Width
  <2>1. Width + i \in (Width + 1)..(2 * Width) /\ Width + 1 + i - 1 = Width + i /\ (Width + i) - Width = i
    OBVIOUS
  <2> QED BY <1>1, <1>2, <2>1
<1> QED BY <1>2, <1>3, <1>4, SeqEqual

LEMMA Quotients == Width \div Width = 1 /\ (2 * Width) \div Width = 2
BY WidthPos

LEMMA WholePacket ==
    ASSUME NEW buf \in [1..2 -> Bytes], IsCommand(buf),
           NEW bits \in Seq({0, 1}), NEW n \in 1..Size(buf), Agrees(bits, buf, n)
    PROVE  /\ Whole(bits) <=> n = Size(buf)
           /\ n = Size(buf) => AsPacket(bits) = Packet(buf)
<1> USE WidthPos
<1>0. Len(bits) = n /\ Size(buf) \in {Width, 2 * Width}
  BY DEF Agrees, Size
<1>1. CASE n < Width
  BY <1>0, <1>1 DEF Whole
<1>2. CASE n >= Width
  <2>1. SubSeq(bits, 1, Width) = buf[1]
    BY <1>2, FirstByte
  <2>2. Whole(bits) <=> n = Size(buf)
    <3>1. Whole(bits) <=> n = Width * IF HasData(buf[1]) THEN 2 ELSE 1
      BY <1>0, <1>2, <2>1 DEF Whole
    <3>2. (Width * IF HasData(buf[1]) THEN 2 ELSE 1) = Size(buf)
      <4>1. CASE HasData(buf[1])
        BY <4>1 DEF Size
      <4>2. CASE ~HasData(buf[1])
        BY <4>2 DEF Size
      <4> QED BY <4>1, <4>2
    <3> QED BY <3>1, <3>2
  <2>3. CASE n = Size(buf) /\ HasData(buf[1])
    <3>1. n = 2 * Width
      BY <2>3 DEF Size
    <3>2. SubSeq(bits, Width + 1, 2 * Width) = buf[2]
      BY <3>1, SecondByte
    <3>3. AsPacket(bits) = [b \in 1..2 |-> SubSeq(bits, (b - 1) * Width + 1, b * Width)]
      BY <1>0, <3>1, Quotients DEF AsPacket
    <3>4. /\ AsPacket(bits)[1] = buf[1] /\ AsPacket(bits)[2] = buf[2]
          /\ DOMAIN AsPacket(bits) = 1..2
      BY <2>1, <3>2, <3>3
    <3>5. AsPacket(bits) = buf
      BY <3>3, <3>4
    <3> QED BY <2>2, <2>3, <3>5, PacketOf
  <2>4. CASE n = Size(buf) /\ ~HasData(buf[1])
    <3>1. n = Width
      BY <2>4 DEF Size
    <3>3. AsPacket(bits) = [b \in 1..1 |-> SubSeq(bits, (b - 1) * Width + 1, b * Width)]
      BY <1>0, <3>1, Quotients DEF AsPacket
    <3>4. AsPacket(bits) = <<buf[1]>>
      BY <2>1, <3>3
    <3> QED BY <2>2, <2>4, <3>4, PacketOf
  <2> QED BY <2>2, <2>3, <2>4
<1> QED BY <1>0, <1>1, <1>2

\* A byte as a shift register.
LEMMA ShiftByte ==
    ASSUME NEW b \in Bytes, NEW x \in {0, 1}
    PROVE  /\ Append(Tail(b), x) \in Bytes
           /\ Append(Tail(b), x)[Width] = x
           /\ \A j \in 1..(Width - 1) : Append(Tail(b), x)[j] = b[j + 1]
<1> USE WidthPos
<1>1. b \in Seq({0, 1}) /\ Len(b) = Width /\ b # <<>>
  BY ByteSeq
<1>2. /\ Tail(b) \in Seq({0, 1}) /\ Len(Tail(b)) = Width - 1
      /\ \A i \in 1..(Width - 1) : Tail(b)[i] = b[i + 1]
  BY <1>1, HeadTailProperties
<1>3. /\ Append(Tail(b), x) \in Seq({0, 1})
      /\ Len(Append(Tail(b), x)) = Width - 1 + 1
      /\ \A i \in 1..(Width - 1) : Append(Tail(b), x)[i] = Tail(b)[i]
      /\ Append(Tail(b), x)[Width - 1 + 1] = x
  BY <1>2, AppendProperties
<1>4. Width - 1 + 1 = Width
  OBVIOUS
<1> QED BY <1>2, <1>3, <1>4, SeqByte

-----------------------------------------------------------------------------
(***************************************************************************)
(* The invariant.                                                          *)
(***************************************************************************)
\* How many bits of a packet the emulator has done.
At == IF packet_pos = 0 THEN packet_bit ELSE Width + packet_bit

\* The wires between two bits; a packet whose last bit the emulator has got, but
\* which the calculator has not taken from its queue.
Quiet == link_input = Wires /\ link_output = Wires
Done  == phase = "after" /\ nsent = Size(Head(queue))

CalcOK ==
    /\ queue \in Seq(Packets) /\ \A k \in 1..Len(queue) : IsPacket(queue[k])
    /\ nsent \in 0..(2 * Width)
    /\ queue = <<>> => nsent = 0
    /\ rx \in Seq({0, 1})

\* The emulator sends: the calculator has got the bits of the buffer so far, and
\* in the second half of a handshake one more.
Sends ==
    /\ ~start_send /\ queue = <<>> /\ IsCommand(packet_buf)
    /\ At < Size(packet_buf)
    /\ packet_pos = 1 => packet_size = 2
    /\ \/ /\ phase = "look" /\ Agrees(rx, packet_buf, At)
          /\ link_output = Wires /\ link_input = Up(BitAt(packet_buf, At + 1))
       \/ /\ phase = "got" /\ Agrees(rx, packet_buf, At + 1)
          /\ link_output = Wires /\ link_input = Up(BitAt(packet_buf, At + 1))
       \/ /\ phase \in {"hold", "letgo"} /\ Agrees(rx, packet_buf, At + 1)
          /\ link_input = Wires /\ link_output = Other(Up(BitAt(packet_buf, At + 1)))

\* The calculator sends: the last k bits shifted into the byte are those of p.
Received(p, k) ==
    /\ packet_pos = 1 => packet_buf[1] = p[1] /\ packet_size = 2
    /\ \A j \in 1..k : packet_buf[packet_pos + 1][Width - k + j] = p[packet_pos + 1][j]

Receives(p) ==
    \/ /\ phase \in {"look", "pull", "after"} /\ nsent = At /\ At < Size(p) /\ Quiet
       /\ Received(p, packet_bit)
    \/ /\ phase \in {"wait", "free"} /\ nsent = At /\ At < Size(p)
       /\ link_output = Up(BitAt(p, At + 1)) /\ link_input = Other(link_output)
       /\ Received(p, packet_bit + 1)
    \/ /\ phase = "after" /\ nsent = Size(p) /\ At = 0 /\ Quiet
    \/ /\ phase = "cancel" /\ nsent = 0 /\ At = 0
       /\ link_input = Wires /\ link_output = {}

BitInv ==
    /\ sending => Sends
    /\ ~sending => /\ rx = <<>>
                   /\ queue = <<>> => phase = "look" /\ Quiet /\ At = 0
                   /\ queue # <<>> => Receives(Head(queue))
    /\ start_send => IsCommand(packet_buf)
    /\ start_send /\ queue # <<>> => Len(queue) = 1 /\ Done

\* The dialogue: whose turn it is, and with which packets, in each part of it.
Out(c)    == (sending \/ start_send) /\ Is(packet_buf, c)
In        == ~sending /\ ~start_send
Answer(p) == Is(p, "CTS") \/ Is(p, "SKIP")

Exchange ==
    /\ ~packet_callback => In /\ (queue = <<>> \/ (Len(queue) = 1 /\ Done))
    /\ packet_callback =>
        \/ state = 1 /\ Out("RTS")
        \/ state = 4 /\ Out("ACK")
        \/ state = 5 /\ Out("DATA")
        \/ state \in {0, 7} /\ Out("EOT")
        \/ state = 2 /\ In /\ Len(queue) = 2 /\ Is(queue[1], "ACK") /\ Answer(queue[2]) /\ ~Done
        \/ state = 3 /\ In /\ Len(queue) = 1 /\ Answer(queue[1]) /\ ~Done
        \/ state = 3 /\ In /\ Len(queue) = 2 /\ Is(queue[1], "ACK") /\ Answer(queue[2]) /\ Done
        \/ state = 6 /\ In /\ Len(queue) = 1 /\ Is(queue[1], "ACK") /\ ~Done

\* The transfer: n parts of the file are read, and k variables stored.
Kept(k) == /\ 2 * k <= Len(file.parts)
           /\ \A i \in 1..k : stored[i] = file.parts[2 * i]
Left(n) == /\ n \in 0..Len(file.parts)
           /\ var_file \in Seq(Bytes) /\ Len(var_file) = Len(file.parts) - n
           /\ \A i \in 1..Len(var_file) : var_file[i] = file.parts[n + i]

\* That a variable after the first k is announced, or is the first.
Due(k) == k = 0 \/ 2 * k < file.size

Progress(k, n) ==
    \/ state \in 1..4 /\ n = 2 * k + 1 /\ Due(k)
    \/ state = 5 /\ n = 2 * k + 2 /\ Due(k) /\ packet_buf[2] = file.parts[n]
    \/ state \in {0, 6, 7} /\ n = 2 * k /\ k >= 1 /\ Due(k - 1)
       /\ (state = 0 => 2 * k < file.size) /\ (state = 7 => 2 * k >= file.size)

Transfer ==
    /\ file \in Files \cup {NULL} /\ stored \in Seq(Bytes)
    /\ file # NULL => /\ Kept(Len(stored))
                      /\ state = 8 /\ ~packet_callback =>
                             /\ Len(stored) >= 1 /\ Due(Len(stored) - 1)
                             /\ 2 * Len(stored) >= file.size
    /\ packet_callback => /\ file # NULL
                          /\ Left(file.size - bytes_remaining)
                          /\ Progress(Len(stored), file.size - bytes_remaining)

IInv == TypeOK /\ CalcOK /\ BitInv /\ Exchange /\ Transfer

-----------------------------------------------------------------------------
(***************************************************************************)
(* Bits and bytes of the packet buffer.                                    *)
(***************************************************************************)
AtStart == packet_pos' = 0 /\ packet_bit' = 0 /\ packet_size' \in 0..2

\* next_bit() within a packet, and at its end.
Advances ==
    /\ packet_bit' \in 0..(Width - 1) /\ packet_pos' \in 0..1 /\ packet_size' \in 0..2
    /\ At' = At + 1
    /\ \/ packet_pos' = packet_pos /\ packet_bit' = packet_bit + 1 /\ packet_size' = packet_size
       \/ /\ packet_pos = 0 /\ packet_bit = Width - 1
          /\ packet_pos' = 1 /\ packet_bit' = 0 /\ packet_size' = 2
    /\ UNCHANGED <<packet_buf, sending, start_send, fileVars, heard_emu>>

Finishes ==
    /\ AtStart /\ sending' = FALSE
    /\ heard_emu' = IF sending THEN heard_emu ELSE Packet(packet_buf)
    /\ IF packet_callback THEN send_variable_callback
                          ELSE UNCHANGED <<packet_buf, start_send, fileVars>>

\* next_bit(), when the buffer's first byte is that of the packet it is at in.
LEMMA NextBit ==
    ASSUME TypeOK, NEW p, IsCommand(p), At < Size(p),
           At + 1 >= Width => packet_buf[1] = p[1],
           packet_pos = 1 => packet_size = 2,
           next_bit
    PROVE  IF At + 1 = Size(p) THEN Finishes ELSE Advances
<1> USE WidthPos
<1>0. /\ packet_bit \in 0..(Width - 1) /\ packet_pos \in 0..1 /\ packet_size \in 0..2
      /\ Size(p) \in {Width, 2 * Width}
  BY DEF TypeOK, Size
<1>1. CASE packet_bit < Width - 1
  <2>1. (packet_bit + 1) % Width = packet_bit + 1 /\ packet_bit + 1 # 0
    BY <1>0, <1>1
  <2>2. /\ packet_bit' = packet_bit + 1 /\ packet_pos' = packet_pos
        /\ packet_size' = packet_size
        /\ UNCHANGED <<packet_buf, sending, start_send, fileVars, heard_emu>>
    BY <1>0, <2>1 DEF next_bit
  <2>3. At' = At + 1 /\ At + 1 # Size(p)
    BY <1>0, <1>1, <2>2 DEF At, Size
  <2> QED BY <1>0, <1>1, <2>2, <2>3 DEF Advances
<1>2. CASE packet_bit = Width - 1
  <2>0. (packet_bit + 1) % Width = 0 /\ At + 1 >= Width /\ packet_buf[1] = p[1]
    BY <1>0, <1>2 DEF At
  <2>1. packet_bit' = 0
    BY <2>0 DEF next_bit
  <2>3. CASE packet_pos = 0 /\ HasData(p[1])
    <3>1. ~IsPlain(p[1])
      BY <2>3, Codes
    <3>2. packet_size' = 2
      BY <2>0, <2>3, <3>1 DEF next_bit
    <3>3. /\ packet_pos' = 1
          /\ UNCHANGED <<packet_buf, sending, start_send, fileVars, heard_emu>>
      BY <2>0, <2>3, <3>2 DEF next_bit
    <3>4. At' = At + 1 /\ At + 1 # Size(p)
      BY <1>0, <1>2, <2>1, <2>3, <3>3 DEF At, Size
    <3> QED BY <1>0, <1>2, <2>1, <2>3, <3>2, <3>3, <3>4 DEF Advances
  <2>4. CASE packet_pos = 0 /\ ~HasData(p[1])
    <3>1. IsPlain(p[1])
      BY <2>4 DEF IsCommand
    <3>2. packet_size' = 1
      BY <2>0, <2>4, <3>1 DEF next_bit
    <3>3. Finishes
      BY <2>0, <2>1, <2>4, <3>2 DEF next_bit, Finishes, AtStart
    <3>4. At + 1 = Size(p)
      BY <1>0, <1>2, <2>4 DEF At, Size
    <3> QED BY <3>3, <3>4
  <2>5. CASE packet_pos = 1
    <3>1. packet_size' = 2
      BY <2>0, <2>5 DEF next_bit
    <3>2. Finishes
      BY <2>0, <2>1, <2>5, <3>1 DEF next_bit, Finishes, AtStart
    <3>3. At + 1 = Size(p)
      BY <1>0, <1>2, <2>5 DEF At, Size
    <3> QED BY <3>2, <3>3
  <2> QED BY <1>0, <2>3, <2>4, <2>5
<1> QED BY <1>0, <1>1, <1>2

LEMMA AtRange ==
    ASSUME TypeOK
    PROVE  /\ At \in 0..(2 * Width - 1)
           /\ packet_pos = 0 => At = packet_bit
           /\ packet_pos = 1 => At = Width + packet_bit
           /\ packet_pos \in {0, 1} /\ packet_bit \in 0..(Width - 1)
BY WidthPos DEF TypeOK, At

\* A bit is shifted into a byte of a buffer.
ShiftsIn(x, pos, buf, new) ==
    /\ new \in [1..2 -> Bytes]
    /\ \A i \in 1..2 : i # pos => new[i] = buf[i]
    /\ new[pos][Width] = x
    /\ \A j \in 1..(Width - 1) : new[pos][j] = buf[pos][j + 1]

LEMMA ShiftBuffer ==
    ASSUME NEW buf \in [1..2 -> Bytes], NEW pos \in 1..2, NEW x \in {0, 1}
    PROVE  ShiftsIn(x, pos, buf, [buf EXCEPT ![pos] = Append(Tail(@), x)])
<1>1. PICK b \in Bytes : b = buf[pos]
  OBVIOUS
<1>2. PICK c : c = Append(Tail(b), x)
  OBVIOUS
<1>3. /\ c \in Bytes /\ c[Width] = x
      /\ \A j \in 1..(Width - 1) : c[j] = b[j + 1]
  BY <1>2, ShiftByte
<1>4. PICK new : new = [buf EXCEPT ![pos] = Append(Tail(@), x)]
  OBVIOUS
<1>5. new = [buf EXCEPT ![pos] = c]
  BY <1>1, <1>2, <1>4
<1>6. ShiftsIn(x, pos, buf, new)
  BY <1>1, <1>3, <1>5 DEF ShiftsIn
<1> QED BY <1>4, <1>6

\* A bit of the calculator is shifted into the buffer.
LEMMA Shifted ==
    ASSUME TypeOK, NEW p, IsPacket(p), At < Size(p), Received(p, packet_bit),
           packet_buf' = Shift(BitAt(p, At + 1)),
           packet_pos' = packet_pos, packet_bit' = packet_bit, packet_size' = packet_size
    PROVE  /\ packet_buf' \in [1..2 -> Bytes]
           /\ Received(p, packet_bit + 1)'
<1> USE WidthPos
<1>0. /\ At \in Nat /\ packet_pos \in {0, 1} /\ packet_bit \in 0..(Width - 1)
      /\ packet_pos = 0 => At = packet_bit
      /\ packet_pos = 1 => At = Width + packet_bit
  BY AtRange
<1>1. At + 1 \in 1..Size(p) /\ packet_buf \in [1..2 -> Bytes]
  BY <1>0 DEF Size, TypeOK
<1>2. PICK pos \in 1..2 : pos = packet_pos + 1
  BY <1>0
<1>3. PICK x \in {0, 1} : x = BitAt(p, At + 1)
  BY <1>1, BitsOf
<1>4. packet_buf' = [packet_buf EXCEPT ![pos] = Append(Tail(@), x)]
  BY <1>2, <1>3 DEF Shift
<1>5. /\ packet_buf' \in [1..2 -> Bytes]
      /\ \A i \in 1..2 : i # pos => packet_buf'[i] = packet_buf[i]
      /\ packet_buf'[pos][Width] = x
      /\ \A j \in 1..(Width - 1) : packet_buf'[pos][j] = packet_buf[pos][j + 1]
  <2>1. ShiftsIn(x, pos, packet_buf, [packet_buf EXCEPT ![pos] = Append(Tail(@), x)])
    BY <1>1, ShiftBuffer
  <2>2. ShiftsIn(x, pos, packet_buf, packet_buf')
    BY <1>4, <2>1
  <2> QED BY <2>2 DEF ShiftsIn
<1>6. x = p[pos][packet_bit + 1]
  <2>1. CASE packet_pos = 0
    BY <1>0, <1>2, <1>3, <2>1 DEF BitAt
  <2>2. CASE packet_pos = 1
    <3>1. (At + 1) - Width = packet_bit + 1 /\ ~(At + 1 <= Width)
      BY <1>0, <2>2
    <3> QED BY <1>2, <1>3, <2>2, <3>1 DEF BitAt
  <2> QED BY <1>0, <2>1, <2>2
<1>7. ASSUME NEW j \in 1..(packet_bit + 1)
      PROVE  packet_buf'[pos][Width - (packet_bit + 1) + j] = p[pos][j]
  <2>1. CASE j = packet_bit + 1
    <3>1. Width - (packet_bit + 1) + j = Width
      BY <1>0, <2>1
    <3> QED BY <1>5, <1>6, <2>1, <3>1
  <2>2. CASE j # packet_bit + 1
    <3>1. j \in 1..packet_bit /\ Width - (packet_bit + 1) + j \in 1..(Width - 1)
      BY <1>0, <2>2
    <3>2. packet_buf[pos][Width - packet_bit + j] = p[pos][j]
      BY <1>2, <3>1 DEF Received
    <3>3. (Width - (packet_bit + 1) + j) + 1 = Width - packet_bit + j
      BY <1>0
    <3>4. packet_buf'[pos][Width - (packet_bit + 1) + j]
            = packet_buf[pos][(Width - (packet_bit + 1) + j) + 1]
      BY <1>5, <3>1
    <3> QED BY <3>2, <3>3, <3>4
  <2> QED BY <2>1, <2>2
<1>8. packet_pos' = 1 => packet_buf'[1] = p[1] /\ packet_size' = 2
  BY <1>2, <1>5 DEF Received
<1>9. \A j \in 1..(packet_bit' + 1) :
         packet_buf'[packet_pos' + 1][Width - (packet_bit' + 1) + j] = p[packet_pos' + 1][j]
  BY <1>2, <1>7
<1> QED BY <1>5, <1>8, <1>9 DEF Received

\* A byte all of whose bits are shifted in is the byte that was sent.
LEMMA ReceivedByte ==
    ASSUME TypeOK, NEW p, IsPacket(p), At < Size(p), Received(p, packet_bit + 1)
    PROVE  /\ At + 1 >= Width => packet_buf[1] = p[1]
           /\ packet_pos = 1 => packet_size = 2
           /\ At + 1 = Size(p) => IsCommand(packet_buf) /\ Packet(packet_buf) = p
<1> USE WidthPos
<1>0. /\ At \in Nat /\ packet_pos \in {0, 1} /\ packet_bit \in 0..(Width - 1)
      /\ packet_pos = 0 => At = packet_bit
      /\ packet_pos = 1 => At = Width + packet_bit
      /\ packet_buf \in [1..2 -> Bytes]
  BY AtRange DEF TypeOK
<1>1. /\ p[1] \in Bytes
      /\ packet_pos = 1 => HasData(p[1]) /\ p \in [1..2 -> Bytes]
      /\ HasData(p[1]) => p \in [1..2 -> Bytes]
      /\ ~HasData(p[1]) => p \in [1..1 -> Bytes]
  BY <1>0 DEF IsPacket, Packets, Size
<1>2. ASSUME packet_bit + 1 = Width PROVE packet_buf[packet_pos + 1] = p[packet_pos + 1]
  <2>1. packet_buf[packet_pos + 1] \in Bytes /\ p[packet_pos + 1] \in Bytes
    BY <1>0, <1>1
  <2>2. \A j \in 1..Width : packet_buf[packet_pos + 1][j] = p[packet_pos + 1][j]
    <3> TAKE j \in 1..Width
    <3>1. Width - (packet_bit + 1) + j = j /\ j \in 1..(packet_bit + 1)
      BY <1>0, <1>2
    <3> QED BY <3>1 DEF Received
  <2> QED BY <2>1, <2>2 DEF Bytes
<1>3. At + 1 >= Width => packet_buf[1] = p[1]
  <2>1. CASE packet_pos = 0
    BY <1>0, <1>2, <2>1
  <2>2. CASE packet_pos = 1
    BY <2>2 DEF Received
  <2> QED BY <1>0, <2>1, <2>2
<1>4. ASSUME At + 1 = Size(p) PROVE IsCommand(packet_buf) /\ Packet(packet_buf) = p
  <2>1. packet_buf[1] = p[1]
    BY <1>0, <1>3, <1>4 DEF Size
  <2>2. CASE HasData(p[1])
    <3>1. packet_pos = 1 /\ packet_bit + 1 = Width
      BY <1>0, <1>4, <2>2 DEF Size
    <3>2. packet_buf[2] = p[2]
      BY <1>2, <3>1
    <3>3. packet_buf = p
      BY <1>0, <1>1, <2>1, <2>2, <3>2
    <3> QED BY <2>1, <2>2, <3>3 DEF IsCommand, Packet
  <2>3. CASE ~HasData(p[1])
    <3>1. Packet(packet_buf) = <<p[1]>> /\ IsCommand(packet_buf)
      BY <2>1, <2>3 DEF Packet, IsPacket, IsCommand
    <3>2. <<p[1]>> = p
      BY <1>1, <2>3
    <3> QED BY <3>1, <3>2
  <2> QED BY <2>2, <2>3
<1>5. packet_pos = 1 => packet_size = 2
  BY DEF Received
<1> QED BY <1>3, <1>4, <1>5

\* What the wires carry is the same packet.
LineSame == UnderWay' = UnderWay /\ heard_calc' = heard_calc /\ heard_emu' = heard_emu

LEMMA UnderWayIs ==
    ASSUME CalcOK
    PROVE  UnderWay = IF sending \/ start_send
                      THEN [to |-> "calc", packet |-> Packet(packet_buf)]
                      ELSE IF queue # <<>> /\ nsent < Size(Head(queue))
                           THEN [to |-> "emu", packet |-> Head(queue)]
                           ELSE NULL
<1>1. queue # <<>> => Len(Bits(Head(queue))) = Size(Head(queue))
  BY BitsOf DEF CalcOK
<1> QED BY <1>1 DEF UnderWay

LEMMA TransferSame ==
    ASSUME Transfer, UNCHANGED <<file, stored, fileVars>>,
           packet_buf'[2] = packet_buf[2] \/ state # 5 \/ ~packet_callback
    PROVE  Transfer'
BY DEF Transfer, fileVars, Kept, Left, Progress, Due

\* Who is heard: the phases in which the emulator sends are not those in which it
\* receives.
LEMMA Phases ==
    ASSUME IInv
    PROVE  /\ phase \in {"got", "hold", "letgo"} => sending
           /\ phase \in {"pull", "wait", "free", "after", "cancel"} => ~sending /\ queue # <<>>
           /\ sending => ~start_send /\ queue = <<>>
           /\ start_send /\ queue # <<>> => phase = "after"
BY DEF IInv, BitInv, Sends, Receives, Done

LEMMA ReadNothing == Read /\ ~start_send => UNCHANGED portVars
BY DEF Read, portVars, packetVars, fileVars

LEMMA ReadStarts ==
    ASSUME Read, start_send
    PROVE  /\ sending' = TRUE /\ start_send' = FALSE
           /\ packet_pos' = 0 /\ packet_bit' = 0
           /\ link_input' = Up(packet_buf[1][1])
           /\ UNCHANGED <<packet_buf, packet_size, fileVars, link_output>>
BY DEF Read

-----------------------------------------------------------------------------
\* A read of the port by which the calculator goes on to another phase of the
\* same bit, as long as it has not got it.
LEMMA PhaseStep ==
    ASSUME IInv, UNCHANGED <<portVars, rx, queue, nsent, stored, heard_calc, heard_emu, file>>,
           \/ phase = "look" /\ queue # <<>> /\ phase' = "pull"
           \/ phase = "hold" /\ phase' = "letgo"
           \/ phase = "wait" /\ phase' = "free"
           \/ phase = "after" /\ ~Done /\ phase' = "look"
    PROVE  IInv' /\ LineSame
<1> USE DEF portVars, packetVars
<1>1. TypeOK'
  BY DEF IInv, TypeOK, fileVars
<1>2. CalcOK'
  BY DEF IInv, CalcOK
<1>3. At' = At
  BY DEF At
<1>4. Sends => Sends'
  BY <1>3 DEF Sends, Agrees
<1>5. Receives(Head(queue)) /\ queue # <<>> => Receives(Head(queue))'
  BY <1>3 DEF Receives, Received, Quiet, Done
<1>6. BitInv'
  BY <1>3, <1>4, <1>5 DEF IInv, BitInv, Quiet, Done
<1>7. Exchange'
  BY DEF IInv, Exchange, Out, In, Answer, Done, fileVars
<1>8. Transfer'
  BY TransferSame DEF IInv
<1>9. LineSame
  BY DEF LineSame, UnderWay
<1> QED BY <1>1, <1>2, <1>6, <1>7, <1>8, <1>9 DEF IInv

LEMMA HoldStep ==
    ASSUME IInv, Hold
    PROVE  IInv' /\ LineSame
<1>1. phase = "hold" /\ sending /\ ~start_send
  BY Phases DEF Hold, Poll
<1>2. PICK x \in {0, 1} : link_input = Wires /\ link_output = Other(Up(x))
  <2>1. At + 1 \in 1..Size(packet_buf) /\ packet_buf \in [1..2 -> Bytes] /\ IsCommand(packet_buf)
    BY <1>1, AtRange, SizeRange DEF IInv, BitInv, Sends, TypeOK
  <2> QED BY <1>1, <2>1, PacketOf DEF IInv, BitInv, Sends
<1>3. Value # {}
  BY <1>2, UpBit DEF Value
<1>4. phase' = "letgo" /\ UNCHANGED <<portVars, rx, queue, nsent, stored, heard_calc, heard_emu, file>>
  BY <1>1, <1>3, ReadNothing DEF Hold, Poll, history
<1> QED BY <1>1, <1>4, PhaseStep

LEMMA WaitStep ==
    ASSUME IInv, Wait
    PROVE  IInv' /\ LineSame
<1>1. phase = "wait" /\ ~sending /\ ~start_send /\ queue # <<>>
  BY Phases DEF Wait, Poll
<1>2. IsPacket(Head(queue))
  BY <1>1 DEF IInv, CalcOK
<1>3. PICK x \in {0, 1} : link_output = Up(x) /\ link_input = Other(link_output)
  <2>1. Receives(Head(queue))
    BY <1>1 DEF IInv, BitInv
  <2>2. At + 1 \in 1..Size(Head(queue))
    BY <1>1, <2>1, AtRange, SizeRange DEF Receives, IInv
  <2> QED BY <1>1, <1>2, <2>1, <2>2, BitsOf DEF Receives
<1>4. Value = {}
  BY <1>3, UpBit DEF Value
<1>5. phase' = "free" /\ UNCHANGED <<portVars, rx, queue, nsent, stored, heard_calc, heard_emu, file>>
  BY <1>1, <1>4, ReadNothing DEF Wait, Poll, history
<1> QED BY <1>1, <1>5, PhaseStep

-----------------------------------------------------------------------------
\* The emulator begins to send what it has deferred.
LEMMA StartStep ==
    ASSUME IInv, start_send, ~sending,
           Read, phase' = "look", rx' = rx, queue' = <<>>, nsent' = 0, Quiet,
           UNCHANGED <<stored, heard_calc, heard_emu, file>>
    PROVE  IInv' /\ LineSame
<1> USE WidthPos
<1>0. /\ sending' = TRUE /\ start_send' = FALSE
      /\ packet_pos' = 0 /\ packet_bit' = 0
      /\ link_input' = Up(packet_buf[1][1])
      /\ UNCHANGED <<packet_buf, packet_size, fileVars, link_output>>
  BY ReadStarts
<1>1. IsCommand(packet_buf) /\ rx = <<>> /\ packet_buf \in [1..2 -> Bytes]
  BY DEF IInv, BitInv, TypeOK
<1>2. /\ At' = 0 /\ packet_buf[1][1] = BitAt(packet_buf, 1)
      /\ Size(packet_buf) >= 1 /\ packet_buf[1][1] \in {0, 1}
  BY <1>0, <1>1, ByteSeq, SizeRange DEF At, BitAt
<1>3. TypeOK'
  <2>1. link_input' \in SUBSET Wires
    BY <1>0, <1>2, UpBit DEF Wires
  <2>2. sending' \in BOOLEAN /\ start_send' \in BOOLEAN /\ packet_callback' \in BOOLEAN
    BY <1>0 DEF IInv, TypeOK, fileVars
  <2>3. packet_pos' \in 0..1 /\ packet_bit' \in 0..(Width - 1) /\ packet_size' \in 0..2
    BY <1>0 DEF IInv, TypeOK
  <2>4. /\ packet_buf' \in [1..2 -> Bytes] /\ link_output' \in SUBSET Wires
        /\ (var_file' = NULL \/ var_file' \in Seq(Bytes))
        /\ (packet_callback' => var_file' # NULL)
        /\ state' \in 0..8 /\ bytes_remaining' \in Int
    BY <1>0 DEF IInv, TypeOK, fileVars
  <2> QED BY <2>1, <2>2, <2>3, <2>4 DEF TypeOK
<1>4. CalcOK'
  BY <1>1 DEF IInv, CalcOK
<1>5. Sends'
  <2>1. Agrees(rx', packet_buf', At')
    BY <1>1, <1>2 DEF Agrees
  <2>2. link_output' = Wires /\ link_input' = Up(BitAt(packet_buf', At' + 1))
    BY <1>0, <1>2 DEF Quiet
  <2>3. At' < Size(packet_buf') /\ IsCommand(packet_buf')
    BY <1>0, <1>1, <1>2, SizeRange
  <2> QED BY <1>0, <2>1, <2>2, <2>3 DEF Sends
<1>6. BitInv'
  BY <1>0, <1>5 DEF BitInv
<1>7. Exchange'
  BY <1>0 DEF IInv, Exchange, Out, In, Answer, Done, fileVars
<1>8. Transfer'
  BY <1>0, TransferSame DEF IInv
<1>9. LineSame
  BY <1>0 DEF LineSame, UnderWay
<1> QED BY <1>3, <1>4, <1>6, <1>7, <1>8, <1>9 DEF IInv

\* A packet crosses as in HalfDuplex, or the step is none of its.
Carries == Line!Next \/ LineSame

\* In a bit that is under way, the wires stand for the bits of the packet.
LEMMA SendingWires ==
    ASSUME IInv, sending
    PROVE  /\ IsCommand(packet_buf) /\ packet_buf \in [1..2 -> Bytes]
           /\ At \in 0..(2 * Width - 1) /\ At < Size(packet_buf) /\ At + 1 \in 1..Size(packet_buf)
           /\ BitAt(packet_buf, At + 1) \in {0, 1}
           /\ Sends
<1>1. Sends /\ IsCommand(packet_buf) /\ packet_buf \in [1..2 -> Bytes] /\ TypeOK
  BY DEF IInv, BitInv, Sends, TypeOK
<1>2. At \in 0..(2 * Width - 1) /\ At < Size(packet_buf)
  BY <1>1, AtRange DEF Sends
<1>3. At + 1 \in 1..Size(packet_buf)
  BY <1>2, SizeRange
<1> QED BY <1>1, <1>2, <1>3, PacketOf

LEMMA ReceivingWires ==
    ASSUME IInv, ~sending, queue # <<>>
    PROVE  /\ IsPacket(Head(queue)) /\ Receives(Head(queue))
           /\ At \in 0..(2 * Width - 1)
           /\ At < Size(Head(queue)) => /\ At + 1 \in 1..Size(Head(queue))
                                        /\ BitAt(Head(queue), At + 1) \in {0, 1}
           /\ rx = <<>>
<1>1. IsPacket(Head(queue)) /\ Receives(Head(queue)) /\ rx = <<>> /\ TypeOK
  BY DEF IInv, CalcOK, BitInv
<1>2. At \in 0..(2 * Width - 1)
  BY <1>1, AtRange
<1>3. ASSUME At < Size(Head(queue)) PROVE At + 1 \in 1..Size(Head(queue))
  BY <1>2, <1>3, SizeRange
<1> QED BY <1>1, <1>2, <1>3, BitsOf

LEMMA SendsInv ==
    ASSUME sending', Sends'
    PROVE  BitInv'
BY DEF BitInv, Sends

\* The calculator reads a bit.
LEMMA GotStep ==
    ASSUME IInv, sending, phase = "look", phase' = "got",
           rx' = Append(rx, BitAt(packet_buf, At + 1)),
           UNCHANGED <<portVars, queue, nsent, stored, heard_calc, heard_emu, file>>
    PROVE  IInv' /\ LineSame
<1> USE DEF portVars, packetVars
<1>0. At \in Nat /\ BitAt(packet_buf, At + 1) \in {0, 1} /\ Sends /\ rx \in Seq({0, 1})
  BY SendingWires DEF IInv, CalcOK
<1>1. TypeOK'
  BY DEF IInv, TypeOK, fileVars
<1>2. PICK x \in {0, 1} : x = BitAt(packet_buf, At + 1)
  BY <1>0
<1>3. /\ rx' \in Seq({0, 1}) /\ Len(rx') = Len(rx) + 1
      /\ \A i \in 1..Len(rx) : rx'[i] = rx[i]
      /\ rx'[Len(rx) + 1] = x
  BY <1>0, <1>2, AppendProperties
<1>4. Agrees(rx, packet_buf, At)
  BY <1>0 DEF Sends
<1>5. Agrees(rx', packet_buf, At + 1)
  <2>1. Len(rx) = At
    BY <1>4 DEF Agrees
  <2>2. ASSUME NEW j \in 1..(At + 1) PROVE rx'[j] = BitAt(packet_buf, j)
    <3>1. CASE j = At + 1
      BY <1>2, <1>3, <2>1, <3>1
    <3>2. CASE j # At + 1
      <4>1. j \in 1..At
        BY <1>0, <3>2
      <4> QED BY <1>3, <1>4, <2>1, <4>1 DEF Agrees
    <3> QED BY <3>1, <3>2
  <2> QED BY <1>3, <2>1, <2>2 DEF Agrees
<1>6. At' = At
  BY DEF At
<1>7. Sends'
  BY <1>0, <1>5, <1>6 DEF Sends
<1>8. BitInv'
  BY <1>7 DEF IInv, BitInv, Done
<1>9. Exchange'
  BY <1>0 DEF IInv, Exchange, Out, In, Answer, Done, fileVars, Sends
<1>10. Transfer'
  BY TransferSame DEF IInv
<1>11. CalcOK'
  BY <1>3 DEF IInv, CalcOK
<1>12. LineSame
  BY DEF LineSame, UnderWay
<1> QED BY <1>1, <1>8, <1>9, <1>10, <1>11, <1>12 DEF IInv

LEMMA LookStep ==
    ASSUME IInv, Look
    PROVE  IInv' /\ LineSame
<1>0. phase = "look" /\ Read
  BY DEF Look, Poll
<1>1. CASE sending
  <2>1. ~start_send /\ queue = <<>> /\ UNCHANGED portVars
    BY <1>0, <1>1, Phases, ReadNothing
  <2>2. PICK x \in {0, 1} : x = BitAt(packet_buf, At + 1)
    BY <1>1, SendingWires
  <2>3. link_input = Up(x) /\ link_output = Wires
    BY <1>0, <1>1, <2>2, SendingWires DEF Sends
  <2>4. Value = Up(x) /\ Value \in {{1}, {2}} /\ Bit(Value) = x
    BY <2>3, UpBit DEF Value
  <2>5. /\ phase' = "got" /\ rx' = Append(rx, x)
        /\ UNCHANGED <<queue, nsent, stored, heard_calc, heard_emu, file>>
    BY <1>0, <2>1, <2>4 DEF Look, Poll, history
  <2> QED BY <1>0, <1>1, <2>1, <2>2, <2>5, GotStep
<1>2. CASE ~sending
  <2>1. Quiet /\ rx = <<>>
    BY <1>0, <1>2 DEF IInv, BitInv, Receives
  <2>2. Value = Wires /\ Value \notin {{1}, {2}}
    BY <2>1, WireSets DEF Value, Quiet
  <2>3. CASE queue # <<>>
    <3>1. ~start_send
      BY <1>0, <2>3, Phases
    <3>2. phase' = "pull" /\ UNCHANGED <<portVars, rx, queue, nsent, stored, heard_calc, heard_emu, file>>
      BY <1>0, <2>2, <2>3, <3>1, ReadNothing DEF Look, Poll, history
    <3> QED BY <1>0, <2>3, <3>2, PhaseStep
  <2>4. CASE queue = <<>>
    <3>1. /\ phase' = "look" /\ rx' = rx
          /\ UNCHANGED <<queue, nsent, stored, heard_calc, heard_emu, history>>
      <4>1. ~(queue # <<>>) /\ Poll("look", "got", Value \in {{1}, {2}})
        BY <2>4 DEF Look
      <4>2. phase' = "look" /\ phase' # "got"
        BY <2>2, <4>1 DEF Poll
      <4> QED BY <4>1, <4>2 DEF Look, Poll
    <3>2. nsent = 0
      BY <2>4 DEF IInv, CalcOK
    <3>3. CASE start_send
      BY <1>0, <1>2, <2>1, <2>4, <3>1, <3>2, <3>3, StartStep DEF history
    <3>4. CASE ~start_send
      <4>1. UNCHANGED portVars
        BY <1>0, <3>4, ReadNothing
      <4>2. UNCHANGED <<phase, rx, queue, nsent, stored, heard_calc, heard_emu, file>>
        BY <1>0, <3>1 DEF history
      <4> USE DEF portVars, packetVars
      <4>3. At' = At /\ Sends' = Sends /\ Quiet' = Quiet
        BY <4>1, <4>2 DEF At, Sends, Agrees, Quiet
      <4>4. TypeOK'
        BY <4>1, <4>2 DEF IInv, TypeOK, fileVars
      <4>5. CalcOK'
        BY <4>2 DEF IInv, CalcOK
      <4>6. BitInv'
        BY <1>2, <2>4, <3>4, <4>1, <4>2, <4>3 DEF IInv, BitInv
      <4>7. Exchange'
        BY <4>1, <4>2 DEF IInv, Exchange, Out, In, Answer, Done, fileVars
      <4>8. Transfer'
        BY <4>1, <4>2, TransferSame DEF IInv
      <4>9. LineSame
        BY <4>1, <4>2 DEF LineSame, UnderWay
      <4> QED BY <4>4, <4>5, <4>6, <4>7, <4>8, <4>9 DEF IInv
    <3> QED BY <3>3, <3>4
  <2> QED BY <2>3, <2>4
<1> QED BY <1>1, <1>2

-----------------------------------------------------------------------------
\* It pulls the other wire, and the emulator lets go of its own.
LEMMA AcknowledgeStep ==
    ASSUME IInv, Acknowledge
    PROVE  IInv' /\ LineSame
<1>0. phase = "got" /\ sending
  BY Phases DEF Acknowledge
<1>1. PICK x \in {0, 1} : x = BitAt(packet_buf, At + 1)
  BY <1>0, SendingWires
<1>2. /\ Agrees(rx, packet_buf, At + 1) /\ link_input = Up(x) /\ link_output = Wires
      /\ At \in Nat /\ Sends
  BY <1>0, <1>1, SendingWires DEF Sends
<1>3. Last(rx) = x
  <2>1. Len(rx) = At + 1 /\ At + 1 \in 1..(At + 1)
    BY <1>2 DEF Agrees
  <2> QED BY <1>1, <1>2, <2>1 DEF Agrees, Last
<1>4. link_output' = Other(Up(x)) /\ WriteSending
  BY <1>0, <1>3 DEF Acknowledge, Write
<1>5. link_input # Wires /\ link_input \cap link_output' = {}
  BY <1>2, <1>4, UpBit, WireSets
<1>6. /\ link_input' = Wires
      /\ UNCHANGED <<packetVars, fileVars, heard_emu>>
  BY <1>4, <1>5 DEF WriteSending
<1>7. phase' = "hold" /\ UNCHANGED <<rx, queue, nsent, stored, heard_calc, file>>
  BY DEF Acknowledge, history
<1> USE DEF packetVars
<1>8. TypeOK'
  <2>1. link_output' \in SUBSET Wires
    BY <1>4, UpBit DEF Wires
  <2> QED BY <1>6, <1>7, <2>1 DEF IInv, TypeOK, fileVars
<1>9. CalcOK'
  BY <1>7 DEF IInv, CalcOK
<1>10. At' = At
  BY <1>6 DEF At
<1>11. Sends'
  BY <1>1, <1>2, <1>4, <1>6, <1>7, <1>10 DEF Sends
<1>12. BitInv'
  BY <1>0, <1>6, <1>11, SendsInv
<1>13. Exchange'
  BY <1>0, <1>2, <1>6, <1>7 DEF IInv, Exchange, Out, In, Answer, Done, fileVars, Sends
<1>14. Transfer'
  BY <1>6, <1>7, TransferSame DEF IInv
<1>15. LineSame
  BY <1>6, <1>7 DEF LineSame, UnderWay
<1> QED BY <1>8, <1>9, <1>12, <1>13, <1>14, <1>15 DEF IInv

\* The calculator sends a bit, and the emulator takes it and pulls the other wire.
LEMMA PullStep ==
    ASSUME IInv, Pull
    PROVE  IInv' /\ LineSame
<1>0. phase = "pull" /\ ~sending /\ ~start_send /\ queue # <<>>
  BY Phases DEF Pull
<1>1. PICK p : p = Head(queue) 
  OBVIOUS
<1>2. /\ IsPacket(p) /\ nsent = At /\ At < Size(p) /\ Quiet /\ Received(p, packet_bit)
      /\ At + 1 \in 1..Size(p) /\ rx = <<>>
  BY <1>0, <1>1, ReceivingWires DEF Receives
<1>3. PICK x \in {0, 1} : x = BitAt(p, At + 1)
  BY <1>0, <1>1, <1>2, ReceivingWires
<1>4. Bits(Head(queue))[nsent + 1] = x
  BY <1>1, <1>2, <1>3, BitsOf
<1>5. link_output' = Up(x) /\ WriteReceiving
  BY <1>0, <1>4 DEF Pull, Write
<1>6. link_output' \in {{1}, {2}} /\ link_output' # {} /\ Bit(link_output') = x
  BY <1>5, UpBit, WireSets
<1>7. /\ packet_pos' = packet_pos /\ link_input' = Other(link_output')
      /\ packet_buf' = Shift(x)
      /\ UNCHANGED <<packet_size, packet_bit, sending, start_send, fileVars, heard_emu>>
  BY <1>2, <1>5, <1>6 DEF WriteReceiving, Quiet
<1>8. phase' = "wait" /\ UNCHANGED <<rx, queue, nsent, stored, heard_calc, file>>
  BY DEF Pull, history
<1>9. packet_buf' \in [1..2 -> Bytes] /\ Received(p, packet_bit + 1)'
  BY <1>2, <1>3, <1>7, Shifted DEF IInv
<1>10. At' = At
  BY <1>7 DEF At
<1>11. TypeOK'
  <2>1. link_output' \in SUBSET Wires /\ link_input' \in SUBSET Wires
    BY <1>5, <1>7, UpBit DEF Wires
  <2> QED BY <1>7, <1>8, <1>9, <2>1 DEF IInv, TypeOK, fileVars
<1>12. CalcOK'
  BY <1>8 DEF IInv, CalcOK
<1>13. Receives(Head(queue))'
  <2>1. Received(Head(queue), packet_bit + 1)'
    BY <1>1, <1>8, <1>9 DEF Received
  <2>2. /\ phase' = "wait" /\ nsent' = At' /\ At' < Size(Head(queue'))
        /\ link_output' = Up(BitAt(Head(queue'), At' + 1)) /\ link_input' = Other(link_output')
    BY <1>1, <1>2, <1>3, <1>5, <1>7, <1>8, <1>10
  <2> QED BY <2>1, <2>2 DEF Receives
<1>14. BitInv'
  BY <1>0, <1>2, <1>7, <1>8, <1>13 DEF IInv, BitInv
<1>15. Exchange'
  BY <1>0, <1>7, <1>8 DEF IInv, Exchange, Out, In, Answer, Done, fileVars
<1>16. Transfer'
  <2>1. state # 5 \/ ~packet_callback
    BY <1>0 DEF IInv, Exchange, Out
  <2> QED BY <1>7, <1>8, <2>1, TransferSame DEF IInv
<1>17. LineSame
  BY <1>0, <1>7, <1>8 DEF LineSame, UnderWay
<1> QED BY <1>11, <1>12, <1>14, <1>15, <1>16, <1>17 DEF IInv

-----------------------------------------------------------------------------
(***************************************************************************)
(* The line as packets, and the answers of the calculator.                 *)
(***************************************************************************)
\* NULL is none of the values it stands in for.
LEMMA NotNull ==
    /\ NULL \notin [to : {"calc", "emu"}, packet : Packets]
    /\ NULL \notin Seq(Bytes) /\ NULL \notin Files
    /\ \A f \in Files : f.parts \in Seq(Bytes) /\ f.size \in Nat
BY LinkAssumption DEF LinkAssumption

\* What is under way is a packet for one of the two ends.
LEMMA UnderWayType ==
    ASSUME IInv'
    PROVE  UnderWay' \in [to : {"calc", "emu"}, packet : Packets] \cup {NULL}
<1>1. CASE sending' \/ start_send'
  <2>1. packet_buf' \in [1..2 -> Bytes] /\ IsCommand(packet_buf')
    BY <1>1 DEF IInv, BitInv, TypeOK, Sends
  <2>2. Packet(packet_buf') \in Packets
    BY <2>1, PacketOf DEF IsPacket
  <2> QED BY <1>1, <2>2 DEF UnderWay
<1>2. CASE ~(sending' \/ start_send') /\ queue' # <<>>
  BY <1>2 DEF UnderWay, IInv, CalcOK
<1> QED BY <1>1, <1>2 DEF UnderWay

\* A packet has arrived.
LEMMA TakeCalc ==
    ASSUME IInv, IInv', sending \/ start_send,
           heard_calc' = Packet(packet_buf), heard_emu' = heard_emu
    PROVE  Line!Take
<1>1. UnderWay = [to |-> "calc", packet |-> Packet(packet_buf)]
  BY DEF UnderWay
<1>2. UnderWay # NULL
  <2>1. packet_buf \in [1..2 -> Bytes] /\ IsCommand(packet_buf)
    BY DEF IInv, BitInv, TypeOK, Sends
  <2>2. Packet(packet_buf) \in Packets
    BY <2>1, PacketOf DEF IsPacket
  <2> QED BY <1>1, <2>2, NotNull
<1>3. UnderWay' \in [to : {"calc", "emu"}, packet : Packets] \cup {NULL}
  BY UnderWayType
<1>4. [calc |-> heard_calc', emu |-> heard_emu']
        = [[calc |-> heard_calc, emu |-> heard_emu] EXCEPT ![UnderWay.to] = UnderWay.packet]
  BY <1>1
<1> QED BY <1>2, <1>3, <1>4 DEF Line!Take, Line!UnderWay

LEMMA TakeEmu ==
    ASSUME IInv, IInv', ~sending, ~start_send, queue # <<>>, nsent < Size(Head(queue)),
           heard_emu' = Head(queue), heard_calc' = heard_calc
    PROVE  Line!Take
<1>1. UnderWay = [to |-> "emu", packet |-> Head(queue)]
  BY UnderWayIs DEF IInv
<1>2. UnderWay # NULL
  <2>1. Head(queue) \in Packets
    BY DEF IInv, CalcOK
  <2> QED BY <1>1, <2>1, NotNull
<1>3. UnderWay' \in [to : {"calc", "emu"}, packet : Packets] \cup {NULL}
  BY UnderWayType
<1>4. [calc |-> heard_calc', emu |-> heard_emu']
        = [[calc |-> heard_calc, emu |-> heard_emu] EXCEPT ![UnderWay.to] = UnderWay.packet]
  BY <1>1
<1> QED BY <1>2, <1>3, <1>4 DEF Line!Take, Line!UnderWay

\* A packet is under way, or none still.
LEMMA PutOrSame ==
    ASSUME IInv, IInv', UnderWay = NULL, heard_calc' = heard_calc, heard_emu' = heard_emu
    PROVE  Carries
<1>1. UnderWay' \in [to : {"calc", "emu"}, packet : Packets] \cup {NULL}
  BY UnderWayType
<1>2. CASE UnderWay' = NULL
  BY <1>2 DEF Carries, LineSame
<1>3. CASE UnderWay' # NULL
  BY <1>1, <1>3 DEF Carries, Line!Next, Line!Put, Line!UnderWay
<1> QED BY <1>2, <1>3

-----------------------------------------------------------------------------
\* The answers of the calculator.
LEMMA PlainPacket ==
    ASSUME NEW c \in NoData
    PROVE  <<Code[c]>> \in Packets /\ IsPacket(<<Code[c]>>)
<1>1. Code[c] \in Bytes /\ ~HasData(Code[c]) /\ IsPlain(Code[c])
  BY Codes, CodeBytes
<1>2. <<Code[c]>> \in [1..1 -> Bytes] /\ Len(<<Code[c]>>) = 1 /\ <<Code[c]>>[1] = Code[c]
  BY <1>1
<1> QED BY <1>1, <1>2 DEF IsPacket, Packets, IsCommand

LEMMA DataPacket ==
    ASSUME NEW c \in WithData, NEW b \in Bytes
    PROVE  /\ <<Code[c], b>> \in Packets /\ IsPacket(<<Code[c], b>>)
           /\ <<Code[c], b>> \in [1..2 -> Bytes] /\ IsCommand(<<Code[c], b>>)
<1>1. Code[c] \in Bytes /\ HasData(Code[c])
  BY Codes, CodeBytes
<1>2. <<Code[c], b>> \in [1..2 -> Bytes] /\ Len(<<Code[c], b>>) = 2 /\ <<Code[c], b>>[1] = Code[c]
  BY <1>1
<1> QED BY <1>1, <1>2 DEF IsPacket, Packets, IsCommand

LEMMA AnswersRTS ==
    ASSUME NEW p \in [1..2 -> Bytes], Is(p, "RTS"), NEW q \in Answers(p)
    PROVE  /\ q \in Seq(Packets) /\ Len(q) = 2 /\ \A k \in 1..Len(q) : IsPacket(q[k])
           /\ Is(q[1], "ACK") /\ Answer(q[2])
<1>1. PICK a : a = <<Code["ACK"]>>
  OBVIOUS
<1>2. a \in Packets /\ IsPacket(a) /\ Is(a, "ACK")
  BY <1>1, PlainPacket DEF NoData, Is
<1>3. PICK r : q = <<a, r>> /\ (r = <<Code["CTS"]>> \/ r = <<Code["SKIP"], p[2]>>)
  <2>1. ~Is(p, "DATA")
    BY CodeInj DEF Is, WithData
  <2> QED BY <1>1, <2>1 DEF Answers
<1>4. r \in Packets /\ IsPacket(r) /\ Answer(r)
  <2>1. CASE r = <<Code["CTS"]>>
    BY <2>1, PlainPacket DEF NoData, Is, Answer
  <2>2. CASE r = <<Code["SKIP"], p[2]>>
    BY <2>2, DataPacket DEF WithData, Is, Answer
  <2> QED BY <1>3, <2>1, <2>2
<1>5. /\ <<a, r>> \in Seq(Packets) /\ Len(<<a, r>>) = 2
      /\ <<a, r>>[1] = a /\ <<a, r>>[2] = r
  BY <1>2, <1>4
<1> QED BY <1>2, <1>3, <1>4, <1>5

LEMMA AnswersDATA ==
    ASSUME NEW p, Is(p, "DATA"), NEW q \in Answers(p)
    PROVE  /\ q \in Seq(Packets) /\ Len(q) = 1 /\ \A k \in 1..Len(q) : IsPacket(q[k])
           /\ Is(q[1], "ACK")
<1>1. PICK a : a = <<Code["ACK"]>>
  OBVIOUS
<1>2. a \in Packets /\ IsPacket(a) /\ Is(a, "ACK")
  BY <1>1, PlainPacket DEF NoData, Is
<1>3. ~Is(p, "RTS")
  BY CodeInj DEF Is, WithData
<1>4. q = <<a>>
  BY <1>1, <1>3 DEF Answers
<1> QED BY <1>2, <1>4

LEMMA AnswersPlain ==
    ASSUME NEW p, Is(p, "ACK") \/ Is(p, "EOT"), NEW q \in Answers(p)
    PROVE  q = <<>>
<1>1. ~Is(p, "RTS") /\ ~Is(p, "DATA")
  BY CodeInj DEF Is, WithData, NoData
<1> QED BY <1>1 DEF Answers

-----------------------------------------------------------------------------
(***************************************************************************)
(* The callback, and what it does to a transfer.                           *)
(***************************************************************************)
\* What a part of the callback leaves of the file.
LEMMA PartRead ==
    ASSUME NEW n \in Nat, Left(n), file \in Files, file' = file,
           var_file # <<>>, var_file' = Tail(var_file)
    PROVE  /\ Left(n + 1)'
           /\ Head(var_file) \in Bytes
           /\ Head(var_file) = file.parts[n + 1]
<1>1. /\ var_file \in Seq(Bytes) /\ Len(var_file) = Len(file.parts) - n
      /\ \A i \in 1..Len(var_file) : var_file[i] = file.parts[n + i]
      /\ n \in 0..Len(file.parts) /\ file.parts \in Seq(Bytes)
  BY NotNull DEF Left
<1>2. /\ Tail(var_file) \in Seq(Bytes) /\ Len(Tail(var_file)) = Len(var_file) - 1
      /\ \A i \in 1..Len(Tail(var_file)) : Tail(var_file)[i] = var_file[i + 1]
      /\ Head(var_file) \in Bytes
  BY <1>1, HeadTailProperties
<1>3. Len(var_file) \in Nat /\ Len(var_file) >= 1 /\ Len(file.parts) \in Nat
  BY <1>1, EmptySeq
<1>4. Head(var_file) = file.parts[n + 1]
  <2>1. Head(var_file) = var_file[1] /\ 1 \in 1..Len(var_file)
    BY <1>1, <1>3
  <2> QED BY <1>1, <2>1
<1>5. ASSUME NEW i \in 1..Len(Tail(var_file))
      PROVE  Tail(var_file)[i] = file.parts[n + 1 + i]
  <2>1. i + 1 \in 1..Len(var_file) /\ n + (i + 1) = n + 1 + i
    BY <1>2, <1>3
  <2> QED BY <1>1, <1>2, <2>1
<1>6. n + 1 \in 0..Len(file.parts) /\ Len(Tail(var_file)) = Len(file.parts) - (n + 1)
  BY <1>1, <1>2, <1>3
<1> QED BY <1>2, <1>4, <1>5, <1>6 DEF Left

\* The file closed: what has been stored is a part of it, all of it at the end.
LEMMA Closed ==
    ASSUME Transfer, packet_callback, Cleanup, stored' = stored, file' = file,
           state' = 8 => state = 7
    PROVE  Transfer'
<1>1. packet_callback' = FALSE
  BY DEF Cleanup
<1>2. file # NULL /\ Progress(Len(stored), file.size - bytes_remaining)
  BY DEF Transfer
<1>3. state' = 8 => /\ Len(stored) >= 1 /\ Due(Len(stored) - 1)
                    /\ 2 * Len(stored) >= file.size
  BY <1>2 DEF Progress
<1> QED BY <1>1, <1>3 DEF Transfer, Kept, Due

\* The parts of a transfer read so far and the variables stored.
LEMMA TransferCounts ==
    ASSUME Transfer, packet_callback
    PROVE  /\ file \in Files /\ file # NULL
           /\ stored \in Seq(Bytes) /\ Len(stored) \in Nat /\ Kept(Len(stored))
           /\ Left(file.size - bytes_remaining) /\ file.size - bytes_remaining \in Nat
           /\ Progress(Len(stored), file.size - bytes_remaining)
BY DEF Transfer, Left

LEMMA TransferFrom ==
    ASSUME file' \in Files, stored' \in Seq(Bytes), packet_callback',
           NEW n, n = file'.size - bytes_remaining', Kept(Len(stored))',
           Left(n)', NEW k, k = Len(stored'), Progress(k, n)'
    PROVE  Transfer'
<1>1. file' # NULL
  BY NotNull
<1> QED BY <1>1 DEF Transfer, Left, Progress, Due, Kept

-----------------------------------------------------------------------------
\* After a whole packet the emulator has the line for itself, or the calculator.
LEMMA BitInvLook ==
    ASSUME ~sending', rx' = <<>>, phase' = "look", Quiet', packet_pos' = 0, packet_bit' = 0,
           nsent' = 0, start_send' => IsCommand(packet_buf') /\ queue' = <<>>
    PROVE  BitInv'
<1>1. At' = 0
  BY DEF At
<1>2. Size(Head(queue')) >= 1 /\ Size(Head(queue')) \in Nat
  BY SizeRange
<1>3. Received(Head(queue), packet_bit)'
  BY DEF Received
<1>4. Receives(Head(queue))'
  BY <1>1, <1>2, <1>3 DEF Receives, Quiet
<1> QED BY <1>1, <1>4 DEF BitInv, Quiet

LEMMA BitInvAfter ==
    ASSUME ~sending', rx' = <<>>, phase' = "after", Quiet', packet_pos' = 0, packet_bit' = 0,
           queue' # <<>>, nsent' = Size(Head(queue')),
           start_send' => IsCommand(packet_buf') /\ Len(queue') = 1
    PROVE  BitInv'
<1>1. At' = 0
  BY DEF At
<1>2. Receives(Head(queue))'
  BY <1>1 DEF Receives, Quiet
<1> QED BY <1>1, <1>2 DEF BitInv, Quiet, Done

LEMMA TypeFrom ==
    ASSUME packet_buf' \in [1..2 -> Bytes], packet_size' \in 0..2,
           packet_pos' = 0, packet_bit' = 0,
           sending' \in BOOLEAN, start_send' \in BOOLEAN, packet_callback' \in BOOLEAN,
           var_file' = NULL \/ var_file' \in Seq(Bytes),
           packet_callback' => var_file' # NULL,
           state' \in 0..8, bytes_remaining' \in Int,
           link_input' = Wires, link_output' = Wires,
           phase' \in {"look", "after"}
    PROVE  TypeOK'
BY WidthPos DEF TypeOK

\* What the callback leaves, whoever it was that has sent the packet: the file is
\* closed, or it is still open and a packet of the emulator may follow.
Shut == /\ packet_callback' = FALSE /\ start_send' = start_send
        /\ packet_buf' = packet_buf /\ state' \in 0..8

Sent(c, s, t) ==
    /\ packet_callback' = packet_callback /\ start_send' = TRUE /\ state = s /\ state' = t
    /\ packet_buf' \in [1..2 -> Bytes] /\ IsCommand(packet_buf') /\ Is(packet_buf', c)

FileType == /\ var_file' = NULL \/ var_file' \in Seq(Bytes)
            /\ packet_callback' => var_file' # NULL
            /\ bytes_remaining' \in Int

LEMMA CloseStep ==
    ASSUME IInv, packet_callback, Cleanup, state' \in 0..8, stored' = stored, file' = file,
           state' = 8 => state = 7
    PROVE  Shut /\ FileType /\ Transfer'
<1>1. Transfer'
  BY Closed DEF IInv
<1> QED BY <1>1 DEF IInv, TypeOK, Cleanup, Shut, FileType

\* A part of the file is sent: a variable's name, or its contents.
LEMMA SendPartStep ==
    ASSUME IInv, packet_callback, file' = file, stored' = stored,
           NEW c, NEW s, NEW t, SendPart(c), state = s, state' = t,
           (c = "RTS" /\ s = 0 /\ t = 1) \/ (c = "DATA" /\ s = 4 /\ t = 5)
    PROVE  FileType /\ Transfer' /\ (Shut \/ Sent(c, s, t))
<1>1. CASE var_file = <<>>
  BY <1>1, CloseStep DEF SendPart
<1>2. CASE var_file # <<>>
  <2>1. PICK n : n = file.size - bytes_remaining
    OBVIOUS
  <2>2. PICK k : k = Len(stored)
    OBVIOUS
  <2>3. /\ file \in Files /\ stored \in Seq(Bytes) /\ k \in Nat /\ Kept(k)
        /\ Left(n) /\ n \in Nat /\ Progress(k, n)
    BY <2>1, <2>2, TransferCounts DEF IInv
  <2>4. /\ Send(c, Head(var_file)) /\ var_file' = Tail(var_file)
        /\ bytes_remaining' = bytes_remaining - 1
        /\ packet_callback' = packet_callback
    BY <1>2 DEF SendPart
  <2>5. Left(n + 1)' /\ Head(var_file) \in Bytes /\ Head(var_file) = file.parts[n + 1]
    BY <1>2, <2>3, <2>4, PartRead
  <2>6. PICK b \in Bytes : b = Head(var_file)
    BY <2>5
  <2>7. packet_buf' = <<Code[c], b>> /\ start_send' = TRUE
    BY <2>4, <2>6 DEF Send
  <2>8. /\ packet_buf' \in [1..2 -> Bytes] /\ IsCommand(packet_buf') /\ Is(packet_buf', c)
        /\ packet_buf'[2] = b
    BY <2>7, DataPacket DEF WithData, Is
  <2>9. n + 1 = file'.size - bytes_remaining'
    <3>1. file.size \in Nat /\ bytes_remaining \in Int
      BY <2>3, NotNull DEF IInv, TypeOK
    <3> QED BY <2>1, <2>4, <3>1
  <2>10. Progress(k, n + 1)'
    <3>1. CASE s = 0
      BY <2>3, <3>1 DEF Progress, Due
    <3>2. CASE s = 4
      <4>1. n = 2 * k + 1 /\ Due(k) /\ state' = 5
        BY <2>3, <3>2 DEF Progress
      <4>2. packet_buf'[2] = file.parts[n + 1] /\ n + 1 = 2 * k + 2
        BY <2>3, <2>5, <2>6, <2>8, <4>1
      <4> QED BY <4>1, <4>2 DEF Progress, Due
    <3> QED BY <3>1, <3>2
  <2>11. Kept(Len(stored))' /\ k = Len(stored')
    BY <2>2, <2>3 DEF Kept
  <2>12. Transfer'
    BY <2>3, <2>4, <2>5, <2>9, <2>10, <2>11, TransferFrom
  <2>13. FileType
    <3>1. var_file' \in Seq(Bytes)
      BY <2>5 DEF Left
    <3>2. bytes_remaining' \in Int
      BY <2>4 DEF IInv, TypeOK
    <3> QED BY <3>1, <3>2, NotNull DEF FileType
  <2> QED BY <2>4, <2>7, <2>8, <2>12, <2>13 DEF Sent
<1> QED BY <1>1, <1>2

-----------------------------------------------------------------------------
(***************************************************************************)
(* The end of a bit, on either side.                                       *)
(***************************************************************************)
\* Between two bits of a packet of the emulator.
LEMMA LetGoWithin ==
    ASSUME IInv, LetGo, sending, At + 1 # Size(packet_buf), Agrees(rx, packet_buf, At + 1),
           Advances, link_output' = Wires,
           link_input' = IF sending' THEN Up(packet_buf[packet_pos' + 1][packet_bit' + 1]) ELSE Wires
    PROVE  IInv' /\ LineSame
<1> USE SizeRange
<1>1. /\ IsCommand(packet_buf) /\ packet_buf \in [1..2 -> Bytes]
      /\ At \in Nat /\ At < Size(packet_buf) /\ At + 1 \in 1..Size(packet_buf)
      /\ Sends /\ rx \in Seq({0, 1}) /\ ~start_send /\ queue = <<>>
  BY SendingWires DEF Sends, IInv, CalcOK
<1>2. ~Whole(rx)
  <2>1. PICK n \in 1..Size(packet_buf) : n = At + 1
    BY <1>1
  <2> QED BY <1>1, <2>1, WholePacket
<1>3. phase' = "look" /\ UNCHANGED <<queue, stored, rx, nsent, heard_calc, file>>
  BY <1>2 DEF LetGo, history
<1>4. /\ At' = At + 1 /\ packet_bit' \in 0..(Width - 1) /\ packet_pos' \in 0..1
      /\ packet_size' \in 0..2
      /\ UNCHANGED <<packet_buf, sending, start_send, fileVars, heard_emu>>
  BY DEF Advances
<1>5. At' < Size(packet_buf)
  BY <1>1, <1>4
<1>6. packet_buf[packet_pos' + 1][packet_bit' + 1] = BitAt(packet_buf, At' + 1)
  <2>1. CASE packet_pos' = 0
    <3>1. At' = packet_bit' /\ At' + 1 <= Width
      BY <1>4, <2>1 DEF At
    <3> QED BY <2>1, <3>1 DEF BitAt
  <2>2. CASE packet_pos' = 1
    <3>1. At' = Width + packet_bit' /\ ~(At' + 1 <= Width) /\ At' + 1 - Width = packet_bit' + 1
      BY <1>4, <2>2 DEF At
    <3> QED BY <2>2, <3>1 DEF BitAt
  <2> QED BY <1>4, <2>1, <2>2
<1>7. PICK x \in {0, 1} : x = BitAt(packet_buf, At' + 1)
  <2>1. At' + 1 \in 1..Size(packet_buf)
    BY <1>1, <1>4, <1>5
  <2> QED BY <1>1, <2>1, PacketOf
<1>8. link_input' = Up(x)
  BY <1>4, <1>6, <1>7
<1>9. TypeOK'
  <2>1. link_input' \in SUBSET Wires /\ link_output' \in SUBSET Wires
    BY <1>8, UpBit DEF Wires
  <2> QED BY <1>3, <1>4, <2>1 DEF IInv, TypeOK, fileVars
<1>10. CalcOK'
  BY <1>3 DEF IInv, CalcOK
<1>11. Sends'
  <2>1. packet_pos' = 1 => packet_size' = 2
    BY DEF Advances, IInv, BitInv, Sends
  <2>2. Agrees(rx', packet_buf', At')
    BY <1>3, <1>4 DEF Agrees
  <2>3. At' < Size(packet_buf') /\ link_input' = Up(BitAt(packet_buf', At' + 1))
    BY <1>4, <1>5, <1>7, <1>8
  <2> QED BY <1>1, <1>3, <1>4, <2>1, <2>2, <2>3 DEF Sends
<1>12. BitInv'
  BY <1>4, <1>11, SendsInv
<1>13. Exchange'
  BY <1>1, <1>3, <1>4 DEF IInv, Exchange, Out, In, Answer, Done, fileVars
<1>14. Transfer'
  BY <1>3, <1>4, TransferSame DEF IInv
<1>15. LineSame
  BY <1>1, <1>3, <1>4 DEF LineSame, UnderWay
<1> QED BY <1>9, <1>10, <1>12, <1>13, <1>14, <1>15 DEF IInv

\* What the calculator does with a whole packet of the emulator.
LEMMA LetGoHears ==
    ASSUME IInv, LetGo, sending, At + 1 = Size(packet_buf), Agrees(rx, packet_buf, At + 1)
    PROVE  /\ phase' = "look" /\ rx' = <<>> /\ nsent' = 0 /\ file' = file
           /\ heard_calc' = Packet(packet_buf)
           /\ queue' \in Answers(Packet(packet_buf))
           /\ stored' = IF Is(packet_buf, "DATA") THEN Append(stored, packet_buf[2]) ELSE stored
<1> USE SizeRange
<1>1. /\ IsCommand(packet_buf) /\ packet_buf \in [1..2 -> Bytes]
      /\ At + 1 \in 1..Size(packet_buf)
      /\ Sends /\ rx \in Seq({0, 1}) /\ queue = <<>> /\ nsent = 0
  BY SendingWires DEF Sends, IInv, CalcOK
<1>2. Whole(rx) /\ AsPacket(rx) = Packet(packet_buf)
  <2>1. PICK n \in 1..Size(packet_buf) : n = At + 1
    BY <1>1
  <2> QED BY <1>1, <2>1, WholePacket
<1>3. Is(AsPacket(rx), "DATA") <=> Is(packet_buf, "DATA")
  BY <1>1, <1>2, PacketOf DEF Is
<1>4. ASSUME Is(packet_buf, "DATA") PROVE AsPacket(rx)[2] = packet_buf[2]
  BY <1>1, <1>2, <1>4, PacketOf, Codes DEF Is, WithData
<1> QED BY <1>1, <1>2, <1>3, <1>4 DEF LetGo, history

\* The variable that a transfer's contents are stored in.
LEMMA StoredStep ==
    ASSUME IInv, packet_callback, state = 5, state' = 6, packet_callback' = packet_callback,
           file' = file, var_file' = var_file, bytes_remaining' = bytes_remaining,
           packet_buf \in [1..2 -> Bytes], stored' = Append(stored, packet_buf[2])
    PROVE  Transfer'
<1>1. PICK n : n = file.size - bytes_remaining
  OBVIOUS
<1>2. PICK k : k = Len(stored)
  OBVIOUS
<1>3. /\ file \in Files /\ stored \in Seq(Bytes) /\ k \in Nat /\ Kept(k)
      /\ Left(n) /\ n \in Nat /\ Progress(k, n)
  BY <1>1, <1>2, TransferCounts DEF IInv
<1>4. PICK b \in Bytes : b = packet_buf[2]
  OBVIOUS
<1>5. /\ stored' \in Seq(Bytes) /\ Len(stored') = k + 1 /\ stored'[k + 1] = b
      /\ \A i \in 1..k : stored'[i] = stored[i]
  BY <1>2, <1>3, <1>4, AppendProperties
<1>6. n = 2 * k + 2 /\ Due(k) /\ b = file.parts[n]
  BY <1>3, <1>4 DEF Progress
<1>7. Kept(k + 1)'
  <2>1. 2 * (k + 1) = n /\ n <= Len(file.parts)
    BY <1>3, <1>6 DEF Left
  <2>2. ASSUME NEW i \in 1..(k + 1) PROVE stored'[i] = file.parts[2 * i]
    <3>1. CASE i = k + 1
      BY <1>5, <1>6, <2>1, <3>1
    <3>2. CASE i # k + 1
      BY <1>3, <1>5, <3>2 DEF Kept
    <3> QED BY <3>1, <3>2
  <2> QED BY <2>1, <2>2 DEF Kept
<1>8. Progress(k + 1, n)'
  <2>1. n = 2 * (k + 1) /\ k + 1 >= 1 /\ (k + 1) - 1 = k
    BY <1>3, <1>6
  <2> QED BY <1>6, <2>1 DEF Progress, Due
<1>9. Left(n)' /\ n = file'.size - bytes_remaining' /\ k + 1 = Len(stored')
  BY <1>1, <1>3, <1>5 DEF Left
<1>10. Kept(Len(stored))'
  BY <1>7, <1>9
<1>11. \A m : m = Len(stored') /\ Progress(m, n)' => Transfer'
  BY <1>3, <1>5, <1>9, <1>10, TransferFrom
<1> QED BY <1>8, <1>9, <1>11

\* A transfer goes on when the packet buffer changes elsewhere than in the
\* contents that are on their way.
LEMMA TransferOn ==
    ASSUME IInv, packet_callback, file' = file, stored' = stored,
           var_file' = var_file, bytes_remaining' = bytes_remaining,
           packet_callback' = packet_callback, NEW s, NEW t, state = s, state' = t,
           (s = 1 /\ t = 2) \/ (s = 2 /\ t = 3) \/ (s = 3 /\ t = 4)
              \/ (s = 6 /\ t = 0 /\ bytes_remaining > 0) \/ (s = 6 /\ t = 7 /\ ~(bytes_remaining > 0))
    PROVE  Transfer'
<1>1. PICK n : n = file.size - bytes_remaining
  OBVIOUS
<1>2. PICK k : k = Len(stored)
  OBVIOUS
<1>3. /\ file \in Files /\ stored \in Seq(Bytes) /\ k \in Nat /\ Kept(k)
      /\ Left(n) /\ n \in Nat /\ Progress(k, n)
  BY <1>1, <1>2, TransferCounts DEF IInv
<1>4. file.size \in Nat /\ bytes_remaining \in Int
  BY <1>3, NotNull DEF IInv, TypeOK
<1>5. Progress(k, n)'
  <2>1. CASE t \in {2, 3, 4}
    BY <1>3, <2>1 DEF Progress, Due
  <2>2. CASE t \in {0, 7}
    <3>1. n = 2 * k /\ k >= 1 /\ Due(k - 1)
      BY <1>3, <2>2 DEF Progress
    <3>2. bytes_remaining > 0 <=> 2 * k < file.size
      BY <1>1, <1>3, <1>4, <3>1
    <3>3. (t = 0 => 2 * k < file.size) /\ (t = 7 => 2 * k >= file.size)
      BY <1>3, <1>4, <2>2, <3>2
    <3> QED BY <2>2, <3>1, <3>3 DEF Progress, Due
  <2> QED BY <2>1, <2>2
<1>6. Left(n)' /\ n = file'.size - bytes_remaining' /\ Kept(Len(stored))' /\ k = Len(stored')
  BY <1>1, <1>2, <1>3 DEF Left, Kept
<1> QED BY <1>3, <1>5, <1>6, TransferFrom

LEMMA HeardType ==
    ASSUME IInv, var_file' = var_file, bytes_remaining' = bytes_remaining,
           packet_callback' = packet_callback
    PROVE  FileType
BY DEF IInv, TypeOK, FileType

\* What the end of a packet of the emulator leaves.
Rest == /\ queue' \in Seq(Packets) /\ (\A k \in 1..Len(queue') : IsPacket(queue'[k]))
        /\ packet_buf' \in [1..2 -> Bytes] /\ start_send' \in BOOLEAN
        /\ packet_callback' \in BOOLEAN
        /\ start_send' => IsCommand(packet_buf') /\ queue' = <<>>
        /\ FileType /\ state' \in 0..8 /\ Exchange' /\ Transfer'

\* The last bit of a packet of the emulator.
LEMMA LetGoEnds ==
    ASSUME IInv, LetGo, sending, At + 1 = Size(packet_buf), Agrees(rx, packet_buf, At + 1),
           Finishes, link_output' = Wires, link_input' = Wires
    PROVE  IInv' /\ Line!Take
<1>1. /\ IsCommand(packet_buf) /\ packet_buf \in [1..2 -> Bytes] /\ ~start_send
      /\ packet_callback /\ state \in {0, 1, 4, 5, 7}
      /\ Out("RTS") \/ Out("ACK") \/ Out("DATA") \/ Out("EOT")
  BY SendingWires DEF IInv, Exchange, Sends, In
<1>2. /\ phase' = "look" /\ rx' = <<>> /\ nsent' = 0 /\ file' = file
      /\ heard_calc' = Packet(packet_buf)
      /\ queue' \in Answers(Packet(packet_buf))
      /\ stored' = IF Is(packet_buf, "DATA") THEN Append(stored, packet_buf[2]) ELSE stored
  BY LetGoHears
<1>3. /\ packet_pos' = 0 /\ packet_bit' = 0 /\ packet_size' \in 0..2
      /\ sending' = FALSE /\ heard_emu' = heard_emu /\ send_variable_callback
  BY <1>1 DEF Finishes, AtStart
<1>4. Packet(packet_buf)[1] = packet_buf[1]
  BY <1>1, PacketOf
<1>0. packet_callback \in BOOLEAN
  BY DEF IInv, TypeOK
<1>5. ASSUME state = 1 PROVE Rest
  <2>1. Is(packet_buf, "RTS")
    BY <1>1, <1>5 DEF IInv, Exchange, Out, In
  <2>2. ~Is(packet_buf, "DATA") /\ Packet(packet_buf) = packet_buf
    BY <1>1, <2>1, CodeInj, Codes, PacketOf DEF Is, WithData
  <2>3. Same /\ state' = 2
    BY <1>3, <1>5 DEF send_variable_callback
  <2>4. /\ queue' \in Seq(Packets) /\ Len(queue') = 2
        /\ \A k \in 1..Len(queue') : IsPacket(queue'[k])
        /\ Is(queue'[1], "ACK") /\ Answer(queue'[2])
    BY <1>1, <1>2, <2>1, <2>2, AnswersRTS
  <2>5. /\ packet_buf' = packet_buf /\ start_send' = FALSE /\ packet_callback' = packet_callback
        /\ var_file' = var_file /\ bytes_remaining' = bytes_remaining
    BY <1>1, <2>3 DEF Same, IInv, TypeOK
  <2>6. stored' = stored
    BY <1>2, <2>2
  <2>7. Transfer'
    BY <1>1, <1>2, <1>5, <2>3, <2>5, <2>6, TransferOn
  <2>8. Exchange'
    <3>1. ~Done' /\ In' /\ packet_callback' /\ state' = 2
      BY <1>1, <1>2, <1>3, <2>3, <2>5 DEF Done, In
    <3> QED BY <2>4, <3>1 DEF Exchange, Answer
  <2>9. FileType
    BY <2>5, HeardType
  <2>10. /\ packet_buf' \in [1..2 -> Bytes] /\ start_send' \in BOOLEAN
         /\ packet_callback' \in BOOLEAN
    BY <1>0, <1>1, <2>5
  <2>11. state' \in 0..8 /\ ~start_send'
    BY <2>3, <2>5
  <2> QED BY <2>4, <2>7, <2>8, <2>9, <2>10, <2>11 DEF Rest
<1>6. ASSUME state = 5 PROVE Rest
  <2>1. Is(packet_buf, "DATA")
    BY <1>1, <1>6 DEF IInv, Exchange, Out, In
  <2>2. Packet(packet_buf) = packet_buf
    BY <1>1, <2>1, Codes, PacketOf DEF Is, WithData
  <2>3. Same /\ state' = 6
    BY <1>3, <1>6 DEF send_variable_callback
  <2>4. /\ queue' \in Seq(Packets) /\ Len(queue') = 1
        /\ \A k \in 1..Len(queue') : IsPacket(queue'[k])
        /\ Is(queue'[1], "ACK")
    BY <1>2, <2>1, <2>2, AnswersDATA
  <2>5. /\ packet_buf' = packet_buf /\ start_send' = FALSE /\ packet_callback' = packet_callback
        /\ var_file' = var_file /\ bytes_remaining' = bytes_remaining
    BY <1>1, <2>3 DEF Same, IInv, TypeOK
  <2>6. stored' = Append(stored, packet_buf[2])
    BY <1>2, <2>1
  <2>7. Transfer'
    BY <1>1, <1>2, <1>6, <2>3, <2>5, <2>6, StoredStep
  <2>8. Exchange'
    <3>1. ~Done' /\ In' /\ packet_callback' /\ state' = 6
      BY <1>1, <1>2, <1>3, <2>3, <2>5 DEF Done, In
    <3> QED BY <2>4, <3>1 DEF Exchange
  <2>9. FileType
    BY <2>5, HeardType
  <2>10. /\ packet_buf' \in [1..2 -> Bytes] /\ start_send' \in BOOLEAN
         /\ packet_callback' \in BOOLEAN
    BY <1>0, <1>1, <2>5
  <2>11. state' \in 0..8 /\ ~start_send'
    BY <2>3, <2>5
  <2> QED BY <2>4, <2>7, <2>8, <2>9, <2>10, <2>11 DEF Rest
<1>7. ASSUME state \in {0, 4, 7} PROVE queue' = <<>> /\ stored' = stored
  <2>1. Is(packet_buf, "ACK") \/ Is(packet_buf, "EOT")
    BY <1>1, <1>7 DEF IInv, Exchange, Out, In
  <2>2. ~Is(packet_buf, "DATA")
    BY <2>1, CodeInj DEF Is, WithData, NoData
  <2>3. Is(Packet(packet_buf), "ACK") \/ Is(Packet(packet_buf), "EOT")
    BY <1>4, <2>1 DEF Is
  <2> QED BY <1>2, <2>2, <2>3, AnswersPlain
<1>8. ASSUME queue' = <<>>, Shut, FileType, Transfer' PROVE Rest
  <2>1. start_send' = FALSE /\ In'
    BY <1>1, <1>3, <1>8 DEF Shut, In, IInv, TypeOK
  <2>2. Exchange'
    BY <1>8, <2>1 DEF Exchange, Shut
  <2>3. packet_buf' \in [1..2 -> Bytes] /\ start_send' = FALSE /\ packet_callback' = FALSE
        /\ state' \in 0..8
    BY <1>1, <1>8, <2>1 DEF Shut
  <2>4. queue' \in Seq(Packets) /\ \A k \in 1..Len(queue') : IsPacket(queue'[k])
    BY <1>8
  <2> QED BY <1>8, <2>2, <2>3, <2>4 DEF Rest
<1>9. ASSUME state \in {0, 4} PROVE Rest
  <2>1. PICK c, t : /\ (c = "RTS" /\ state = 0 /\ t = 1) \/ (c = "DATA" /\ state = 4 /\ t = 5)
                    /\ SendPart(c) /\ state' = t
    BY <1>3, <1>9 DEF send_variable_callback
  <2>2. queue' = <<>> /\ stored' = stored
    BY <1>7, <1>9
  <2>3. FileType /\ Transfer' /\ (Shut \/ Sent(c, state, t))
    BY <1>1, <1>2, <2>1, <2>2, SendPartStep
  <2>4. CASE Sent(c, state, t)
    <3>1. /\ packet_callback' /\ packet_callback' \in BOOLEAN /\ start_send' = TRUE
          /\ packet_buf' \in [1..2 -> Bytes] /\ IsCommand(packet_buf') /\ Is(packet_buf', c)
      BY <1>1, <2>4 DEF Sent, IInv, TypeOK
    <3>2. Exchange'
      BY <2>1, <3>1 DEF Exchange, Out
    <3>3. state' \in 0..8
      BY <2>1
    <3>4. queue' \in Seq(Packets) /\ \A k \in 1..Len(queue') : IsPacket(queue'[k])
      BY <2>2
    <3> QED BY <2>2, <2>3, <3>1, <3>2, <3>3, <3>4 DEF Rest
  <2> QED BY <1>8, <2>2, <2>3, <2>4
<1>10. ASSUME state = 7 PROVE Rest
  <2>1. Cleanup /\ state' = 8
    BY <1>3, <1>10 DEF send_variable_callback
  <2>2. queue' = <<>> /\ stored' = stored
    BY <1>7, <1>10
  <2>3. Shut /\ FileType /\ Transfer'
    BY <1>1, <1>2, <1>10, <2>1, <2>2, CloseStep
  <2> QED BY <1>8, <2>2, <2>3
<1>11. Rest
  BY <1>1, <1>5, <1>6, <1>9, <1>10
<1>12. TypeOK'
  <2>1. sending' \in BOOLEAN
    BY <1>3
  <2> QED BY <1>2, <1>3, <1>11, <2>1, TypeFrom DEF FileType, Rest
<1>13. CalcOK'
  <2>1. nsent' \in 0..(2 * Width)
    BY <1>2, WidthPos
  <2>2. rx' \in Seq({0, 1})
    BY <1>2
  <2> QED BY <1>2, <1>11, <2>1, <2>2 DEF CalcOK, Rest
<1>14. BitInv'
  <2>1. Quiet' /\ ~sending'
    BY <1>3 DEF Quiet
  <2> QED BY <1>2, <1>3, <1>11, <2>1, BitInvLook DEF Rest
<1>15. IInv'
  BY <1>11, <1>12, <1>13, <1>14 DEF IInv, Rest
<1> QED BY <1>2, <1>3, <1>15, TakeCalc

\* The calculator lets go, and the emulator goes on to its next bit.
LEMMA LetGoStep ==
    ASSUME IInv, LetGo
    PROVE  IInv' /\ Carries
<1>1. phase = "letgo" /\ sending
  BY Phases DEF LetGo
<1>2. /\ Sends /\ Agrees(rx, packet_buf, At + 1) /\ link_input = Wires
      /\ IsCommand(packet_buf) /\ At < Size(packet_buf) /\ (packet_pos = 1 => packet_size = 2)
  BY <1>1, SendingWires DEF Sends
<1>3. /\ next_bit /\ link_output' = Wires
      /\ link_input' = IF sending' THEN Up(packet_buf[packet_pos' + 1][packet_bit' + 1]) ELSE Wires
  BY <1>1, <1>2 DEF LetGo, Write, WriteSending
<1>4. IF At + 1 = Size(packet_buf) THEN Finishes ELSE Advances
  BY <1>2, <1>3, NextBit DEF IInv
<1>5. CASE At + 1 = Size(packet_buf)
  <2>1. link_input' = Wires
    BY <1>3, <1>4, <1>5 DEF Finishes
  <2> QED BY <1>1, <1>2, <1>3, <1>4, <1>5, <2>1, LetGoEnds DEF Carries, Line!Next
<1>6. CASE At + 1 # Size(packet_buf)
  BY <1>1, <1>2, <1>3, <1>4, <1>6, LetGoWithin DEF Carries
<1> QED BY <1>5, <1>6

\* Between two bits of a packet of the calculator.
LEMMA FreeWithin ==
    ASSUME IInv, Free, ~sending, ~start_send, queue # <<>>, nsent = At,
           At + 1 < Size(Head(queue)), Received(Head(queue), packet_bit + 1),
           Advances, link_output' = Wires, link_input' = Wires
    PROVE  IInv' /\ LineSame
<1> USE SizeRange
<1>1. IsPacket(Head(queue)) /\ At \in 0..(2 * Width - 1) /\ rx = <<>> /\ TypeOK
  BY ReceivingWires DEF IInv
<1>2. phase' = "after" /\ nsent' = nsent + 1 /\ UNCHANGED <<queue, stored, rx, heard_calc, file>>
  BY DEF Free, history
<1>3. /\ At' = At + 1 /\ packet_bit' \in 0..(Width - 1) /\ packet_pos' \in 0..1
      /\ packet_size' \in 0..2
      /\ UNCHANGED <<packet_buf, sending, start_send, fileVars, heard_emu>>
  BY DEF Advances
<1>4. nsent' = At' /\ At' < Size(Head(queue'))
  BY <1>1, <1>2, <1>3
<1>5. Received(Head(queue), packet_bit)'
  <2>1. CASE packet_pos' = packet_pos /\ packet_bit' = packet_bit + 1 /\ packet_size' = packet_size
    BY <1>2, <1>3, <2>1 DEF Received
  <2>2. CASE packet_pos = 0 /\ packet_bit = Width - 1 /\ packet_pos' = 1 /\ packet_bit' = 0 /\ packet_size' = 2
    <3>1. At + 1 >= Width
      BY <2>2 DEF At
    <3>2. packet_buf[1] = Head(queue)[1]
      BY <1>1, <3>1, ReceivedByte
    <3> QED BY <1>2, <1>3, <2>2, <3>2 DEF Received
  <2> QED BY <2>1, <2>2 DEF Advances
<1>6. TypeOK'
  BY <1>2, <1>3 DEF IInv, TypeOK, fileVars
<1>7. CalcOK'
  <2>1. nsent' \in 0..(2 * Width)
    BY <1>1, <1>2
  <2> QED BY <1>2, <2>1 DEF IInv, CalcOK
<1>8. Receives(Head(queue))'
  BY <1>2, <1>4, <1>5 DEF Receives, Quiet
<1>9. BitInv'
  BY <1>1, <1>2, <1>3, <1>8 DEF BitInv
<1>10. ~Done'
  BY <1>4 DEF Done
<1>11. Exchange'
  <2>1. phase # "after" /\ ~Done
    BY DEF Free, Done
  <2> QED BY <1>2, <1>3, <1>10, <2>1 DEF IInv, Exchange, Out, In, Answer, fileVars
<1>12. Transfer'
  BY <1>2, <1>3, TransferSame DEF IInv
<1>13. LineSame
  <2>1. nsent < Size(Head(queue)) /\ nsent' < Size(Head(queue'))
    BY <1>1, <1>4
  <2>2. IsPacket(Head(queue')) /\ Len(Bits(Head(queue))) = Size(Head(queue))
    BY <1>1, <1>2, BitsOf
  <2> QED BY <1>2, <1>3, <2>1, <2>2 DEF LineSame, UnderWay
<1> QED BY <1>6, <1>7, <1>9, <1>11, <1>12, <1>13 DEF IInv

\* What the end of a packet of the calculator leaves.
RestAfter ==
    /\ packet_buf' \in [1..2 -> Bytes] /\ start_send' \in BOOLEAN
    /\ packet_callback' \in BOOLEAN
    /\ start_send' => IsCommand(packet_buf') /\ Len(queue') = 1
    /\ FileType /\ state' \in 0..8 /\ Exchange' /\ Transfer'

\* The last bit of a packet of the calculator.
LEMMA FreeEnds ==
    ASSUME IInv, Free, ~sending, ~start_send, queue # <<>>, nsent = At,
           At + 1 = Size(Head(queue)), Received(Head(queue), packet_bit + 1),
           Finishes, link_output' = Wires, link_input' = Wires
    PROVE  IInv' /\ Line!Take
<1>1. /\ IsPacket(Head(queue)) /\ At \in 0..(2 * Width - 1) /\ rx = <<>> /\ TypeOK
      /\ phase = "free" /\ ~Done /\ Head(queue) = queue[1] /\ Len(queue) >= 1
  BY ReceivingWires DEF IInv, Free, CalcOK, Done
<1>2. IsCommand(packet_buf) /\ Packet(packet_buf) = Head(queue) /\ packet_buf[1] = Head(queue)[1]
  <2>1. At < Size(Head(queue)) /\ At + 1 >= Width
    BY <1>1, SizeRange
  <2> QED BY <1>1, <2>1, ReceivedByte
<1>3. /\ packet_callback /\ packet_callback \in BOOLEAN
      /\ \/ state = 2 /\ Len(queue) = 2 /\ Is(queue[1], "ACK") /\ Answer(queue[2])
         \/ state = 3 /\ Len(queue) = 1 /\ Answer(queue[1])
         \/ state = 6 /\ Len(queue) = 1 /\ Is(queue[1], "ACK")
  <2>1. ~Out("RTS") /\ ~Out("ACK") /\ ~Out("DATA") /\ ~Out("EOT")
    BY DEF Out
  <2> QED BY <1>1, <2>1 DEF IInv, Exchange, TypeOK
<1>4. /\ phase' = "after" /\ nsent' = nsent + 1
      /\ UNCHANGED <<queue, stored, rx, heard_calc, file>>
  BY DEF Free, history
<1>5. /\ packet_pos' = 0 /\ packet_bit' = 0 /\ packet_size' \in 0..2
      /\ sending' = FALSE /\ heard_emu' = Head(queue) /\ send_variable_callback
  BY <1>2, <1>3 DEF Finishes, AtStart
<1>6. nsent' = Size(Head(queue')) /\ nsent < Size(Head(queue)) /\ Done'
  BY <1>1, <1>4, SizeRange DEF Done
<1>7. packet_buf \in [1..2 -> Bytes] /\ start_send = FALSE
  BY DEF IInv, TypeOK
<1>8. ASSUME state = 2 PROVE RestAfter
  <2>1. Is(packet_buf, "ACK")
    BY <1>1, <1>2, <1>3, <1>8 DEF Is
  <2>2. Same /\ state' = 3
    BY <1>5, <1>8, <2>1 DEF send_variable_callback
  <2>3. /\ packet_buf' = packet_buf /\ start_send' = FALSE /\ packet_callback' = packet_callback
        /\ var_file' = var_file /\ bytes_remaining' = bytes_remaining
    BY <1>7, <2>2 DEF Same
  <2>4. Transfer'
    BY <1>3, <1>4, <1>8, <2>2, <2>3, TransferOn
  <2>5. Exchange'
    <3>1. In'
      BY <1>5, <2>3 DEF In
    <3> QED BY <1>3, <1>4, <1>6, <1>8, <2>2, <2>3, <3>1 DEF Exchange, Answer
  <2>6. FileType
    BY <2>3, HeardType
  <2>7. state' \in 0..8 /\ ~start_send'
    BY <2>2, <2>3
  <2>8. start_send' \in BOOLEAN
    BY <2>3
  <2>9. packet_callback \in BOOLEAN /\ packet_callback' = packet_callback
    BY <1>3, <2>3
  <2>10. packet_callback' \in BOOLEAN
    BY <2>9
  <2> QED BY <1>7, <2>3, <2>4, <2>5, <2>6, <2>7, <2>8, <2>10 DEF RestAfter
<1>9. ASSUME NEW c \in {"ACK", "EOT"}, SendPlain(c), FileType, Transfer', Len(queue) = 1,
             state' \in 0..8, (c = "ACK" /\ state' = 4) \/ (c = "EOT" /\ state' \in {0, 7})
      PROVE  RestAfter
  <2>1. packet_buf' = <<Code[c], packet_buf[2]>> /\ start_send' = TRUE
        /\ packet_callback' = packet_callback
    BY <1>9 DEF SendPlain, Send
  <2>2. PICK b \in Bytes : b = packet_buf[2]
    BY <1>7
  <2>3. Code[c] \in Bytes /\ IsPlain(Code[c])
    BY Codes, CodeBytes DEF NoData
  <2>4. /\ packet_buf' \in [1..2 -> Bytes] /\ IsCommand(packet_buf') /\ Is(packet_buf', c)
    BY <2>1, <2>2, <2>3 DEF IsCommand, Is
  <2>5. Exchange'
    BY <1>3, <1>9, <2>1, <2>4 DEF Exchange, Out
  <2>6. packet_callback' \in BOOLEAN /\ start_send' \in BOOLEAN /\ Len(queue') = 1
    BY <1>3, <1>4, <1>9, <2>1
  <2> QED BY <1>9, <2>4, <2>5, <2>6 DEF RestAfter
<1>10. ASSUME state = 3 PROVE RestAfter
  <2>1. state' = 4 /\ IF Is(packet_buf, "CTS") THEN SendPlain("ACK") ELSE Cleanup
    BY <1>5, <1>10 DEF send_variable_callback
  <2>2. CASE Is(packet_buf, "CTS")
    <3>1. /\ SendPlain("ACK") /\ var_file' = var_file /\ bytes_remaining' = bytes_remaining
          /\ packet_callback' = packet_callback
      BY <2>1, <2>2 DEF SendPlain
    <3>2. Transfer'
      BY <1>3, <1>4, <1>10, <2>1, <3>1, TransferOn
    <3>3. FileType
      BY <3>1, HeardType
    <3>4. Len(queue) = 1 /\ state' \in 0..8
      BY <1>3, <1>10, <2>1
    <3> QED BY <1>9, <2>1, <3>1, <3>2, <3>3, <3>4
  <2>3. CASE ~Is(packet_buf, "CTS")
    <3>1. Cleanup /\ state' \in 0..8 /\ stored' = stored /\ file' = file /\ (state' = 8 => state = 7)
      BY <1>4, <2>1, <2>3
    <3>2. Shut /\ FileType /\ Transfer'
      BY <1>3, <3>1, CloseStep
    <3>3. start_send' = FALSE /\ In' /\ packet_callback' = FALSE /\ packet_buf' = packet_buf
      BY <1>5, <1>7, <3>2 DEF Shut, In
    <3>4. Exchange'
      BY <1>3, <1>4, <1>6, <1>10, <3>3 DEF Exchange
    <3>5. /\ packet_buf' \in [1..2 -> Bytes] /\ start_send' \in BOOLEAN
          /\ packet_callback' \in BOOLEAN
      BY <1>7, <3>3
    <3> QED BY <3>1, <3>2, <3>3, <3>4, <3>5 DEF RestAfter
  <2> QED BY <2>2, <2>3
<1>11. ASSUME state = 6 PROVE RestAfter
  <2>1. Is(packet_buf, "ACK")
    BY <1>1, <1>2, <1>3, <1>11 DEF Is
  <2>2. SendPlain("EOT") /\ state' = IF bytes_remaining > 0 THEN 0 ELSE 7
    BY <1>5, <1>11, <2>1 DEF send_variable_callback
  <2>3. /\ var_file' = var_file /\ bytes_remaining' = bytes_remaining
        /\ packet_callback' = packet_callback
    BY <2>2 DEF SendPlain
  <2>4. Transfer'
    <3>1. PICK t : state' = t /\ ((t = 0 /\ bytes_remaining > 0) \/ (t = 7 /\ ~(bytes_remaining > 0)))
      BY <2>2
    <3> QED BY <1>3, <1>4, <1>11, <2>3, <3>1, TransferOn
  <2>5. FileType
    BY <2>3, HeardType
  <2>6. Len(queue) = 1 /\ state' \in 0..8 /\ state' \in {0, 7}
    BY <1>3, <1>11, <2>2
  <2> QED BY <1>9, <2>2, <2>4, <2>5, <2>6
<1>12. RestAfter
  BY <1>3, <1>8, <1>10, <1>11
<1>13. TypeOK'
  <2>1. sending' \in BOOLEAN
    BY <1>5
  <2> QED BY <1>4, <1>5, <1>12, <2>1, TypeFrom DEF FileType, RestAfter
<1>14. CalcOK'
  <2>1. nsent' \in 0..(2 * Width)
    BY <1>1, <1>4, WidthPos
  <2> QED BY <1>4, <2>1 DEF IInv, CalcOK
<1>15. BitInv'
  <2>1. Quiet' /\ ~sending' /\ rx' = <<>> /\ queue' # <<>>
    BY <1>1, <1>4, <1>5 DEF Quiet
  <2> QED BY <1>4, <1>5, <1>6, <1>12, <2>1, BitInvAfter DEF RestAfter
<1>16. IInv'
  BY <1>12, <1>13, <1>14, <1>15 DEF IInv, RestAfter
<1> QED BY <1>4, <1>5, <1>6, <1>16, TakeEmu

\* The calculator lets go of its own bit, and the emulator of the other wire.
LEMMA FreeStep ==
    ASSUME IInv, Free
    PROVE  IInv' /\ Carries
<1>1. phase = "free" /\ ~sending /\ ~start_send /\ queue # <<>>
  BY Phases DEF Free
<1>2. /\ IsPacket(Head(queue)) /\ nsent = At /\ At < Size(Head(queue))
      /\ link_output = Up(BitAt(Head(queue), At + 1)) /\ link_input = Other(link_output)
      /\ Received(Head(queue), packet_bit + 1)
      /\ BitAt(Head(queue), At + 1) \in {0, 1} /\ At \in 0..(2 * Width - 1)
  BY <1>1, ReceivingWires DEF Receives
<1>3. PICK x \in {0, 1} : x = BitAt(Head(queue), At + 1)
  BY <1>2
<1>4. link_input # Wires /\ link_input \cap Wires # {}
  BY <1>2, <1>3, UpBit, WireSets
<1>5. next_bit /\ link_output' = Wires /\ link_input' = Wires
  BY <1>1, <1>4 DEF Free, Write, WriteReceiving
<1>6. /\ At + 1 >= Width => packet_buf[1] = Head(queue)[1]
      /\ packet_pos = 1 => packet_size = 2
      /\ IsCommand(Head(queue))
  BY <1>2, ReceivedByte DEF IInv, IsPacket
<1>7. IF At + 1 = Size(Head(queue)) THEN Finishes ELSE Advances
  BY <1>2, <1>5, <1>6, NextBit DEF IInv
<1>8. CASE At + 1 = Size(Head(queue))
  BY <1>1, <1>2, <1>5, <1>7, <1>8, FreeEnds DEF Carries, Line!Next
<1>9. CASE At + 1 # Size(Head(queue))
  <2>1. At + 1 < Size(Head(queue))
    BY <1>2, <1>9, SizeRange
  <2> QED BY <1>1, <1>2, <1>5, <1>7, <1>9, <2>1, FreeWithin DEF Carries
<1> QED BY <1>8, <1>9

-----------------------------------------------------------------------------
(***************************************************************************)
(* Between packets: the next one, a packet given up, a reset, a new file.  *)
(***************************************************************************)
\* The calculator has its next packet to send, if any.
LEMMA NextPacket ==
    ASSUME IInv, phase = "after", Done, ~sending, ~start_send, queue # <<>>, At = 0, Quiet,
           phase' = "look", queue' = Tail(queue), nsent' = 0,
           UNCHANGED <<portVars, rx, stored, heard_calc, heard_emu, file>>
    PROVE  IInv' /\ Carries
<1> USE DEF portVars, packetVars
<1>1. IsPacket(Head(queue)) /\ rx = <<>> /\ queue \in Seq(Packets) /\ Len(queue) >= 1
  BY ReceivingWires DEF IInv, CalcOK
<1>2. /\ queue' \in Seq(Packets) /\ Len(queue') = Len(queue) - 1
      /\ \A k \in 1..Len(queue') : queue'[k] = queue[k + 1]
  BY <1>1, HeadTailProperties
<1>3. packet_pos = 0 /\ packet_bit = 0
  BY WidthPos DEF At, IInv, TypeOK
<1>4. TypeOK'
  BY DEF IInv, TypeOK, fileVars
<1>5. CalcOK'
  <2>1. ASSUME NEW k \in 1..Len(queue') PROVE IsPacket(queue'[k])
    BY <1>1, <1>2 DEF IInv, CalcOK
  <2>2. nsent' \in 0..(2 * Width)
    BY WidthPos
  <2> QED BY <1>1, <1>2, <2>1, <2>2 DEF CalcOK
<1>6. BitInv'
  <2>1. Quiet' /\ ~sending' /\ ~start_send' /\ packet_pos' = 0 /\ packet_bit' = 0 /\ rx' = <<>>
    BY <1>1, <1>3 DEF Quiet
  <2> QED BY <2>1, BitInvLook
<1>7. Exchange'
  <2>1. /\ In' /\ ~Done' /\ packet_callback' = packet_callback /\ state' = state
        /\ packet_callback \in BOOLEAN
    BY DEF In, Done, fileVars, IInv, TypeOK
  <2>2. CASE ~packet_callback
    <3>1. Len(queue) = 1
      BY <1>1, <2>2 DEF IInv, Exchange
    <3>2. queue' = <<>>
      BY <1>2, <3>1, EmptySeq
    <3> QED BY <2>1, <2>2, <3>2 DEF Exchange
  <2>3. CASE packet_callback
    <3>1. state = 3 /\ Len(queue) = 2 /\ Answer(queue[2])
      BY <2>3 DEF IInv, Exchange, Out
    <3>2. Len(queue') = 1 /\ queue'[1] = queue[2]
      <4>1. Len(queue') = 1
        BY <1>2, <3>1
      <4>2. 1 \in 1..Len(queue') /\ 1 + 1 = 2
        BY <4>1
      <4>3. queue'[1] = queue[1 + 1]
        BY <1>2, <4>2
      <4> QED BY <4>1, <4>2, <4>3
    <3>3. Answer(queue'[1])
      BY <3>1, <3>2
    <3>4. Is(queue'[1], "CTS") \/ Is(queue'[1], "SKIP")
      BY <3>3 DEF Answer
    <3>5. state' = 3 /\ Len(queue') = 1 /\ packet_callback' /\ In' /\ ~Done'
      BY <2>1, <2>3, <3>1, <3>2
    <3> QED BY <3>4, <3>5 DEF Exchange, Answer
  <2> QED BY <2>1, <2>2, <2>3
<1>8. Transfer'
  BY TransferSame DEF IInv
<1>9. IInv'
  BY <1>4, <1>5, <1>6, <1>7, <1>8 DEF IInv
<1>10. UnderWay = NULL
  <2>1. ~(nsent < Size(Head(queue)))
    BY SizeRange DEF Done
  <2> QED BY <2>1, UnderWayIs DEF IInv
<1> QED BY <1>9, <1>10, PutOrSame

\* The calculator waits for the line to be free, and goes on.
LEMMA AfterStep ==
    ASSUME IInv, After
    PROVE  IInv' /\ Carries
<1>0. phase = "after" /\ Read /\ ~sending /\ queue # <<>>
  BY Phases DEF After, Poll
<1>1. Quiet /\ IsPacket(Head(queue)) /\ rx = <<>> /\ (nsent = Size(Head(queue)) => At = 0)
  BY <1>0, ReceivingWires, SizeRange DEF Receives
<1>2. Value = Wires
  BY <1>1, WireSets DEF Value, Quiet
<1>3. Len(Bits(Head(queue))) = Size(Head(queue))
  BY <1>1, BitsOf
<1>4. /\ phase' = "look" /\ UNCHANGED <<rx, stored, heard_calc, heard_emu, file>>
      /\ IF Done THEN queue' = Tail(queue) /\ nsent' = 0 ELSE UNCHANGED <<queue, nsent>>
  BY <1>0, <1>2, <1>3 DEF After, Poll, history, Done
<1>5. CASE start_send
  <2>1. Done /\ Len(queue) = 1 /\ queue \in Seq(Packets)
    BY <1>0, <1>5 DEF IInv, BitInv, CalcOK
  <2>2. Tail(queue) = <<>>
    <3>1. Tail(queue) \in Seq(Packets) /\ Len(Tail(queue)) = 0
      BY <1>0, <2>1, HeadTailProperties
    <3> QED BY <3>1, EmptySeq
  <2>3. /\ phase' = "look" /\ rx' = rx /\ queue' = <<>> /\ nsent' = 0
        /\ UNCHANGED <<stored, heard_calc, heard_emu, file>>
    BY <1>4, <2>1, <2>2
  <2>4. IInv' /\ LineSame
    BY <1>0, <1>1, <1>5, <2>3, StartStep
  <2> QED BY <2>4 DEF Carries
<1>6. CASE ~start_send
  <2>1. UNCHANGED portVars
    BY <1>0, <1>6, ReadNothing
  <2>2. CASE Done
    <3>1. At = 0
      BY <1>1, <2>2 DEF Done
    <3> QED BY <1>0, <1>1, <1>4, <1>6, <2>1, <2>2, <3>1, NextPacket
  <2>3. CASE ~Done
    BY <1>0, <1>4, <2>1, <2>3, PhaseStep DEF Carries
  <2> QED BY <2>2, <2>3
<1> QED BY <1>5, <1>6

\* A packet given up between two bytes is one of which the emulator has no bit.
LEMMA CancelStep ==
    ASSUME IInv, Cancel, ~CancelMidByte
    PROVE  IInv' /\ LineSame
<1>0. phase = "pull" /\ ~sending /\ ~start_send /\ queue # <<>>
  BY Phases DEF Cancel
<1>1. /\ IsPacket(Head(queue)) /\ nsent = At /\ At < Size(Head(queue)) /\ Quiet /\ rx = <<>>
      /\ At \in 0..(2 * Width - 1)
  BY <1>0, ReceivingWires DEF Receives
<1>2. packet_bit = 0
  <2>1. /\ packet_bit \in 0..(Width - 1) /\ At % Width = 0
        /\ (At = packet_bit \/ At = Width + packet_bit)
    BY <1>1, AtRange DEF IInv, Cancel
  <2> QED BY <2>1, WidthPos
<1>3. link_output' = {} /\ WriteReceiving
  BY <1>0 DEF Cancel, Write
<1>4. /\ packet_pos' = 0
      /\ UNCHANGED <<packet_buf, link_input, packet_size, packet_bit, sending, start_send,
                     fileVars, heard_emu>>
  BY <1>1, <1>3, WireSets DEF WriteReceiving, Quiet
<1>5. phase' = "cancel" /\ nsent' = 0 /\ UNCHANGED <<rx, queue, stored, heard_calc, file>>
  BY DEF Cancel
<1>6. At' = 0
  BY <1>2, <1>4 DEF At
<1>7. TypeOK'
  <2>1. link_output' \in SUBSET Wires
    BY <1>3
  <2> QED BY <1>4, <1>5, <2>1 DEF IInv, TypeOK, fileVars
<1>8. CalcOK'
  <2>1. nsent' \in 0..(2 * Width)
    BY <1>5, WidthPos
  <2> QED BY <1>5, <2>1 DEF IInv, CalcOK
<1>9. Receives(Head(queue))'
  BY <1>1, <1>3, <1>4, <1>5, <1>6 DEF Receives, Quiet
<1>10. BitInv'
  BY <1>0, <1>1, <1>4, <1>5, <1>9 DEF IInv, BitInv
<1>11. Exchange'
  BY <1>0, <1>4, <1>5 DEF IInv, Exchange, Out, In, Answer, Done, fileVars
<1>12. Transfer'
  BY <1>4, <1>5, TransferSame DEF IInv
<1>13. LineSame
  <2>1. Len(Bits(Head(queue))) = Size(Head(queue)) /\ Size(Head(queue)) >= 1 /\ Size(Head(queue)) \in Nat
    BY <1>1, BitsOf, SizeRange
  <2>2. nsent < Size(Head(queue)) /\ nsent' < Size(Head(queue))
    BY <1>1, <1>5, <2>1
  <2> QED BY <1>0, <1>4, <1>5, <2>1, <2>2 DEF LineSame, UnderWay
<1> QED BY <1>7, <1>8, <1>10, <1>11, <1>12, <1>13 DEF IInv

\* It lets go of both wires, and starts the packet again.
LEMMA CancelledStep ==
    ASSUME IInv, Cancelled
    PROVE  IInv' /\ LineSame
<1>0. phase = "cancel" /\ ~sending /\ ~start_send /\ queue # <<>>
  BY Phases DEF Cancelled
<1>1. IsPacket(Head(queue)) /\ nsent = 0 /\ At = 0 /\ link_input = Wires /\ rx = <<>>
  BY <1>0, ReceivingWires DEF Receives
<1>2. link_output' = Wires /\ WriteReceiving
  BY <1>0 DEF Cancelled, Write
<1>3. UNCHANGED <<packetVars, link_input, fileVars, heard_emu>>
  BY <1>1, <1>2, WireSets DEF WriteReceiving, packetVars
<1>4. phase' = "look" /\ UNCHANGED <<rx, queue, nsent, stored, heard_calc, file>>
  BY DEF Cancelled, history
<1> USE DEF packetVars
<1>5. At' = 0 /\ packet_pos' = 0 /\ packet_bit' = 0
  <2>1. packet_pos = 0 /\ packet_bit = 0
    BY <1>1, AtRange, WidthPos DEF IInv
  <2> QED BY <1>3, <2>1 DEF At
<1>6. TypeOK'
  <2>1. link_output' \in SUBSET Wires
    BY <1>2
  <2> QED BY <1>3, <1>4, <2>1 DEF IInv, TypeOK, fileVars
<1>7. CalcOK'
  BY <1>4 DEF IInv, CalcOK
<1>8. BitInv'
  <2>1. Quiet' /\ ~sending' /\ ~start_send' /\ rx' = <<>> /\ nsent' = 0
    BY <1>0, <1>1, <1>2, <1>3, <1>4 DEF Quiet
  <2> QED BY <1>4, <1>5, <2>1, BitInvLook
<1>9. Exchange'
  BY <1>0, <1>3, <1>4 DEF IInv, Exchange, Out, In, Answer, Done, fileVars
<1>10. Transfer'
  BY <1>3, <1>4, TransferSame DEF IInv
<1>11. LineSame
  BY <1>3, <1>4 DEF LineSame, UnderWay
<1> QED BY <1>6, <1>7, <1>8, <1>9, <1>10, <1>11 DEF IInv

\* When nothing is under way.
LEMMA Idle ==
    ASSUME IInv, phase = "look", queue = <<>>, ~sending
    PROVE  /\ rx = <<>> /\ Quiet /\ At = 0 /\ nsent = 0
           /\ packet_pos = 0 /\ packet_bit = 0
<1>1. rx = <<>> /\ Quiet /\ At = 0 /\ nsent = 0
  BY DEF IInv, BitInv, CalcOK
<1> QED BY <1>1, AtRange, WidthPos DEF IInv

LEMMA ResetStep ==
    ASSUME IInv, Reset, Resets # "any"
    PROVE  IInv' /\ LineSame
<1>1. phase = "look" /\ queue = <<>> /\ rx = <<>> /\ ~packet_callback
  BY DEF Reset
<1>2. In
  BY <1>1 DEF IInv, Exchange
<1>3. Quiet /\ nsent = 0 /\ packet_pos = 0 /\ packet_bit = 0 /\ ~sending /\ ~start_send
  BY <1>1, <1>2, Idle DEF In
<1>4. /\ sending' = FALSE /\ start_send' = FALSE /\ var_file' = NULL
      /\ link_input' = Wires /\ link_output' = Wires
      /\ phase' = "look" /\ rx' = <<>> /\ queue' = <<>> /\ nsent' = 0
      /\ UNCHANGED <<packet_buf, packet_size, packet_pos, packet_bit, packet_callback,
                     state, bytes_remaining, heard_calc, heard_emu, stored, file>>
  BY DEF Reset, history
<1>5. packet_callback \in BOOLEAN /\ packet_callback = FALSE
  BY <1>1 DEF IInv, TypeOK
<1>6. TypeOK'
  <2>1. packet_callback' = FALSE
    BY <1>4, <1>5
  <2> QED BY <1>4, <2>1 DEF IInv, TypeOK
<1>7. CalcOK'
  <2>1. nsent' \in 0..(2 * Width)
    BY <1>4, WidthPos
  <2> QED BY <1>4, <2>1 DEF CalcOK
<1>8. BitInv'
  <2>1. /\ ~sending' /\ Quiet' /\ packet_pos' = 0 /\ packet_bit' = 0
        /\ (start_send' => IsCommand(packet_buf') /\ queue' = <<>>)
    BY <1>3, <1>4 DEF Quiet
  <2> QED BY <1>4, <2>1, BitInvLook
<1>9. Exchange'
  BY <1>4, <1>5 DEF Exchange, In
<1>10. Transfer'
  BY <1>4, <1>5 DEF IInv, Transfer, Kept, Due
<1>11. LineSame
  BY <1>1, <1>3, <1>4 DEF LineSame, UnderWay
<1> QED BY <1>6, <1>7, <1>8, <1>9, <1>10, <1>11 DEF IInv

\* A file is sent only when nothing is under way.
LEMMA SendFileStep ==
    ASSUME IInv, Patient, NEW f \in Files, send_file(f)
    PROVE  IInv' /\ Carries
<1>0. /\ phase = "look" /\ queue = <<>> /\ rx = <<>>
      /\ ~sending /\ ~start_send /\ ~packet_callback
  BY DEF send_file
<1>1. Quiet /\ nsent = 0 /\ packet_pos = 0 /\ packet_bit = 0
  BY <1>0, Idle
<1>2. /\ state' = 1 /\ file' = f /\ stored' = <<>>
      /\ UNCHANGED <<packet_size, packet_pos, packet_bit, sending,
                     link_input, link_output, phase, rx, queue, nsent, heard_calc, heard_emu>>
  BY DEF send_file
<1>3. f.parts \in Seq(Bytes) /\ f.size \in Nat /\ Len(f.parts) \in Nat /\ f # NULL
  BY NotNull
<1>4. /\ start_send = FALSE /\ sending = FALSE /\ packet_buf \in [1..2 -> Bytes]
      /\ packet_size \in 0..2 /\ link_input = Wires /\ link_output = Wires
  BY <1>0, <1>1 DEF IInv, TypeOK, Quiet
<1>5. CalcOK'
  BY <1>2 DEF IInv, CalcOK
<1>6. stored' \in Seq(Bytes) /\ Len(stored') = 0 /\ Kept(Len(stored))'
  BY <1>2, <1>3 DEF Kept
<1>7. UnderWay = NULL
  BY <1>0 DEF UnderWay
<1>8. CASE f.parts = <<>>
  <2>1. /\ var_file' = NULL /\ packet_callback' = FALSE
        /\ bytes_remaining' = f.size /\ packet_buf' = packet_buf /\ start_send' = FALSE
    BY <1>4, <1>8 DEF send_file
  <2>2. TypeOK'
    <3>1. sending' \in BOOLEAN /\ start_send' \in BOOLEAN /\ packet_callback' \in BOOLEAN
      BY <1>2, <1>4, <2>1
    <3>2. state' \in 0..8 /\ bytes_remaining' \in Int /\ packet_buf' \in [1..2 -> Bytes]
      BY <1>2, <1>3, <1>4, <2>1
    <3>3. /\ packet_size' \in 0..2 /\ packet_pos' = 0 /\ packet_bit' = 0 /\ phase' = "look"
          /\ link_input' = Wires /\ link_output' = Wires
      BY <1>0, <1>1, <1>2, <1>4
    <3> QED BY <2>1, <3>1, <3>2, <3>3, TypeFrom
  <2>3. BitInv'
    <3>1. Quiet' /\ ~sending' /\ rx' = <<>> /\ phase' = "look" /\ packet_pos' = 0 /\ packet_bit' = 0
      BY <1>0, <1>1, <1>2 DEF Quiet
    <3>2. nsent' = 0 /\ (start_send' => IsCommand(packet_buf') /\ queue' = <<>>)
      BY <1>1, <1>2, <2>1
    <3> QED BY <3>1, <3>2, BitInvLook
  <2>4. Exchange'
    BY <1>0, <1>2, <2>1 DEF Exchange, In
  <2>5. Transfer'
    BY <1>2, <1>6, <2>1 DEF Transfer
  <2>6. IInv'
    BY <1>5, <2>2, <2>3, <2>4, <2>5 DEF IInv
  <2> QED BY <1>2, <1>7, <2>6, PutOrSame
<1>9. CASE f.parts # <<>>
  <2>1. /\ Send("RTS", Head(f.parts)) /\ var_file' = Tail(f.parts)
        /\ packet_callback' = TRUE /\ bytes_remaining' = f.size - 1
    BY <1>9 DEF send_file
  <2>2. /\ Head(f.parts) \in Bytes /\ Tail(f.parts) \in Seq(Bytes)
        /\ Len(Tail(f.parts)) = Len(f.parts) - 1 /\ Len(f.parts) >= 1
        /\ \A i \in 1..Len(Tail(f.parts)) : Tail(f.parts)[i] = f.parts[i + 1]
    BY <1>3, <1>9, HeadTailProperties, EmptySeq
  <2>3. PICK b \in Bytes : b = Head(f.parts)
    BY <2>2
  <2>4. packet_buf' = <<Code["RTS"], b>> /\ start_send' = TRUE
    BY <2>1, <2>3 DEF Send
  <2>5. packet_buf' \in [1..2 -> Bytes] /\ IsCommand(packet_buf') /\ Is(packet_buf', "RTS")
    BY <2>4, DataPacket DEF WithData, Is
  <2>6. var_file' \in Seq(Bytes) /\ var_file' # NULL
    BY <2>1, <2>2, NotNull
  <2>7. TypeOK'
    <3>1. sending' \in BOOLEAN /\ start_send' \in BOOLEAN /\ packet_callback' \in BOOLEAN
      BY <1>2, <1>4, <2>1, <2>4
    <3>2. state' \in 0..8 /\ bytes_remaining' \in Int
      BY <1>2, <1>3, <2>1
    <3>3. /\ packet_size' \in 0..2 /\ packet_pos' = 0 /\ packet_bit' = 0 /\ phase' = "look"
          /\ link_input' = Wires /\ link_output' = Wires
      BY <1>0, <1>1, <1>2, <1>4
    <3> QED BY <2>5, <2>6, <3>1, <3>2, <3>3, TypeFrom
  <2>8. BitInv'
    <3>1. Quiet' /\ ~sending' /\ rx' = <<>> /\ phase' = "look" /\ packet_pos' = 0 /\ packet_bit' = 0
      BY <1>0, <1>1, <1>2 DEF Quiet
    <3>2. nsent' = 0 /\ queue' = <<>>
      BY <1>0, <1>1, <1>2
    <3> QED BY <2>5, <3>1, <3>2, BitInvLook
  <2>9. Exchange'
    BY <1>2, <2>1, <2>4, <2>5 DEF Exchange, Out
  <2>10. Transfer'
    <3>1. Left(1)'
      <4>1. ASSUME NEW i \in 1..Len(var_file') PROVE var_file'[i] = file'.parts[1 + i]
        BY <1>2, <2>1, <2>2
      <4> QED BY <1>2, <1>3, <2>1, <2>2, <4>1 DEF Left
    <3>2. Progress(0, 1)'
      BY <1>2 DEF Progress, Due
    <3>3. 1 = file'.size - bytes_remaining'
      BY <1>2, <1>3, <2>1
    <3>4. file' \in Files /\ packet_callback' /\ 0 = Len(stored')
      BY <1>2, <1>6, <2>1
    <3> QED BY <1>6, <3>1, <3>2, <3>3, <3>4, TransferFrom
  <2>11. IInv'
    BY <1>5, <2>7, <2>8, <2>9, <2>10 DEF IInv
  <2> QED BY <1>2, <1>7, <2>11, PutOrSame
<1> QED BY <1>8, <1>9

\* A step that changes nothing.
LEMMA Stuttering ==
    ASSUME IInv, UNCHANGED vars
    PROVE  IInv' /\ LineSame
<1> USE DEF vars, portVars, packetVars, fileVars, calcVars, history
<1>1. TypeOK'
  BY DEF IInv, TypeOK
<1>2. CalcOK'
  BY DEF IInv, CalcOK
<1>3. At' = At
  BY DEF At
<1>4. Sends => Sends'
  BY <1>3 DEF Sends, Agrees
<1>5. Receives(Head(queue)) => Receives(Head(queue))'
  BY <1>3 DEF Receives, Received, Quiet
<1>6. BitInv'
  BY <1>3, <1>4, <1>5 DEF IInv, BitInv, Quiet, Done
<1>7. Exchange'
  BY DEF IInv, Exchange, Out, In, Answer, Done
<1>8. Transfer'
  BY TransferSame DEF IInv
<1>9. LineSame
  BY DEF LineSame, UnderWay
<1> QED BY <1>1, <1>2, <1>6, <1>7, <1>8, <1>9 DEF IInv

\* Init is an initial state of HalfDuplex, and the invariant holds in it.
LEMMA InitInv == Init => IInv /\ Line!Init
<1> SUFFICES ASSUME Init PROVE IInv /\ Line!Init
  OBVIOUS
<1> USE DEF Init
<1>1. [b \in 1..Width |-> 0] \in Bytes
  BY DEF Bytes
<1>2. packet_buf \in [1..2 -> Bytes]
  <2>1. PICK z \in Bytes : z = [b \in 1..Width |-> 0]
    BY <1>1
  <2>2. packet_buf = <<z, z>>
    BY <2>1
  <2>3. <<z, z>> \in [1..2 -> Bytes]
    OBVIOUS
  <2> QED BY <2>2, <2>3
<1>3. TypeOK
  <2>1. packet_bit \in 0..(Width - 1) /\ packet_pos \in 0..1 /\ packet_size \in 0..2
    BY WidthPos
  <2>2. sending \in BOOLEAN /\ start_send \in BOOLEAN /\ packet_callback \in BOOLEAN
    OBVIOUS
  <2>3. state \in 0..8 /\ bytes_remaining \in Int
    OBVIOUS
  <2> QED BY <1>2, <2>1, <2>2, <2>3 DEF TypeOK
<1>4. CalcOK
  BY WidthPos DEF CalcOK
<1>5. BitInv
  BY DEF BitInv, Quiet, At
<1>6. Exchange
  BY DEF Exchange, In
<1>7. Transfer
  BY DEF Transfer
<1>8. Line!Init
  BY DEF Line!Init, UnderWay
<1> QED BY <1>3, <1>4, <1>5, <1>6, <1>7, <1>8 DEF IInv

\* Every step keeps the invariant and is one of HalfDuplex, or none of it.
LEMMA StepInv ==
    ASSUME Orderly, IInv, [Next]_vars
    PROVE  IInv' /\ Carries
<1>1. CASE Look
  BY <1>1, LookStep DEF Carries
<1>2. CASE Hold
  BY <1>2, HoldStep DEF Carries
<1>3. CASE Wait
  BY <1>3, WaitStep DEF Carries
<1>4. CASE After
  BY <1>4, AfterStep
<1>5. CASE Acknowledge
  BY <1>5, AcknowledgeStep DEF Carries
<1>6. CASE LetGo
  BY <1>6, LetGoStep
<1>7. CASE Pull
  BY <1>7, PullStep DEF Carries
<1>8. CASE Free
  BY <1>8, FreeStep
<1>9. CASE Cancel
  BY <1>9, CancelStep DEF Carries, Orderly
<1>10. CASE Cancelled
  BY <1>10, CancelledStep DEF Carries
<1>11. CASE Reset
  BY <1>11, ResetStep DEF Carries, Orderly
<1>12. ASSUME NEW f \in Files, send_file(f) PROVE IInv' /\ Carries
  BY <1>12, SendFileStep DEF Orderly
<1>13. CASE UNCHANGED vars
  BY <1>13, Stuttering DEF Carries
<1> QED BY <1>1, <1>2, <1>3, <1>4, <1>5, <1>6, <1>7, <1>8, <1>9, <1>10, <1>11, <1>12, <1>13
        DEF Next, Calculator

-----------------------------------------------------------------------------
(***************************************************************************)
(* Types, also when a file is sent or a packet cancelled at any time.  The *)
(* size of a packet stays what it was if the command is unknown: it must   *)
(* not be the 0 of the start then.  Until it is set, only the emulator     *)
(* has sent.                                                               *)
(***************************************************************************)

SizeSet == packet_pos = 1 => packet_size = 2

Fresh ==
    packet_size = 0 =>
      /\ packet_pos = 0
      /\ sending \/ start_send => IsCommand(packet_buf)
      /\ ~sending => queue = <<>> /\ phase = "look" /\ Quiet
      /\ sending => /\ phase \in {"look", "got", "hold", "letgo"} /\ link_input # {}
                    /\ phase = "look" => link_input # Wires

TInv == TypeOK /\ SizeSet /\ Fresh

\* What the callback may change, typed; and what next_bit() and the writes may.
FileOK == /\ packet_buf' \in [1..2 -> Bytes] /\ start_send' \in BOOLEAN
          /\ packet_callback' \in BOOLEAN /\ state' \in 0..8 /\ FileType

PortOK == /\ FileOK /\ sending' \in BOOLEAN /\ SizeSet'
          /\ packet_pos' \in 0..1 /\ packet_bit' \in 0..(Width - 1) /\ packet_size' \in 0..2

\* While the size is not set nothing but the position within a byte changes.
StillFresh == packet_size' = 0 => /\ packet_size = 0 /\ packet_pos' = 0
                                  /\ UNCHANGED <<packet_buf, sending, start_send>>

\* The callback.
LEMMA FileSame ==
    ASSUME TypeOK, UNCHANGED <<packet_buf, start_send, fileVars>>
    PROVE  FileOK
BY DEF TypeOK, FileOK, FileType, fileVars

LEMMA SendType ==
    ASSUME NEW c \in WithData \cup NoData, NEW b \in Bytes, Send(c, b)
    PROVE  /\ packet_buf' \in [1..2 -> Bytes] /\ start_send' \in BOOLEAN
           /\ start_send' /\ IsCommand(packet_buf')
<1>1. packet_buf' = <<Code[c], b>> /\ start_send' = TRUE
  BY DEF Send
<1>2. PICK d \in Bytes : d = Code[c]
  BY CodeBytes
<1>3. packet_buf' = <<d, b>> /\ packet_buf'[1] = Code[c]
  BY <1>1, <1>2
<1>4. packet_buf' \in [1..2 -> Bytes]
  BY <1>3
<1>5. IsCommand(packet_buf')
  BY <1>3, Codes DEF IsCommand
<1> QED BY <1>1, <1>4, <1>5

LEMMA CleanupType ==
    ASSUME TypeOK, Cleanup, state' \in 0..8
    PROVE  FileOK
BY DEF TypeOK, Cleanup, FileOK, FileType

LEMMA SendPartType ==
    ASSUME TypeOK, packet_callback, NEW c \in WithData, SendPart(c), state' \in 0..8
    PROVE  FileOK
<1>1. CASE var_file = <<>>
  BY <1>1, CleanupType DEF SendPart
<1>2. CASE var_file # <<>>
  <2>1. /\ Send(c, Head(var_file)) /\ var_file' = Tail(var_file)
        /\ bytes_remaining' = bytes_remaining - 1 /\ packet_callback' = packet_callback
    BY <1>2 DEF SendPart
  <2>2. var_file \in Seq(Bytes) /\ bytes_remaining \in Int /\ packet_callback \in BOOLEAN
    BY DEF TypeOK
  <2>3. Head(var_file) \in Bytes /\ Tail(var_file) \in Seq(Bytes)
    BY <1>2, <2>2, HeadTailProperties
  <2>4. packet_buf' \in [1..2 -> Bytes] /\ start_send' \in BOOLEAN
    BY <2>1, <2>3, SendType
  <2>5. var_file' \in Seq(Bytes) /\ var_file' # NULL /\ bytes_remaining' \in Int
    BY <2>1, <2>2, <2>3, NotNull
  <2>6. packet_callback' \in BOOLEAN
    BY <2>1, <2>2
  <2> QED BY <2>4, <2>5, <2>6 DEF FileOK, FileType
<1> QED BY <1>1, <1>2

LEMMA SendPlainType ==
    ASSUME TypeOK, NEW c \in NoData, SendPlain(c), state' \in 0..8
    PROVE  FileOK
<1>1. PICK b \in Bytes : b = packet_buf[2]
  BY DEF TypeOK
<1>2. Send(c, b)
  BY <1>1 DEF SendPlain
<1>3. packet_buf' \in [1..2 -> Bytes] /\ start_send' \in BOOLEAN
  BY <1>2, SendType
<1>4. UNCHANGED <<var_file, bytes_remaining, packet_callback>>
  BY DEF SendPlain
<1> QED BY <1>3, <1>4 DEF TypeOK, FileOK, FileType

LEMMA SameType ==
    ASSUME TypeOK, Same, state' \in 0..8
    PROVE  FileOK
BY DEF TypeOK, Same, FileOK, FileType

LEMMA CallbackType ==
    ASSUME TypeOK, packet_callback, send_variable_callback
    PROVE  FileOK
<1>0. "RTS" \in WithData /\ "DATA" \in WithData /\ "ACK" \in NoData /\ "EOT" \in NoData
  BY DEF WithData, NoData
<1>1. CASE state = 0 /\ SendPart("RTS") /\ state' = 1
  <2>1. state' \in 0..8
    BY <1>1
  <2> QED BY <1>0, <1>1, <2>1, SendPartType
<1>2. CASE state \in {1, 5} /\ Same /\ state' = state + 1
  <2>1. state' \in 0..8
    BY <1>2
  <2> QED BY <1>2, <2>1, SameType
<1>3. CASE state = 2 /\ state' = 3 /\ (IF Is(packet_buf, "ACK") THEN Same ELSE Cleanup)
  <2>1. state' \in 0..8
    BY <1>3
  <2> QED BY <1>3, <2>1, SameType, CleanupType
<1>4. CASE state = 3 /\ state' = 4 /\ (IF Is(packet_buf, "CTS") THEN SendPlain("ACK") ELSE Cleanup)
  <2>1. state' \in 0..8
    BY <1>4
  <2> QED BY <1>0, <1>4, <2>1, SendPlainType, CleanupType
<1>5. CASE state = 4 /\ SendPart("DATA") /\ state' = 5
  <2>1. state' \in 0..8
    BY <1>5
  <2> QED BY <1>0, <1>5, <2>1, SendPartType
<1>6. CASE state = 6 /\ (IF Is(packet_buf, "ACK")
                         THEN SendPlain("EOT") /\ state' = IF bytes_remaining > 0 THEN 0 ELSE 7
                         ELSE Cleanup /\ state' = 7)
  <2>1. state' \in 0..8 /\ (SendPlain("EOT") \/ Cleanup)
    BY <1>6
  <2> QED BY <1>0, <2>1, SendPlainType, CleanupType
<1>7. CASE state = 7 /\ Cleanup /\ state' = 8
  <2>1. state' \in 0..8
    BY <1>7
  <2> QED BY <1>7, <2>1, CleanupType
<1> QED BY <1>1, <1>2, <1>3, <1>4, <1>5, <1>6, <1>7 DEF send_variable_callback

\* next_bit(), with a size that is set or about to be.
LEMMA NextBitType ==
    ASSUME TypeOK, SizeSet, next_bit, packet_size = 0 => packet_pos = 0 /\ IsCommand(packet_buf)
    PROVE  PortOK /\ StillFresh
<1> USE WidthPos
<1>0. /\ packet_bit \in 0..(Width - 1) /\ packet_pos \in 0..1 /\ packet_size \in 0..2
      /\ sending \in BOOLEAN /\ packet_callback \in BOOLEAN
  BY DEF TypeOK
<1>1. CASE packet_bit # Width - 1
  <2>1. (packet_bit + 1) % Width = packet_bit + 1 /\ packet_bit + 1 # 0
    BY <1>0, <1>1
  <2>2. /\ packet_bit' = packet_bit + 1 /\ packet_pos' = packet_pos
        /\ packet_size' = packet_size
        /\ UNCHANGED <<packet_buf, sending, start_send, fileVars>>
    BY <1>0, <2>1 DEF next_bit
  <2>3. FileOK
    BY <2>2, FileSame
  <2>4. packet_bit' \in 0..(Width - 1) /\ sending' \in BOOLEAN
    BY <1>0, <1>1, <2>2
  <2> QED BY <1>0, <2>2, <2>3, <2>4 DEF PortOK, StillFresh, SizeSet
<1>2. CASE packet_bit = Width - 1
  <2>1. (packet_bit + 1) % Width = 0
    BY <1>0, <1>2
  <2>2. /\ packet_bit' = 0
        /\ packet_size' = IF packet_pos + 1 = 1
                          THEN CASE IsPlain(packet_buf[1]) -> 1
                                 [] HasData(packet_buf[1]) -> 2
                                 [] OTHER -> packet_size
                          ELSE packet_size
    BY <2>1 DEF next_bit
  <2>3. packet_size' \in {1, 2}
    <3>1. CASE packet_pos = 1
      BY <2>2, <3>1 DEF SizeSet
    <3>2. CASE packet_pos = 0 /\ packet_size = 0
      BY <2>2, <3>2 DEF IsCommand
    <3>3. CASE packet_pos = 0 /\ packet_size # 0
      <4>1. CASE IsPlain(packet_buf[1])
        BY <2>2, <3>3, <4>1, Codes
      <4>2. CASE HasData(packet_buf[1])
        BY <2>2, <3>3, <4>2, Codes
      <4>3. CASE ~IsPlain(packet_buf[1]) /\ ~HasData(packet_buf[1])
        BY <1>0, <2>2, <3>3, <4>3
      <4> QED BY <4>1, <4>2, <4>3
    <3> QED BY <1>0, <3>1, <3>2, <3>3
  <2>4. packet_pos = 1 => packet_size' = 2
    BY <2>2 DEF SizeSet
  <2>5. CASE packet_pos + 1 = packet_size'
    <3>1. /\ sending' = FALSE /\ packet_pos' = 0
          /\ IF packet_callback THEN send_variable_callback
                                ELSE UNCHANGED <<packet_buf, start_send, fileVars>>
      BY <2>1, <2>5 DEF next_bit
    <3>2. FileOK
      BY <3>1, CallbackType, FileSame
    <3>3. packet_size' # 0 /\ packet_size' \in 0..2
      BY <2>3
    <3>4. sending' \in BOOLEAN
      BY <3>1
    <3> QED BY <2>2, <3>1, <3>2, <3>3, <3>4 DEF PortOK, StillFresh, SizeSet
  <2>6. CASE packet_pos + 1 # packet_size'
    <3>1. /\ packet_pos' = packet_pos + 1
          /\ UNCHANGED <<packet_buf, sending, start_send, fileVars>>
      BY <2>1, <2>6 DEF next_bit
    <3>2. packet_pos = 0 /\ packet_size' = 2
      BY <1>0, <2>3, <2>4, <2>6
    <3>3. FileOK
      BY <3>1, FileSame
    <3>4. packet_pos' = 1 /\ sending' \in BOOLEAN
      BY <1>0, <3>1, <3>2
    <3> QED BY <2>2, <3>2, <3>3, <3>4 DEF PortOK, StillFresh, SizeSet
  <2> QED BY <2>5, <2>6
<1> QED BY <1>1, <1>2

Phase == {"look", "got", "hold", "letgo", "pull", "wait", "free", "after", "cancel"}

\* TypeOK from its parts.
LEMMA TypeFromPort ==
    ASSUME PortOK, link_input' \in SUBSET Wires, link_output' \in SUBSET Wires, phase' \in Phase
    PROVE  TypeOK'
BY DEF PortOK, FileOK, FileType, Phase, TypeOK

LEMMA PortSame ==
    ASSUME TInv, UNCHANGED <<packetVars, fileVars>>
    PROVE  PortOK /\ StillFresh
<1>1. FileOK
  BY FileSame DEF TInv, packetVars
<1>2. packet_size = 0 => packet_pos = 0
  BY DEF TInv, Fresh
<1> QED BY <1>1, <1>2 DEF TInv, TypeOK, PortOK, StillFresh, SizeSet, packetVars

LEMMA Singles ==
    /\ \A x : Up(x) \in {{1}, {2}} /\ Up(x) \in SUBSET Wires /\ Up(x) # Wires /\ Up(x) # {}
    /\ \A x : Other(Up(x)) \in SUBSET Wires /\ Other(Up(x)) # Wires
    /\ \A up : Bit(up) \in {0, 1}
    /\ \A up \in SUBSET Wires : Wires \cap up = up /\ up \cap Wires = up
<1>1. \A x : Up(x) \in {{1}, {2}}
  BY DEF Up
<1>2. {1} \in SUBSET Wires /\ {2} \in SUBSET Wires
  BY DEF Wires
<1>3. \A ws : Other(ws) \in SUBSET Wires
  BY DEF Other
<1>4. Other({1}) # Wires /\ Other({2}) # Wires
  BY DEF Other, Wires
<1>5. \A up : Bit(up) \in {0, 1}
  BY DEF Bit
<1>6. \A up \in SUBSET Wires : Wires \cap up = up /\ up \cap Wires = up
  OBVIOUS
<1>7. \A x : Other(Up(x)) # Wires
  BY <1>1, <1>4
<1> QED BY <1>1, <1>2, <1>3, <1>5, <1>6, <1>7, WireSets

\* A write of the port.  While the size is not set it leaves the emulator's wire
\* down between two bits.
LEMMA WriteType ==
    ASSUME TInv, NEW up \in SUBSET Wires, Write(up), packet_size = 0 => sending
    PROVE  /\ PortOK /\ StillFresh
           /\ link_input' \in SUBSET Wires /\ link_output' \in SUBSET Wires
           /\ packet_size' = 0 => link_input' # {} /\ (up = Wires => link_input' # Wires)
<1>0. /\ TypeOK /\ SizeSet /\ link_input \in SUBSET Wires /\ link_output' = up
      /\ sending \in BOOLEAN
      /\ packet_size = 0 => packet_pos = 0 /\ IsCommand(packet_buf) /\ link_input # {}
  BY DEF TInv, Fresh, TypeOK, Write
<1>1. CASE sending
  <2>0. WriteSending
    BY <1>1 DEF Write
  <2>1. CASE link_input # Wires
    <3>1. /\ link_input' = IF link_input \cap up = {} THEN Wires ELSE link_input
          /\ UNCHANGED <<packetVars, fileVars>>
      BY <1>0, <2>0, <2>1 DEF WriteSending
    <3>2. PortOK /\ StillFresh
      BY <3>1, PortSame
    <3>3. link_input' \in SUBSET Wires
      BY <1>0, <3>1
    <3>4. packet_size' = 0 => link_input' # {}
      BY <1>0, <3>1, <3>2, WireSets DEF StillFresh
    <3>5. packet_size' = 0 /\ up = Wires => link_input' # Wires
      BY <1>0, <2>1, <3>1, <3>2, Singles DEF StillFresh
    <3> QED BY <1>0, <3>2, <3>3, <3>4, <3>5
  <2>2. CASE link_input = Wires /\ up = Wires
    <3>1. /\ next_bit
          /\ link_input' = IF sending' THEN Up(packet_buf[packet_pos' + 1][packet_bit' + 1])
                                       ELSE Wires
      BY <1>0, <2>0, <2>2 DEF WriteSending
    <3>2. PortOK /\ StillFresh
      BY <1>0, <3>1, NextBitType
    <3>3. sending' => link_input' \in SUBSET Wires /\ link_input' # Wires /\ link_input' # {}
      BY <3>1, Singles
    <3>4. link_input' \in SUBSET Wires
      BY <3>1, <3>3
    <3>5. packet_size' = 0 => sending'
      BY <1>1, <3>2 DEF StillFresh
    <3> QED BY <1>0, <3>2, <3>3, <3>4, <3>5
  <2>3. CASE link_input = Wires /\ up # Wires
    <3>1. link_input' = link_input /\ UNCHANGED <<packetVars, fileVars>>
      BY <1>0, <2>0, <2>3 DEF WriteSending
    <3>2. PortOK /\ StillFresh
      BY <3>1, PortSame
    <3> QED BY <1>0, <2>3, <3>1, <3>2, WireSets
  <2> QED BY <2>1, <2>2, <2>3
<1>2. CASE ~sending
  <2>0. WriteReceiving /\ packet_size # 0
    BY <1>2 DEF Write
  <2>1. CASE link_input = Wires
    <3>1. /\ packet_pos' = IF up = {} THEN 0 ELSE packet_pos
          /\ IF up \in {{1}, {2}} THEN link_input' = Other(up) /\ packet_buf' = Shift(Bit(up))
                                   ELSE UNCHANGED <<link_input, packet_buf>>
          /\ UNCHANGED <<packet_size, packet_bit, sending, start_send, fileVars>>
      BY <1>0, <2>0, <2>1 DEF WriteReceiving
    <3>2. packet_buf' \in [1..2 -> Bytes]
      <4>1. PICK x \in {0, 1} : x = Bit(up)
        BY Singles
      <4>2. packet_pos + 1 \in 1..2 /\ packet_buf \in [1..2 -> Bytes]
        BY <1>0 DEF TypeOK
      <4>3. ShiftsIn(x, packet_pos + 1, packet_buf, Shift(x))
        BY <4>2, ShiftBuffer DEF Shift
      <4>4. Shift(x) \in [1..2 -> Bytes]
        BY <4>3 DEF ShiftsIn
      <4> QED BY <3>1, <4>1, <4>2, <4>4
    <3>3. FileOK
      BY <1>0, <3>1, <3>2 DEF FileOK, FileType, TypeOK, fileVars
    <3>4. PortOK
      <4>1. packet_pos' \in 0..1 /\ (packet_pos' = 1 => packet_pos = 1)
        BY <1>0, <3>1 DEF TypeOK
      <4> QED BY <1>0, <3>1, <3>3, <4>1 DEF PortOK, SizeSet, TypeOK
    <3>5. link_input' \in SUBSET Wires
      BY <1>0, <3>1 DEF Other
    <3> QED BY <1>0, <2>0, <3>1, <3>4, <3>5 DEF StillFresh
  <2>2. CASE link_input # Wires /\ link_input \cap up # {}
    <3>1. link_input' = Wires /\ next_bit
      BY <1>0, <2>0, <2>2 DEF WriteReceiving
    <3>2. PortOK /\ StillFresh
      BY <1>0, <2>0, <3>1, NextBitType
    <3> QED BY <1>0, <2>0, <3>1, <3>2 DEF StillFresh
  <2>3. CASE link_input # Wires /\ link_input \cap up = {}
    <3>1. link_input' = link_input /\ UNCHANGED <<packetVars, fileVars>>
      BY <1>0, <2>0, <2>3 DEF WriteReceiving
    <3>2. PortOK /\ StillFresh
      BY <3>1, PortSame
    <3> QED BY <1>0, <2>0, <3>1, <3>2 DEF StillFresh
  <2> QED BY <2>1, <2>2, <2>3
<1> QED BY <1>1, <1>2

\* A read of the port.
LEMMA ReadType ==
    ASSUME TInv, Read
    PROVE  /\ PortOK /\ link_input' \in SUBSET Wires /\ link_output' \in SUBSET Wires
           /\ packet_size' = packet_size /\ packet_buf' = packet_buf
           /\ packet_size = 0 => packet_pos' = 0
           /\ start_send => /\ sending' = TRUE /\ start_send' = FALSE
                            /\ link_input' # Wires /\ link_input' # {}
           /\ ~start_send => UNCHANGED <<sending, start_send, link_input, link_output>>
<1> USE WidthPos
<1>0. TypeOK /\ SizeSet /\ Fresh
  BY DEF TInv
<1>1. CASE start_send
  <2>1. /\ sending' = TRUE /\ packet_pos' = 0 /\ packet_bit' = 0
        /\ link_input' = Up(packet_buf[1][1]) /\ start_send' = FALSE
        /\ UNCHANGED <<packet_buf, packet_size, fileVars, link_output>>
    BY <1>1 DEF Read
  <2>2. start_send' \in BOOLEAN /\ sending' \in BOOLEAN
    BY <2>1
  <2>3. FileOK
    BY <1>0, <2>1, <2>2 DEF FileOK, FileType, TypeOK, fileVars
  <2>4. packet_pos' \in 0..1 /\ packet_bit' \in 0..(Width - 1) /\ packet_size' \in 0..2
    BY <1>0, <2>1 DEF TypeOK
  <2>5. PortOK
    BY <2>1, <2>2, <2>3, <2>4 DEF PortOK, SizeSet
  <2>6. link_input' \in SUBSET Wires /\ link_input' # Wires /\ link_input' # {}
    BY <2>1, Singles
  <2>7. link_output' \in SUBSET Wires
    BY <1>0, <2>1 DEF TypeOK
  <2> QED BY <1>1, <2>1, <2>5, <2>6, <2>7
<1>2. CASE ~start_send
  <2>1. UNCHANGED portVars
    BY <1>2, ReadNothing
  <2>2. PortOK
    BY <2>1, PortSame DEF portVars
  <2> QED BY <1>0, <1>2, <2>1, <2>2 DEF portVars, packetVars, TypeOK, Fresh
<1> QED BY <1>1, <1>2

-----------------------------------------------------------------------------
\* A read, in whatever phase, and the ones that are made.
LEMMA TypePoll ==
    ASSUME TInv, Read, phase' \in Phase,
           packet_size = 0 =>
             /\ UNCHANGED queue
             /\ ~sending /\ ~start_send => phase' = "look"
             /\ ~sending /\ start_send => phase' = "look"
             /\ sending => /\ phase' \in {"look", "got", "hold", "letgo"}
                           /\ phase' = "look" => phase = "look"
    PROVE  TInv'
<1>1. /\ TypeOK /\ Fresh
      /\ PortOK /\ link_input' \in SUBSET Wires /\ link_output' \in SUBSET Wires
  BY ReadType DEF TInv
<1>2. TypeOK'
  BY <1>1, TypeFromPort
<1>3. Fresh'
  <2> SUFFICES ASSUME packet_size' = 0
               PROVE  /\ packet_pos' = 0
                      /\ sending' \/ start_send' => IsCommand(packet_buf')
                      /\ ~sending' => queue' = <<>> /\ phase' = "look" /\ Quiet'
                      /\ sending' => /\ phase' \in {"look", "got", "hold", "letgo"}
                                     /\ link_input' # {}
                                     /\ phase' = "look" => link_input' # Wires
    BY DEF Fresh
  <2>1. packet_size = 0 /\ packet_pos' = 0 /\ packet_buf' = packet_buf
    BY ReadType
  <2>2. CASE start_send
    <3>1. sending' = TRUE /\ start_send' = FALSE /\ link_input' # Wires /\ link_input' # {}
      BY <2>2, ReadType
    <3>2. IsCommand(packet_buf)
      BY <1>1, <2>1, <2>2 DEF Fresh
    <3>3. phase' \in {"look", "got", "hold", "letgo"}
      BY <2>1, <2>2
    <3> QED BY <2>1, <3>1, <3>2, <3>3
  <2>3. CASE ~start_send
    <3>1. UNCHANGED <<sending, start_send, link_input, link_output>>
      BY <2>3, ReadType
    <3>2. sending => IsCommand(packet_buf) /\ link_input # {} /\ (phase = "look" => link_input # Wires)
      BY <1>1, <2>1 DEF Fresh
    <3>3. ~sending => queue = <<>> /\ Quiet
      BY <1>1, <2>1 DEF Fresh
    <3>4. CASE sending
      BY <2>1, <2>3, <3>1, <3>2, <3>4
    <3>5. CASE ~sending
      BY <2>1, <2>3, <3>1, <3>3, <3>5 DEF Quiet
    <3> QED BY <3>4, <3>5
  <2> QED BY <2>2, <2>3
<1> QED BY <1>1, <1>2, <1>3 DEF TInv, PortOK

LEMMA TypeReads ==
    ASSUME TInv, Look \/ Hold \/ Wait \/ After
    PROVE  TInv'
<1>1. Read /\ phase' \in Phase
  BY DEF Look, Hold, Wait, After, Poll, Phase
<1>2. ASSUME packet_size = 0
      PROVE  /\ ~sending => queue = <<>> /\ phase = "look" /\ Quiet
             /\ sending => phase \in {"look", "got", "hold", "letgo"}
             /\ sending /\ phase = "look" => link_input # Wires
  BY <1>2 DEF TInv, Fresh
<1>3. ASSUME packet_size = 0, ~sending PROVE phase' = "look" /\ UNCHANGED queue
  <2>1. phase = "look" /\ queue = <<>> /\ Value = Wires
    BY <1>2, <1>3, WireSets DEF Value, Quiet
  <2> QED BY <2>1, WireSets DEF Look, Hold, Wait, After, Poll
<1>4. ASSUME packet_size = 0, sending
      PROVE  /\ UNCHANGED queue /\ phase' \in {"look", "got", "hold", "letgo"}
             /\ phase' = "look" => phase = "look"
  <2>1. CASE Hold
    BY <2>1 DEF Hold, Poll
  <2>2. CASE Look
    <3>1. phase = "look" /\ link_input # Wires
      BY <1>2, <1>4, <2>2 DEF Look, Poll
    <3>2. Value # Wires
      BY <3>1 DEF Value, TInv, TypeOK
    <3> QED BY <2>2, <3>1, <3>2 DEF Look, Poll
  <2>3. ~Wait /\ ~After
    BY <1>2, <1>4 DEF Wait, After, Poll
  <2> QED BY <2>1, <2>2, <2>3
<1> QED BY <1>1, <1>3, <1>4, TypePoll

\* A write, in whatever phase, and the ones that are made.
LEMMA TypeWrite ==
    ASSUME TInv, NEW up \in SUBSET Wires, Write(up), phase' \in Phase,
           packet_size = 0 => /\ sending
                              /\ phase' \in {"look", "hold"}
                              /\ phase' = "look" => up = Wires
    PROVE  TInv'
<1>1. /\ PortOK /\ StillFresh
      /\ link_input' \in SUBSET Wires /\ link_output' \in SUBSET Wires
      /\ packet_size' = 0 => link_input' # {} /\ (up = Wires => link_input' # Wires)
  BY WriteType
<1>2. TypeOK'
  BY <1>1, TypeFromPort
<1>3. packet_size = 0 /\ sending => IsCommand(packet_buf)
  BY DEF TInv, Fresh
<1>4. Fresh'
  <2> SUFFICES ASSUME packet_size' = 0
               PROVE  /\ packet_pos' = 0
                      /\ sending' \/ start_send' => IsCommand(packet_buf')
                      /\ ~sending' => queue' = <<>> /\ phase' = "look" /\ Quiet'
                      /\ sending' => /\ phase' \in {"look", "got", "hold", "letgo"}
                                     /\ link_input' # {}
                                     /\ phase' = "look" => link_input' # Wires
    BY DEF Fresh
  <2>1. packet_size = 0 /\ packet_pos' = 0 /\ UNCHANGED <<packet_buf, sending, start_send>>
    BY <1>1 DEF StillFresh
  <2>2. sending /\ sending'
    BY <2>1
  <2> QED BY <1>1, <1>3, <2>1, <2>2
<1> QED BY <1>1, <1>2, <1>4 DEF TInv, PortOK

LEMMA TypeWrites ==
    ASSUME TInv, Acknowledge \/ LetGo \/ Pull \/ Free \/ Cancel \/ Cancelled
    PROVE  TInv'
<1>1. packet_size = 0 => \/ ~sending /\ phase = "look"
                         \/ sending /\ phase \in {"look", "got", "hold", "letgo"}
  BY DEF TInv, Fresh
<1>2. CASE Acknowledge
  <2>1. /\ phase = "got" /\ Write(Other(Up(Last(rx)))) /\ phase' = "hold"
        /\ Other(Up(Last(rx))) \in SUBSET Wires
    BY <1>2, Singles DEF Acknowledge
  <2>2. packet_size = 0 => sending
    BY <1>1, <2>1
  <2> QED BY <2>1, <2>2, TypeWrite DEF Phase
<1>3. CASE LetGo
  <2>1. phase = "letgo" /\ Write(Wires) /\ phase' = "look" /\ Wires \in SUBSET Wires
    BY <1>3 DEF LetGo
  <2>2. packet_size = 0 => sending
    BY <1>1, <2>1
  <2> QED BY <2>1, <2>2, TypeWrite DEF Phase
<1>4. CASE Pull
  <2>1. PICK up \in SUBSET Wires : Write(up)
    BY <1>4, Singles DEF Pull
  <2>2. phase' \in Phase /\ packet_size # 0
    BY <1>1, <1>4 DEF Pull, Phase
  <2> QED BY <2>1, <2>2, TypeWrite
<1>5. CASE Free \/ Cancelled
  <2>1. Write(Wires) /\ Wires \in SUBSET Wires /\ phase' \in Phase /\ packet_size # 0
    BY <1>1, <1>5 DEF Free, Cancelled, Phase
  <2> QED BY <2>1, TypeWrite
<1>6. CASE Cancel
  <2>1. Write({}) /\ {} \in SUBSET Wires /\ phase' \in Phase /\ packet_size # 0
    BY <1>1, <1>6 DEF Cancel, Phase
  <2> QED BY <2>1, TypeWrite
<1> QED BY <1>2, <1>3, <1>4, <1>5, <1>6

\* A reset while no callback is set; a file sent at any time.
LEMMA TypeReset ==
    ASSUME TInv, Reset, Resets # "any"
    PROVE  TInv'
<1>1. ~packet_callback /\ packet_callback \in BOOLEAN /\ TypeOK /\ SizeSet /\ Fresh
  BY DEF Reset, TInv, TypeOK
<1>2. /\ sending' = FALSE /\ start_send' = FALSE /\ var_file' = NULL
      /\ link_input' = Wires /\ link_output' = Wires
      /\ phase' = "look" /\ queue' = <<>>
      /\ UNCHANGED <<packet_buf, packet_size, packet_pos, packet_bit, packet_callback,
                     state, bytes_remaining>>
  BY DEF Reset
<1>3. packet_callback' = FALSE
  BY <1>1, <1>2
<1>4. TypeOK'
  <2>1. /\ sending' \in BOOLEAN /\ start_send' \in BOOLEAN /\ packet_callback' \in BOOLEAN
    BY <1>2, <1>3
  <2> QED BY <1>1, <1>2, <1>3, <2>1 DEF TypeOK
<1>5. Fresh' /\ SizeSet'
  BY <1>1, <1>2 DEF Fresh, SizeSet, Quiet
<1> QED BY <1>4, <1>5 DEF TInv

LEMMA TypeSendFile ==
    ASSUME TInv, NEW f \in Files, send_file(f)
    PROVE  TInv'
<1>1. /\ state' = 1
      /\ UNCHANGED <<packet_size, packet_pos, packet_bit, sending,
                     link_input, link_output, phase, queue>>
  BY DEF send_file
<1>2. f.parts \in Seq(Bytes) /\ f.size \in Nat
  BY NotNull
<1>3. TypeOK /\ SizeSet /\ Fresh
  BY DEF TInv
<1>4. /\ FileOK
      /\ sending' \/ start_send' => IsCommand(packet_buf') \/ packet_size' # 0
  <2>1. CASE f.parts = <<>>
    <3>1. /\ var_file' = NULL /\ packet_callback' = FALSE
          /\ bytes_remaining' = f.size /\ UNCHANGED <<packet_buf, start_send>>
      BY <2>1 DEF send_file
    <3>2. packet_callback' \in BOOLEAN /\ start_send' \in BOOLEAN
      BY <1>3, <3>1 DEF TypeOK
    <3>3. FileOK
      BY <1>1, <1>2, <1>3, <3>1, <3>2 DEF FileOK, FileType, TypeOK
    <3> QED BY <1>1, <1>3, <3>1, <3>3 DEF Fresh
  <2>2. CASE f.parts # <<>>
    <3>1. /\ Send("RTS", Head(f.parts)) /\ var_file' = Tail(f.parts)
          /\ packet_callback' = TRUE /\ bytes_remaining' = f.size - 1
      BY <2>2 DEF send_file
    <3>2. Head(f.parts) \in Bytes /\ Tail(f.parts) \in Seq(Bytes)
      BY <1>2, <2>2, HeadTailProperties
    <3>3. "RTS" \in WithData \cup NoData
      BY DEF WithData
    <3>4. /\ packet_buf' \in [1..2 -> Bytes] /\ start_send' \in BOOLEAN
          /\ IsCommand(packet_buf')
      BY <3>1, <3>2, <3>3, SendType
    <3>5. packet_callback' \in BOOLEAN /\ var_file' \in Seq(Bytes) /\ var_file' # NULL
      BY <3>1, <3>2, NotNull
    <3>6. state' \in 0..8 /\ bytes_remaining' \in Int
      BY <1>1, <1>2, <3>1
    <3> QED BY <3>4, <3>5, <3>6 DEF FileOK, FileType
  <2> QED BY <2>1, <2>2
<1>5. TypeOK' /\ SizeSet'
  BY <1>1, <1>3, <1>4 DEF TypeOK, FileOK, FileType, SizeSet
<1>6. Fresh'
  BY <1>1, <1>3, <1>4 DEF Fresh, Quiet
<1> QED BY <1>5, <1>6 DEF TInv

LEMMA TypeSame ==
    ASSUME TInv, UNCHANGED vars
    PROVE  TInv'
BY DEF TInv, TypeOK, SizeSet, Fresh, Quiet, vars, portVars, packetVars, fileVars, calcVars

LEMMA TypeInit == Init => TInv
<1> SUFFICES ASSUME Init PROVE TInv
  OBVIOUS
<1>1. TypeOK
  BY InitInv DEF IInv
<1>2. SizeSet /\ Fresh
  BY DEF Init, SizeSet, Fresh, Quiet
<1> QED BY <1>1, <1>2 DEF TInv

-----------------------------------------------------------------------------
(***************************************************************************)
(* The theorems.                                                           *)
(***************************************************************************)
\* The invariant, always.
LEMMA Invariance == ASSUME Orderly PROVE Spec => []IInv
<1>1. Init => IInv
  BY InitInv
<1>2. IInv /\ [Next]_vars => IInv'
  BY StepInv
<1> QED BY <1>1, <1>2, PTL DEF Spec

\* Whole variables of a file.
LEMMA Halves ==
    ASSUME NEW n \in Nat
    PROVE  /\ n \div 2 \in Nat /\ 2 * (n \div 2) <= n
           /\ \A k \in Nat : 2 * k <= n => k <= n \div 2
OBVIOUS

\* As long as the machine is not reset in the middle of a transfer, the position
\* within a packet is always one of the buffer, and the callback is only left set
\* while it has a file to read or close: next_bit(), send_variable_callback() and
\* send_file() in any order with the calculator's accesses of the port, although
\* send_file() may overwrite the packet that is under way, and a packet be
\* cancelled within a byte.
THEOREM LinkTypes == ASSUME Resets # "any" PROVE Spec => []TypeOK
<1>1. TInv /\ [Next]_vars => TInv'
  <2> SUFFICES ASSUME TInv, [Next]_vars PROVE TInv'
    OBVIOUS
  <2>1. CASE Look \/ Hold \/ Wait \/ After
    BY <2>1, TypeReads
  <2>2. CASE Acknowledge \/ LetGo \/ Pull \/ Free \/ Cancel \/ Cancelled
    BY <2>2, TypeWrites
  <2>3. CASE Reset
    BY <2>3, TypeReset
  <2>4. ASSUME NEW f \in Files, send_file(f) PROVE TInv'
    BY <2>4, TypeSendFile
  <2>5. CASE UNCHANGED vars
    BY <2>5, TypeSame
  <2> QED BY <2>1, <2>2, <2>3, <2>4, <2>5 DEF Next, Calculator
<1>2. TInv => TypeOK
  BY DEF TInv
<1> QED BY <1>1, <1>2, TypeInit, PTL DEF Spec

\* Under Orderly the calculator stores a part of what the file holds, in its order,
\* and a transfer that send_variable_callback() has completed has stored all that
\* the file announces and no variable after it.
THEOREM VariablesStored == ASSUME Orderly PROVE Spec => []StoredInOrder
<1>1. IInv => StoredInOrder
  <2> SUFFICES ASSUME IInv, file # NULL
               PROVE  /\ IsPrefix(stored, Contents(file.parts))
                      /\ state = 8 /\ ~packet_callback =>
                            /\ 2 * Len(stored) >= file.size
                            /\ Len(stored) = 1 \/ 2 * (Len(stored) - 1) < file.size
    BY DEF StoredInOrder
  <2>1. /\ file \in Files /\ stored \in Seq(Bytes) /\ Kept(Len(stored))
        /\ state = 8 /\ ~packet_callback =>
               /\ Len(stored) >= 1 /\ Due(Len(stored) - 1) /\ 2 * Len(stored) >= file.size
    BY DEF IInv, Transfer
  <2>2. PICK k, m : k = Len(stored) /\ m = Len(file.parts) \div 2
    OBVIOUS
  <2>3. /\ k \in Nat /\ m \in Nat /\ k <= m
        /\ \A i \in 1..k : stored[i] = file.parts[2 * i]
    <3>1. Len(file.parts) \in Nat /\ k \in Nat /\ 2 * k <= Len(file.parts)
      BY <2>1, <2>2, NotNull DEF Kept
    <3>2. m \in Nat /\ k <= m
      BY <2>2, <3>1, Halves
    <3> QED BY <2>1, <2>2, <3>1, <3>2 DEF Kept
  <2>4. PICK c : c = Contents(file.parts)
    OBVIOUS
  <2>5. /\ c \in Seq(Bytes) /\ Len(c) = m
        /\ \A i \in 1..m : c[i] = file.parts[2 * i]
    <3>1. file.parts \in Seq(Bytes)
      BY <2>1, NotNull
    <3>2. \A i \in 1..m : 2 * i \in 1..Len(file.parts)
      <4>1. PICK n \in Nat : n = Len(file.parts)
        BY <3>1
      <4>2. 2 * (n \div 2) <= n
        BY Halves
      <4>3. 2 * m <= n
        BY <2>2, <4>1, <4>2
      <4> QED BY <2>3, <4>1, <4>3
    <3>3. \A i \in 1..m : file.parts[2 * i] \in Bytes
      BY <3>1, <3>2
    <3>4. c = [i \in 1..m |-> file.parts[2 * i]]
      BY <2>2, <2>4 DEF Contents
    <3>5. c \in [1..m -> Bytes] /\ \A i \in 1..m : c[i] = file.parts[2 * i]
      BY <3>3, <3>4
    <3> QED BY <2>3, <3>5
  <2>6. IsPrefix(stored, c)
    <3>1. /\ SubSeq(stored, 1, k) \in Seq(Bytes) /\ Len(SubSeq(stored, 1, k)) = k
          /\ \A i \in 1..k : SubSeq(stored, 1, k)[i] = stored[i]
      BY <2>1, <2>2, <2>3
    <3>2. /\ SubSeq(c, 1, k) \in Seq(Bytes) /\ Len(SubSeq(c, 1, k)) = k
          /\ \A i \in 1..k : SubSeq(c, 1, k)[i] = c[i]
      BY <2>3, <2>5
    <3>3. \A i \in 1..k : SubSeq(stored, 1, k)[i] = SubSeq(c, 1, k)[i]
      BY <2>3, <2>5, <3>1, <3>2
    <3>4. SubSeq(stored, 1, k) = SubSeq(c, 1, k)
      BY <3>1, <3>2, <3>3, SeqEqual
    <3> QED BY <2>2, <2>3, <2>5, <3>4 DEF IsPrefix
  <2> QED BY <2>1, <2>2, <2>3, <2>4, <2>6 DEF Due
<1> QED BY <1>1, Invariance, PTL

\* Under Orderly the two wires, the shared buffer and the deferred start implement a
\* line that carries packets one at a time and whole, whatever the calculator
\* answers and however often it cancels a packet between two bytes.
THEOREM PacketsCarried == ASSUME Orderly PROVE Spec => CarriesPackets
<1>1. Init => Line!Init
  BY InitInv
<1>2. IInv /\ [Next]_vars => [Line!Next]_Line!vars
  <2> SUFFICES ASSUME IInv, [Next]_vars PROVE [Line!Next]_Line!vars
    OBVIOUS
  <2>1. Carries
    BY StepInv
  <2> QED BY <2>1 DEF Carries, LineSame, Line!vars
<1> QED BY <1>1, <1>2, Invariance, PTL DEF Spec, CarriesPackets, Line!Spec
=============================================================================
