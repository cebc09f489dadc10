------------------------------ MODULE LinkPort ------------------------------
(***************************************************************************)
(* The emulated link port of the TI-84 Plus and the transfer of variables  *)
(* through it: src/Ndless/trunk/Ndless-SDK/nspire_emu/link.c.  Each bit is *)
(* a handshake on two wires that either side pulls down: the sender pulls  *)
(* the wire that stands for the bit, the receiver the other one, and both  *)
(* let go in turn.  The emulator acts only inside the calculator's reads   *)
(* and writes of the port.  The calculator's own routines are external:    *)
(* one that polls the port and answers a transfer.                         *)
(*                                                                         *)
(* A packet is a command, and a byte that stands for a length, that many   *)
(* bytes and their checksum if the command has data.  Bytes have Width     *)
(* bits.  send_app_callback() is not modelled.                             *)
(***************************************************************************)
EXTENDS Integers, Sequences, SequencesExt

CONSTANTS
    Width,        \* bits of a byte, sent lowest first
    Code,         \* the byte of each command
    Files,        \* variable files: what they hold, and how much they announce
    NULL,
    MaxFiles,     \* calls of send_file() (bound)
    MaxCancels,   \* packets the calculator cancels and sends again (bound)
    CancelMidByte,\* whether it may do so within a byte
    Patient,      \* whether send_file() waits for the line to be quiet
    Resets        \* when the machine is reset: "never", "quiet", "any"

WithData == {"RTS", "DATA", "SKIP"}
NoData   == {"ACK", "CTS", "EOT"}
Bytes    == [1..Width -> {0, 1}]
Packets  == [1..1 -> Bytes] \cup [1..2 -> Bytes]

ASSUME LinkAssumption ==
    /\ Width \in Nat \ {0}
    /\ Code \in [WithData \cup NoData -> Bytes] /\ IsInjective(Code)
    /\ Files \subseteq [parts : Seq(Bytes), size : Nat]
    /\ NULL \notin Files /\ NULL \notin Seq(Bytes)
    /\ NULL \notin [to : {"calc", "emu"}, packet : Packets]
    /\ MaxFiles \in Nat /\ MaxCancels \in Nat
    /\ CancelMidByte \in BOOLEAN /\ Patient \in BOOLEAN
    /\ Resets \in {"never", "quiet", "any"}

VARIABLES
    packet_buf, packet_size, packet_pos, packet_bit,
    sending, start_send,
    packet_callback,  \* whether it is send_variable_callback
    var_file,         \* what is left to read of the open file, or NULL
    state, bytes_remaining,
    link_input,       \* wires that the emulator does not pull down
    link_output,      \* wires that the calculator does not pull down
    phase, rx, queue, nsent,  \* the calculator: where its routines are, the bits
                              \* it has got, the packets it has to send, and how
                              \* many bits of the first one it has sent
    heard_calc, heard_emu, \* history: the last packet each side has received
    stored,           \* history: variables the calculator got in this transfer
    file,             \* history: the file of this transfer
    cancels, files    \* for the bounds

packetVars == <<packet_buf, packet_size, packet_pos, packet_bit, sending, start_send>>
fileVars   == <<packet_callback, var_file, state, bytes_remaining>>
portVars   == <<packetVars, fileVars, link_input, link_output>>
calcVars   == <<phase, rx, queue, nsent, stored>>
history    == <<file, cancels, files>>
vars == <<portVars, calcVars, heard_calc, heard_emu, history>>

Wires == {1, 2}
Other(ws) == Wires \ ws

\* The wire left up for a bit: 1 for a one, 2 for a zero.
Up(bit) == IF bit = 1 THEN {1} ELSE {2}
Bit(up) == IF up = {1} THEN 1 ELSE 0

\* What a packet of the buffer is, and its size in bytes.
HasData(byte) == \E c \in WithData : Code[c] = byte
IsPlain(byte) == \E c \in NoData : Code[c] = byte
Packet(buf)   == IF HasData(buf[1]) THEN buf ELSE <<buf[1]>>
Bits(packet)  == IF Len(packet) = 1 THEN packet[1] ELSE packet[1] \o packet[2]
Is(buf, c)    == buf[1] = Code[c]

Init ==
    /\ packet_buf = <<[b \in 1..Width |-> 0], [b \in 1..Width |-> 0]>>
    /\ packet_size = 0 /\ packet_pos = 0 /\ packet_bit = 0
    /\ sending = FALSE /\ start_send = FALSE
    /\ packet_callback = FALSE /\ var_file = NULL /\ state = 0 /\ bytes_remaining = 0
    /\ link_input = Wires /\ link_output = Wires
    /\ phase = "look" /\ rx = <<>> /\ queue = <<>> /\ nsent = 0
    /\ heard_calc = NULL /\ heard_emu = NULL
    /\ stored = <<>> /\ file = NULL /\ cancels = 0 /\ files = 0
-----------------------------------------------------------------------------
(***************************************************************************)
(* send_variable_callback(), called when a packet has been sent or         *)
(* received.  Each part of the file is read into the packet that sends it. *)
(***************************************************************************)
Send(c, byte) == /\ packet_buf' = <<Code[c], byte>>
                 /\ start_send' = TRUE

Same == UNCHANGED <<packet_buf, start_send, var_file, bytes_remaining, packet_callback>>

\* Variant: the callback stays set when the file is closed.
CleanupKeepsCallback == /\ var_file' = NULL
                        /\ UNCHANGED <<packet_buf, start_send, bytes_remaining, packet_callback>>

Cleanup == /\ var_file' = NULL /\ packet_callback' = FALSE
           /\ UNCHANGED <<packet_buf, start_send, bytes_remaining>>

\* A part that cannot be read ends the transfer.  The code has by then overwritten
\* part of the packet, which nobody reads before the next one is in its place.
SendPart(c) ==
    IF var_file = <<>> THEN Cleanup
    ELSE /\ Send(c, Head(var_file))
         /\ var_file' = Tail(var_file)
         /\ bytes_remaining' = bytes_remaining - 1
         /\ UNCHANGED packet_callback

SendPlain(c) == /\ Send(c, packet_buf[2])
                /\ UNCHANGED <<var_file, bytes_remaining, packet_callback>>

\* Variant: the file ends with its first variable.
OneVariable ==
    \/ /\ state = 0 /\ SendPart("RTS") /\ state' = 1
    \/ /\ state \in {1, 5} /\ Same /\ state' = state + 1
    \/ /\ state = 2 /\ state' = 3
       /\ IF Is(packet_buf, "ACK") THEN Same ELSE Cleanup
    \/ /\ state = 3 /\ state' = 4
       /\ IF Is(packet_buf, "CTS") THEN SendPlain("ACK") ELSE Cleanup
    \/ /\ state = 4 /\ SendPart("DATA") /\ state' = 5
    \/ /\ state = 6 /\ state' = 7
       /\ IF Is(packet_buf, "ACK") THEN SendPlain("EOT") ELSE Cleanup
    \/ /\ state = 7 /\ Cleanup /\ state' = 8

send_variable_callback ==
    \/ /\ state = 0 /\ SendPart("RTS") /\ state' = 1
    \/ /\ state \in {1, 5} /\ Same /\ state' = state + 1
    \/ /\ state = 2 /\ state' = 3
       /\ IF Is(packet_buf, "ACK") THEN Same ELSE Cleanup
    \/ /\ state = 3 /\ state' = 4
       /\ IF Is(packet_buf, "CTS") THEN SendPlain("ACK") ELSE Cleanup
    \/ /\ state = 4 /\ SendPart("DATA") /\ state' = 5
    \/ /\ state = 6
       /\ IF Is(packet_buf, "ACK")
          THEN SendPlain("EOT") /\ state' = IF bytes_remaining > 0 THEN 0 ELSE 7
          ELSE Cleanup /\ state' = 7
    \/ /\ state = 7 /\ Cleanup /\ state' = 8

\* send_file(): whatever is under way is forgotten.
send_file(f) ==
    /\ files < MaxFiles
    /\ Patient => /\ phase = "look" /\ queue = <<>> /\ rx = <<>>
                  /\ ~sending /\ ~start_send /\ ~packet_callback
    /\ state' = 1
    /\ IF f.parts = <<>>
       THEN /\ var_file' = NULL /\ packet_callback' = FALSE
            /\ bytes_remaining' = f.size
            /\ UNCHANGED <<packet_buf, start_send>>
       ELSE /\ Send("RTS", Head(f.parts)) /\ var_file' = Tail(f.parts)
            /\ packet_callback' = TRUE
            /\ bytes_remaining' = f.size - 1
    /\ file' = f /\ stored' = <<>> /\ files' = files + 1
    /\ UNCHANGED <<packet_size, packet_pos, packet_bit, sending,
                   link_input, link_output, phase, rx, queue, nsent, heard_calc, heard_emu, cancels>>
-----------------------------------------------------------------------------
(***************************************************************************)
(* The port.                                                               *)
(***************************************************************************)
\* Advance to the next bit of the packet being read or written.
next_bit ==
    LET bit == (packet_bit + 1) % Width
        pos == packet_pos + IF bit = 0 THEN 1 ELSE 0
    IN  /\ packet_bit' = bit
        /\ packet_size' = IF bit = 0 /\ pos = 1
                          THEN CASE IsPlain(packet_buf[1]) -> 1
                                 [] HasData(packet_buf[1]) -> 2
                                 [] OTHER -> packet_size
                          ELSE packet_size
        /\ IF bit = 0 /\ pos = packet_size'
           THEN /\ sending' = FALSE /\ packet_pos' = 0
                /\ heard_emu' = IF sending THEN heard_emu ELSE Packet(packet_buf)
                /\ IF packet_callback THEN send_variable_callback
                                      ELSE UNCHANGED <<packet_buf, start_send, fileVars>>
           ELSE /\ packet_pos' = pos
                /\ UNCHANGED <<packet_buf, sending, start_send, fileVars, heard_emu>>

\* Variant: the value read is that of after a transfer has started.
ValueAfterStart == (IF start_send THEN Up(packet_buf[1][1]) ELSE link_input) \cap link_output

\* The value read is that of before a transfer starts.
Value == link_input \cap link_output

Read ==
    /\ IF start_send
       THEN /\ sending' = TRUE /\ packet_pos' = 0 /\ packet_bit' = 0
            /\ link_input' = Up(packet_buf[1][1])
            /\ start_send' = FALSE
       ELSE UNCHANGED <<sending, packet_pos, packet_bit, link_input, start_send>>
    /\ UNCHANGED <<packet_buf, packet_size, fileVars, link_output>>

\* While the emulator sends: the acknowledgement of a bit, then its end.
WriteSending ==
    IF link_input # Wires
    THEN /\ link_input' = IF link_input \cap link_output' = {} THEN Wires ELSE link_input
         /\ UNCHANGED <<packetVars, fileVars, heard_emu>>
    ELSE IF link_output' = Wires
         THEN /\ next_bit
              /\ link_input' = IF sending' THEN Up(packet_buf[packet_pos' + 1][packet_bit' + 1])
                                           ELSE Wires
         ELSE UNCHANGED <<packetVars, fileVars, heard_emu, link_input>>

\* A byte of the buffer is a shift register.
Shift(bit) == [packet_buf EXCEPT ![packet_pos + 1] = Append(Tail(@), bit)]

\* Variant: both wires pulled do not start the packet again.
WriteReceivingNoCancel ==
    IF link_input = Wires
    THEN /\ IF link_output' \in {{1}, {2}}
            THEN /\ link_input' = Other(link_output')
                 /\ packet_buf' = Shift(Bit(link_output'))
            ELSE UNCHANGED <<link_input, packet_buf>>
         /\ UNCHANGED <<packet_size, packet_pos, packet_bit, sending, start_send, fileVars, heard_emu>>
    ELSE IF link_input \cap link_output' # {}
         THEN link_input' = Wires /\ next_bit
         ELSE UNCHANGED <<packetVars, fileVars, heard_emu, link_input>>

WriteReceiving ==
    IF link_input = Wires
    THEN /\ packet_pos' = IF link_output' = {} THEN 0 ELSE packet_pos
         /\ IF link_output' \in {{1}, {2}}
            THEN /\ link_input' = Other(link_output')
                 /\ packet_buf' = Shift(Bit(link_output'))
            ELSE UNCHANGED <<link_input, packet_buf>>
         /\ UNCHANGED <<packet_size, packet_bit, sending, start_send, fileVars, heard_emu>>
    ELSE IF link_input \cap link_output' # {}
         THEN link_input' = Wires /\ next_bit
         ELSE UNCHANGED <<packetVars, fileVars, heard_emu, link_input>>

Write(up) == /\ link_output' = up
             /\ IF sending THEN WriteSending ELSE WriteReceiving

\* The machine is reset, and the calculator's routines with it: the packet, the
\* bit and the callback stay as they were.
Reset ==
    /\ \/ Resets = "any"
       \/ /\ Resets = "quiet" /\ phase = "look" /\ queue = <<>> /\ rx = <<>>
          /\ ~packet_callback
    /\ sending' = FALSE /\ start_send' = FALSE /\ var_file' = NULL
    /\ link_input' = Wires /\ link_output' = Wires
    /\ phase' = "look" /\ rx' = <<>> /\ queue' = <<>> /\ nsent' = 0
    /\ UNCHANGED <<packet_buf, packet_size, packet_pos, packet_bit, packet_callback,
                   state, bytes_remaining, heard_calc, heard_emu, stored, history>>
-----------------------------------------------------------------------------
(***************************************************************************)
(* The calculator (external).  A phase ends with one access of the port.   *)
(***************************************************************************)
\* It answers a variable with its consent or a refusal, and its contents with
\* an acknowledgement.
Answers(p) ==
    CASE Is(p, "RTS")  -> {<< <<Code["ACK"]>>, <<Code["CTS"]>> >>,
                           << <<Code["ACK"]>>, <<Code["SKIP"], p[2]>> >>}
      [] Is(p, "DATA") -> {<< <<Code["ACK"]>> >>}
      [] OTHER         -> {<<>>}

\* The packet that some bits are, once they are all there.
Whole(bits) ==
    /\ Len(bits) >= Width
    /\ LET first == SubSeq(bits, 1, Width)
       IN  Len(bits) = Width * IF HasData(first) THEN 2 ELSE 1
AsPacket(bits) == [b \in 1..(Len(bits) \div Width) |->
                      SubSeq(bits, (b - 1) * Width + 1, b * Width)]

\* Reads of the port, until what they wait for.
Poll(from, to, until) ==
    /\ phase = from
    /\ Read
    /\ phase' = IF until THEN to ELSE from
    /\ UNCHANGED <<heard_calc, heard_emu, history>>

Look == \/ /\ queue = <<>>
           /\ Poll("look", "got", Value \in {{1}, {2}})
           /\ rx' = IF phase' = "got" THEN Append(rx, Bit(Value)) ELSE rx
           /\ UNCHANGED <<queue, nsent, stored>>
        \/ /\ queue # <<>>
           /\ Poll("look", "pull", Value = Wires)
           /\ UNCHANGED <<rx, queue, nsent, stored>>

Hold == /\ Poll("hold", "letgo", Value # {})
        /\ UNCHANGED <<rx, queue, nsent, stored>>

Wait == /\ Poll("wait", "free", Value = {})
        /\ UNCHANGED <<rx, queue, nsent, stored>>

After == /\ Poll("after", "look", Value = Wires)
         /\ IF phase' = "look" /\ nsent = Len(Bits(Head(queue)))
            THEN queue' = Tail(queue) /\ nsent' = 0
            ELSE UNCHANGED <<queue, nsent>>
         /\ UNCHANGED <<rx, stored>>

\* Writes of the port.
Acknowledge == /\ phase = "got"
               /\ Write(Other(Up(Last(rx))))
               /\ phase' = "hold"
               /\ UNCHANGED <<rx, queue, nsent, stored, heard_calc, history>>

LetGo == /\ phase = "letgo"
         /\ Write(Wires)
         /\ phase' = "look"
         /\ IF Whole(rx)
            THEN /\ queue' \in Answers(AsPacket(rx))
                 /\ stored' = IF Is(AsPacket(rx), "DATA")
                              THEN Append(stored, AsPacket(rx)[2]) ELSE stored
                 /\ rx' = <<>>
                 /\ heard_calc' = AsPacket(rx)
            ELSE UNCHANGED <<queue, stored, rx, heard_calc>>
         /\ UNCHANGED <<nsent, history>>

Pull == /\ phase = "pull"
        /\ Write(Up(Bits(Head(queue))[nsent + 1]))
        /\ phase' = "wait"
        /\ UNCHANGED <<rx, queue, nsent, stored, heard_calc, history>>

Free == /\ phase = "free"
        /\ Write(Wires)
        /\ nsent' = nsent + 1 /\ phase' = "after"
        /\ UNCHANGED <<rx, queue, stored, heard_calc, history>>

\* It gives the packet up, by pulling both wires, and sends it again.
Cancel == /\ phase = "pull" /\ cancels < MaxCancels
          /\ CancelMidByte \/ nsent % Width = 0
          /\ Write({})
          /\ phase' = "cancel" /\ nsent' = 0 /\ cancels' = cancels + 1
          /\ UNCHANGED <<rx, queue, stored, heard_calc, file, files>>

Cancelled == /\ phase = "cancel"
             /\ Write(Wires)
             /\ phase' = "look"
             /\ UNCHANGED <<rx, queue, nsent, stored, heard_calc, history>>

Calculator == Look \/ Hold \/ Wait \/ After \/ Acknowledge \/ LetGo
                \/ Pull \/ Free \/ Cancel \/ Cancelled

Next == Calculator \/ Reset \/ \E f \in Files : send_file(f)

\* The calculator's routines go on as long as the emulator runs.
Spec == Init /\ [][Next]_vars /\ WF_vars(Calculator)
-----------------------------------------------------------------------------
(***************************************************************************)
(* Properties.                                                             *)
(***************************************************************************)
\* A position within the packet is one of the buffer, and the callback is only
\* left set while it has a file to read or close.
TypeOK ==
    /\ packet_buf \in [1..2 -> Bytes] /\ packet_size \in 0..2
    /\ packet_pos \in 0..1 /\ packet_bit \in 0..Width-1
    /\ sending \in BOOLEAN /\ start_send \in BOOLEAN /\ packet_callback \in BOOLEAN
    /\ var_file = NULL \/ var_file \in Seq(Bytes)
    /\ packet_callback => var_file # NULL
    /\ state \in 0..8 /\ bytes_remaining \in Int
    /\ link_input \in SUBSET Wires /\ link_output \in SUBSET Wires
    /\ phase \in {"look", "got", "hold", "letgo", "pull", "wait", "free", "after", "cancel"}

\* The line as packets: what start_send defers is under way already, and a
\* packet has arrived when its last bit is let go.
UnderWay ==
    IF sending \/ start_send
    THEN [to |-> "calc", packet |-> Packet(packet_buf)]
    ELSE IF queue # <<>> /\ nsent < Len(Bits(Head(queue)))
         THEN [to |-> "emu", packet |-> Head(queue)]
         ELSE NULL

\* Packets cross the two wires one at a time, whole, and as they were sent,
\* although each side drives its wires on its own and the buffer is shared.
Line == INSTANCE HalfDuplex WITH
            wire <- UnderWay, heard <- [calc |-> heard_calc, emu |-> heard_emu],
            Ends <- {"calc", "emu"}, None <- NULL,
            Packets <- Packets
CarriesPackets == Line!Spec

\* The calculator stores what the file holds, in its order; a transfer that the
\* emulator reports complete has stored all that the file announces, and no
\* variable after it.
Contents(parts) == [k \in 1..(Len(parts) \div 2) |-> parts[2 * k]]
StoredInOrder ==
    file # NULL => /\ IsPrefix(stored, Contents(file.parts))
                   /\ state = 8 /\ ~packet_callback =>
                        /\ 2 * Len(stored) >= file.size
                        /\ Len(stored) = 1 \/ 2 * (Len(stored) - 1) < file.size

\* A transfer ends, and its file is closed, whether the calculator consents,
\* refuses, cancels a packet and sends it again, or the file is too short.
TransferEnds == packet_callback ~> (~packet_callback /\ var_file = NULL)

=============================================================================
