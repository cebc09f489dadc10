------------------------------- MODULE UsbLink -------------------------------
(***************************************************************************)
(* The transfer of documents and of the OS over the emulated USB port:     *)
(* src/Ndless/trunk/Ndless-SDK/nspire_emu/usblink.c, and the endpoints of  *)
(* usb.c that it reads and writes.  The emulator is the computer's side.   *)
(* It has one buffer for the packets it sends, one open file and one step  *)
(* of its transfer, and acts when the calculator writes the registers of   *)
(* its USB controller, when the user sends a file, and on a timer.         *)
(*                                                                         *)
(* The calculator's side is external.  A file is a number of packets of    *)
(* data; sequence numbers, checksums and sizes are left out, and so are    *)
(* packets too large for the calculator's buffers.                         *)
(***************************************************************************)
EXTENDS Integers, Sequences, SequencesExt

CONSTANTS
    Files,      \* files the user sends: an id, a size in packets and a service
    Buffers,    \* receive buffers of the calculator, one per endpoint
    MaxPuts,    \* files sent (bound)
    MaxOthers,  \* packets about something else the calculator sends (bound)
    Overlap,    \* whether the user sends a file while one is being sent
    NULL

Services == {"doc", "os"}   \* 0x4060 and 0x4080

ASSUME UsbAssumption ==
    /\ Files \subseteq [id : Nat, size : Nat, port : Services]
    /\ Buffers \in 1..3
    /\ MaxPuts \in Nat /\ MaxOthers \in Nat /\ Overlap \in BOOLEAN
    /\ NULL \notin Files /\ NULL \notin {"ack", "04", "FF 00"}

SENDING_03 == 1
RECVING_04 == 2
ACKING_04_or_FF_00 == 3
SENDING_05 == 4
RECVING_FF_00 == 5
DONE == 6
EXPECT_FF_00 == 16

VARIABLES
    link,      \* the emulator: the buffer it sends from, whether it is waiting
               \* to be sent, the file, what is left of it, the step of its
               \* transfer; the endpoints primed to receive and the packets the
               \* calculator has received; and whether a packet was lost
    usblink_state,
    usb,       \* the calculator's USB device
    setup,     \* the setup packet it has to answer, or NULL
    outbox,    \* packets it has to send
    rx, stored,\* the file it is receiving, and the packets it has stored of it
    puts, others

calcVars == <<usb, setup, outbox, rx, stored>>
vars == <<link, usblink_state, calcVars, puts, others>>

Step(l) == l.put_file_state % 16
Busy(l) == l.put_file_state \notin {0, DONE}

Ack(service) == [kind |-> "ack", dst |-> service, data |-> <<>>]

Init ==
    /\ link = [buf |-> Ack("other"), sending |-> FALSE, put_file |-> NULL, left |-> 0,
               put_file_state |-> 0, epsr |-> 0, inbox |-> <<>>, lost |-> FALSE]
    /\ usblink_state = 0
    /\ usb = "off" /\ setup = NULL /\ outbox = <<>> /\ rx = NULL /\ stored = <<>>
    /\ puts = 0 /\ others = 0
-----------------------------------------------------------------------------
(***************************************************************************)
(* The emulator's side, as functions of its state.                         *)
(***************************************************************************)
\* What a transfer waits for: its packets, and acknowledgements to its service.
OfTransfer(packet) == packet.kind \in {"03", "05"} \/ packet.dst \in Services

\* The packet is built in the buffer, whether or not it holds another one.
Build(l, packet) ==
    [l EXCEPT !.buf = packet, !.sending = TRUE,
              !.lost = @ \/ (l.sending /\ OfTransfer(l.buf))]

Deliver(l) == [l EXCEPT !.inbox = Append(@, l.buf), !.epsr = @ - 1, !.sending = FALSE]

\* Variant: a packet waits even if an endpoint is primed.
SendWaits(l, packet) == Build(l, packet)

\* usblink_send_packet(), for a packet that is not an acknowledgement: that it
\* has been sent has no consequence.
Send(l, packet) == LET m == Build(l, packet)
                   IN  IF m.epsr > 0 THEN Deliver(m) ELSE m

\* Variant: complete once the last packet is sent, not when it is acknowledged.
send_dataDoneEarly(l) ==
    Send([l EXCEPT !.left = @ - 1, !.put_file_state = IF l.left <= 1 THEN DONE ELSE @],
         [kind |-> "05", dst |-> l.put_file.port,
          data |-> <<l.put_file.id, l.put_file.size - l.left + 1>>])

send_data(l) ==
    IF l.left > 0
    THEN Send([l EXCEPT !.left = @ - 1],
              [kind |-> "05", dst |-> l.put_file.port,
               data |-> <<l.put_file.id, l.put_file.size - l.left + 1>>])
    ELSE [l EXCEPT !.put_file_state = DONE]

\* Variant: the closed file is still taken for open.
CloseKeepsFile(l) == [l EXCEPT !.put_file_state = 0]

Close(l) == [l EXCEPT !.put_file_state = 0, !.put_file = NULL]

\* What the step waits for: the packet received, or NULL when an acknowledgement
\* has been sent.
Wanted(l, in) ==
    \/ Step(l) \in {SENDING_03, SENDING_05} /\ in = "ack"
    \/ Step(l) = RECVING_04 /\ in = "04"
    \/ Step(l) = ACKING_04_or_FF_00 /\ in = NULL
    \/ Step(l) = RECVING_FF_00 /\ in = "FF 00"

Advance(l) ==
    LET next == [l EXCEPT !.put_file_state = @ + 1]
    IN  CASE Step(l) = ACKING_04_or_FF_00 -> send_data(next)
          [] Step(l) = SENDING_05 /\ l.put_file_state < EXPECT_FF_00 -> send_data(l)
          [] Step(l) = RECVING_FF_00 -> [l EXCEPT !.put_file_state = ACKING_04_or_FF_00]
          [] OTHER -> next

put_file_next(l, in) ==
    IF l.put_file_state = 0 THEN l
    ELSE IF Wanted(l, in) THEN Advance(l) ELSE Close(l)

usblink_sent_packet(l) ==
    IF l.buf.kind = "ack" /\ l.buf.dst \in Services THEN put_file_next(l, NULL) ELSE l

usblink_complete_send(l) == IF l.sending THEN usblink_sent_packet(Deliver(l)) ELSE l

usblink_start_send(l, packet) ==
    LET m == Build(l, packet)
    IN  IF m.epsr > 0 THEN usblink_complete_send(m) ELSE m

usblink_received_packet(l, in) ==
    LET m == IF in.src \in Services THEN put_file_next(l, in.kind) ELSE l
    IN  CASE in.kind = "address" -> Send(m, [kind |-> "address", dst |-> "other", data |-> <<>>])
          [] in.kind = "ack"     -> m
          [] OTHER               -> usblink_start_send(m, Ack(in.src))

\* usblink_put_file() and usblink_send_os().
put(l, f) ==
    [Send([l EXCEPT !.put_file = f, !.left = f.size,
                    !.put_file_state = IF f.port = "os" THEN SENDING_03 + EXPECT_FF_00
                                                        ELSE SENDING_03],
          [kind |-> "03", dst |-> f.port, data |-> <<f>>])
     EXCEPT !.lost = FALSE]
-----------------------------------------------------------------------------
(***************************************************************************)
(* The user.                                                               *)
(***************************************************************************)
Put(f) == /\ puts < MaxPuts
          /\ Overlap \/ ~Busy(link) \/ link.lost
          /\ link' = put(link, f)
          /\ puts' = puts + 1
          /\ UNCHANGED <<usblink_state, calcVars, others>>

usblink_connect == /\ usblink_state' = 1
                   /\ UNCHANGED <<link, calcVars, puts, others>>

\* A calculator that is reset by the bus or restarts keeps complete files only.
Forget == /\ setup' = NULL /\ outbox' = <<>>
          /\ IF rx # NULL /\ Len(stored) < rx.size
             THEN rx' = NULL /\ stored' = <<>>
             ELSE UNCHANGED <<rx, stored>>

\* The machine is reset: usb_reset() and usblink_reset().
Reset == /\ link' = [Close(link) EXCEPT !.sending = FALSE, !.epsr = 0,
                                        !.inbox = <<>>, !.lost = FALSE]
         /\ usblink_state' = 0
         /\ usb' = "off" /\ Forget
         /\ UNCHANGED <<puts, others>>

\* The endpoints and what they have received are given up.
Unprime(l) ==
    [l EXCEPT !.epsr = 0, !.inbox = <<>>,
              !.lost = @ \/ (Busy(l) /\ ~(l.sending /\ l.buf.kind = "03"))]

\* The calculator resets its controller (a write of USBCMD) and sets it up anew: the
\* emulator's side is not told, and a setup packet that waits is gone for good.
usb_reset == /\ link' = Unprime(link)
             /\ usb' = "off" /\ Forget
             /\ UNCHANGED <<usblink_state, puts, others>>
-----------------------------------------------------------------------------
(***************************************************************************)
(* The connection: a reset of the bus, then two setup packets.             *)
(***************************************************************************)
usblink_timer ==
    \/ /\ usblink_state = 1
       /\ usblink_state' = 2
       /\ link' = Unprime(link)
       /\ usb' = "default" /\ Forget
       /\ UNCHANGED <<puts, others>>
    \/ /\ usblink_state = 2
       /\ usblink_state' = 3
       /\ setup' = "SET_ADDRESS"
       /\ UNCHANGED <<link, usb, outbox, rx, stored, puts, others>>

\* Variant: the connection's state is not left.
AnswerKeepsState ==
    /\ setup # NULL
    /\ setup' = IF usblink_state = 3 THEN "SET_CONFIGURATION" ELSE NULL
    /\ usb' = IF setup = "SET_ADDRESS" THEN "addressed" ELSE "configured"
    /\ UNCHANGED <<link, usblink_state, outbox, rx, stored, puts, others>>

\* The calculator answers a setup packet, on endpoint 0.  Once configured it
\* asks for its address.
Answer ==
    /\ setup # NULL
    /\ IF usblink_state = 3
       THEN setup' = "SET_CONFIGURATION" /\ usblink_state' = 0
       ELSE setup' = NULL /\ UNCHANGED usblink_state
    /\ usb' = IF setup = "SET_ADDRESS" THEN "addressed" ELSE "configured"
    /\ outbox' = IF usb' = "configured"
                 THEN Append(outbox, [kind |-> "address", src |-> "other"]) ELSE outbox
    /\ UNCHANGED <<link, rx, stored, puts, others>>
-----------------------------------------------------------------------------
(***************************************************************************)
(* The calculator, once it is configured.                                  *)
(***************************************************************************)
\* A write of EPPRIME, for a free receive buffer, and one of EPFLUSH.
Prime == /\ usb = "configured"
         /\ link.epsr + Len(link.inbox) < Buffers
         /\ link' = usblink_complete_send([link EXCEPT !.epsr = @ + 1])
         /\ UNCHANGED <<usblink_state, calcVars, puts, others>>

Flush == /\ link.epsr > 0
         /\ link' = [link EXCEPT !.epsr = 0]
         /\ UNCHANGED <<usblink_state, calcVars, puts, others>>

\* A write of EPPRIME, for a packet to send.
Transmit == /\ usb = "configured" /\ outbox # <<>>
            /\ link' = usblink_received_packet(link, Head(outbox))
            /\ outbox' = Tail(outbox)
            /\ UNCHANGED <<usblink_state, usb, setup, rx, stored, puts, others>>

SendOther == /\ usb = "configured" /\ others < MaxOthers
             /\ outbox' = Append(outbox, [kind |-> "other", src |-> "other"])
             /\ others' = others + 1
             /\ UNCHANGED <<link, usblink_state, usb, setup, rx, stored, puts>>

Reply(service, kinds) == outbox' = outbox \o [k \in DOMAIN kinds |->
                                        [kind |-> kinds[k], src |-> service]]

Incomplete == rx # NULL /\ Len(stored) < rx.size

\* It accepts a file or refuses it, and an OS once it has seen its header.
Process ==
    /\ usb = "configured" /\ link.inbox # <<>>
    /\ link' = [link EXCEPT !.inbox = Tail(@)]
    /\ LET p == Head(link.inbox)
       IN  \/ /\ p.kind = "03"
              /\ rx' = p.data[1] /\ stored' = <<>>
              /\ Reply(p.dst, <<"ack", "04">>)
           \/ /\ p.kind = "03"
              /\ Reply(p.dst, <<"ack", "no">>)
              /\ UNCHANGED <<rx, stored>>
           \/ /\ p.kind = "05" /\ Incomplete
              /\ stored' = Append(stored, p.data)
              /\ IF p.dst = "os" /\ stored = <<>>
                 THEN \/ Reply(p.dst, <<"ack", "FF 00">>) /\ rx' = rx
                      \/ Reply(p.dst, <<"ack", "no">>) /\ rx' = NULL
                 ELSE Reply(p.dst, <<"ack">>) /\ rx' = rx
           \/ /\ \/ p.kind \in {"ack", "address"}
                 \/ p.kind = "05" /\ ~Incomplete
              /\ UNCHANGED <<outbox, rx, stored>>
    /\ UNCHANGED <<usblink_state, usb, setup, puts, others>>

Next ==
    \/ \E f \in Files : Put(f)
    \/ usblink_connect \/ Reset \/ usb_reset
    \/ usblink_timer \/ Answer
    \/ Prime \/ Flush \/ Transmit \/ SendOther \/ Process

\* The timer goes on, and the calculator serves its USB device.
Spec == /\ Init /\ [][Next]_vars
        /\ WF_vars(usblink_timer) /\ WF_vars(Answer)
        /\ WF_vars(Prime) /\ WF_vars(Transmit) /\ WF_vars(Process)
-----------------------------------------------------------------------------
(***************************************************************************)
(* Properties.                                                             *)
(***************************************************************************)
\* The file is open exactly as long as a transfer may read or close it, and a
\* packet waits only for want of a primed endpoint.
TypeOK ==
    /\ link.put_file_state \in 0..6 \cup {16 + s : s \in 1..5}
    /\ link.put_file \in Files \cup {NULL}
    /\ link.put_file = NULL <=> link.put_file_state = 0
    /\ link.epsr \in 0..Buffers
    /\ link.sending => link.epsr = 0
    /\ usblink_state \in 0..3
    /\ usb \in {"off", "default", "addressed", "configured"}
    /\ setup \in {NULL, "SET_ADDRESS", "SET_CONFIGURATION"}

\* The calculator stores the packets of the file whose name and size it was
\* given, in their order; when the emulator reports "Send complete" (usblink.c),
\* it has stored them all.
FileArrives ==
    /\ rx # NULL => IsPrefix(stored, [k \in 1..rx.size |-> <<rx.id, k>>])
    /\ link.put_file_state = DONE => rx = link.put_file /\ Len(stored) = rx.size

\* A transfer to a connected calculator ends, accepted or refused, unless one of
\* its packets is lost, overwritten in the buffer or by a reset of the bus or of the
\* calculator's controller.
TransferEnds ==
    Busy(link) /\ usb = "configured" ~> ~Busy(link) \/ link.lost \/ usb # "configured"

\* The emulator waits for an answer to a setup packet that was lost with the
\* calculator's controller.  Only another connection or a reset ends that.
Unanswered == usblink_state = 3 /\ setup = NULL

\* A connection is established, whenever it is asked for: also in the middle of
\* another one, whose answers are then still to come.  The calculator may end it by a
\* reset, and by one of its controller while SET_ADDRESS waits to be answered: nothing
\* else leaves the emulator waiting.
Connects ==
    /\ \/ []<><<usblink_connect>>_vars
       \/ usblink_state # 0 ~> \/ usblink_state = 0 /\ usb \in {"configured", "off"}
                               \/ Unanswered
    /\ [][Unanswered' => Unanswered \/ usb_reset]_vars

=============================================================================
