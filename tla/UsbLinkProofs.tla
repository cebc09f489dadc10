---------------------------- MODULE UsbLinkProofs ----------------------------
(***************************************************************************)
(* Proofs about UsbLink, for any files, buffers of the calculator, numbers *)
(* of files sent and of other packets, and whatever the user does to the   *)
(* connection and the machine in between.                                  *)
(***************************************************************************)
EXTENDS UsbLink, TLAPS

USE DEF SENDING_03, RECVING_04, ACKING_04_or_FF_00, SENDING_05, RECVING_FF_00,
        DONE, EXPECT_FF_00, Services

----------------------------------------------------------------------------
(***************************************************************************)
(* Types: what the packets are, and the emulator's state.                  *)
(***************************************************************************)

Address    == [kind |-> "address", dst |-> "other", data |-> <<>>]
Start(f)   == [kind |-> "03", dst |-> f.port, data |-> <<f>>]
Data(f, k) == [kind |-> "05", dst |-> f.port, data |-> <<f.id, k>>]

Packet == {Ack(s) : s \in Services \cup {"other"}} \cup {Address}
          \cup {Start(f) : f \in Files} \cup {Data(f, k) : f \in Files, k \in Nat}

States == 0 .. 6 \cup {16 + s : s \in 1 .. 5}

Link == [buf : Packet, sending : BOOLEAN, put_file : Files \cup {NULL}, left : Nat,
         put_file_state : States, epsr : 0 .. Buffers, inbox : Seq(Packet), lost : BOOLEAN]

Sound(l) ==
    /\ l \in Link
    /\ l.put_file = NULL <=> l.put_file_state = 0
    /\ l.put_file # NULL => l.left <= l.put_file.size
    /\ l.sending => l.epsr = 0

LEMMA FileFields ==
    ASSUME NEW f \in Files
    PROVE  f.id \in Nat /\ f.size \in Nat /\ f.port \in Services /\ f # NULL
BY UsbAssumption

LEMMA PacketFields ==
    /\ \A s \in Services \cup {"other"} :
          Ack(s) \in Packet /\ Ack(s).kind = "ack" /\ Ack(s).dst = s
    /\ Address \in Packet /\ Address.kind = "address" /\ Address.dst = "other"
    /\ \A f \in Files : /\ Start(f) \in Packet /\ Start(f).kind = "03"
                        /\ Start(f).dst = f.port /\ Start(f).data = <<f>>
    /\ \A f \in Files, k \in Nat :
          /\ Data(f, k) \in Packet /\ Data(f, k).kind = "05"
          /\ Data(f, k).dst = f.port /\ Data(f, k).data = <<f.id, k>>
<1>1. /\ \A s \in Services \cup {"other"} : Ack(s) \in Packet
      /\ Address \in Packet
      /\ \A f \in Files : Start(f) \in Packet
      /\ \A f \in Files, k \in Nat : Data(f, k) \in Packet
  BY DEF Packet
<1>2. \A s : Ack(s).kind = "ack" /\ Ack(s).dst = s
  BY DEF Ack
<1>3. Address.kind = "address" /\ Address.dst = "other"
  BY DEF Address
<1>4. \A f : Start(f).kind = "03" /\ Start(f).dst = f.port /\ Start(f).data = <<f>>
  BY DEF Start
<1>5. \A f, k : Data(f, k).kind = "05" /\ Data(f, k).dst = f.port
                /\ Data(f, k).data = <<f.id, k>>
  BY DEF Data
<1> QED BY <1>1, <1>2, <1>3, <1>4, <1>5

LEMMA PacketKinds ==
    ASSUME NEW p \in Packet
    PROVE  \/ \E s \in Services \cup {"other"} : p = Ack(s)
           \/ p = Address
           \/ \E f \in Files : p = Start(f)
           \/ \E f \in Files, k \in Nat : p = Data(f, k)
BY DEF Packet

LEMMA LinkFields ==
    ASSUME NEW l \in Link
    PROVE  /\ l.buf \in Packet /\ l.sending \in BOOLEAN /\ l.lost \in BOOLEAN
           /\ l.put_file \in Files \cup {NULL} /\ l.left \in Nat
           /\ l.put_file_state \in States
           /\ l.epsr \in 0 .. Buffers /\ l.epsr \in Nat
           /\ l.inbox \in Seq(Packet) /\ Buffers \in Nat
<1>0. Buffers \in 1 .. 3
  BY UsbAssumption, Zenon
<1>1. Buffers \in Nat
  BY <1>0
<1>2. l.epsr \in 0 .. Buffers
  BY DEF Link
<1>3. l.epsr \in Nat
  BY <1>1, <1>2
<1> QED BY <1>1, <1>2, <1>3 DEF Link

LEMMA Steps ==
    ASSUME NEW l \in Link
    PROVE  /\ l.put_file_state \in {0, 1, 2, 3, 4, 5, 6, 17, 18, 19, 20, 21}
           /\ Step(l) = IF l.put_file_state < 16 THEN l.put_file_state
                                                 ELSE l.put_file_state - 16
<1>1. l.put_file_state \in 0 .. 6 \cup {16 + s : s \in 1 .. 5}
  BY LinkFields DEF States
<1>2. l.put_file_state \in {0, 1, 2, 3, 4, 5, 6, 17, 18, 19, 20, 21}
  BY <1>1
<1>3. \A x \in {0, 1, 2, 3, 4, 5, 6, 17, 18, 19, 20, 21} :
         x % 16 = IF x < 16 THEN x ELSE x - 16
  OBVIOUS
<1> QED BY <1>2, <1>3 DEF Step

----------------------------------------------------------------------------
(***************************************************************************)
(* The emulator's functions: what each does to its state.                  *)
(***************************************************************************)

\* The packet p has been given to the buffer of l, which has become m.
Given(l, m, p) ==
    /\ m.buf = p /\ (m.sending <=> l.epsr = 0)
    /\ m.epsr = IF l.epsr = 0 THEN 0 ELSE l.epsr - 1
    /\ m.inbox = IF l.epsr = 0 THEN l.inbox ELSE Append(l.inbox, p)
    /\ m.lost <=> l.lost \/ (l.sending /\ OfTransfer(l.buf))

SameFile(l, m) == /\ m.put_file = l.put_file /\ m.left = l.left
                  /\ m.put_file_state = l.put_file_state

SameBuffer(l, m) == /\ m.buf = l.buf /\ m.sending = l.sending /\ m.epsr = l.epsr
                    /\ m.inbox = l.inbox /\ m.lost = l.lost

At(l, n) == [l EXCEPT !.put_file_state = n]

LEMMA SendIs ==
    ASSUME NEW l, Sound(l), NEW p \in Packet
    PROVE  /\ Given(l, Send(l, p), p) /\ SameFile(l, Send(l, p))
           /\ Sound(Send(l, p))
<1>a. l \in Link
  BY DEF Sound
<1>1. l \in Link /\ l.epsr \in 0 .. Buffers /\ l.epsr \in Nat
  BY <1>a, LinkFields
<1>2. PICK b : b = (l.lost \/ (l.sending /\ OfTransfer(l.buf))) /\ b \in BOOLEAN
  OBVIOUS
<1>4. PICK m : m = Build(l, p)
  OBVIOUS
<1>3. m = [l EXCEPT !.buf = p, !.sending = TRUE, !.lost = b]
  BY <1>1, <1>2, <1>4, LinkFields DEF Build
<1>5. m \in Link /\ m.buf = p /\ m.sending = TRUE /\ m.lost = b /\ m.epsr = l.epsr
      /\ m.put_file = l.put_file /\ m.left = l.left /\ m.inbox = l.inbox
      /\ m.put_file_state = l.put_file_state
  BY <1>1, <1>2, <1>3 DEF Link
<1>6. CASE l.epsr = 0
  <2>1. Send(l, p) = m
    BY <1>1, <1>4, <1>5, <1>6 DEF Send
  <2>2. Given(l, m, p)
    BY <1>2, <1>5, <1>6 DEF Given
  <2>3. SameFile(l, m) /\ Sound(m)
    BY <1>5, <1>6 DEF SameFile, Sound
  <2> QED BY <2>1, <2>2, <2>3
<1>7. CASE l.epsr > 0
  <2>1. Send(l, p) = [m EXCEPT !.inbox = Append(m.inbox, p), !.epsr = m.epsr - 1, !.sending = FALSE]
    BY <1>1, <1>4, <1>5, <1>7 DEF Send, Deliver
  <2>2. PICK n : n = Send(l, p)
    OBVIOUS
  <2>3. Append(m.inbox, p) \in Seq(Packet) /\ m.epsr - 1 \in 0 .. Buffers
    <3>1. m.inbox \in Seq(Packet) /\ Append(m.inbox, p) \in Seq(Packet)
      BY <1>5, LinkFields
    <3> QED BY <1>1, <1>5, <1>7, <3>1, LinkFields
  <2>4. n \in Link /\ n.buf = p /\ n.sending = FALSE /\ n.lost = b /\ n.epsr = l.epsr - 1
        /\ n.put_file = l.put_file /\ n.left = l.left /\ n.inbox = Append(l.inbox, p)
        /\ n.put_file_state = l.put_file_state
    BY <1>5, <2>1, <2>2, <2>3 DEF Link
  <2>5. Given(l, n, p)
    <3>1. n.lost <=> l.lost \/ (l.sending /\ OfTransfer(l.buf))
      BY <1>2, <2>4, Zenon
    <3>2. l.epsr # 0
      BY <1>1, <1>7
    <3> QED BY <2>4, <3>1, <3>2, Zenon DEF Given
  <2>6. SameFile(l, n) /\ Sound(n)
    BY <2>4 DEF SameFile, Sound
  <2> QED BY <2>2, <2>5, <2>6
<1> QED BY <1>1, <1>6, <1>7

LEMMA CloseIs ==
    ASSUME NEW l, Sound(l)
    PROVE  /\ Sound(Close(l)) /\ SameBuffer(l, Close(l))
           /\ Close(l).put_file_state = 0
<1>1. PICK m : m = Close(l)
  OBVIOUS
<1>2. l \in Link /\ 0 \in States
  BY DEF Sound, States
<1>3. m = [l EXCEPT !.put_file_state = 0, !.put_file = NULL]
  BY <1>1 DEF Close
<1>4. m \in Link /\ m.put_file_state = 0 /\ m.put_file = NULL
  BY <1>2, <1>3 DEF Link
<1>5. SameBuffer(l, m)
  BY <1>2, <1>3 DEF Link, SameBuffer
<1> QED BY <1>1, <1>4, <1>5 DEF Sound, SameBuffer

LEMMA AtIs ==
    ASSUME NEW l, Sound(l), l.put_file # NULL, NEW n \in States \ {0}
    PROVE  /\ Sound(At(l, n)) /\ SameBuffer(l, At(l, n)) /\ At(l, n).put_file_state = n
           /\ At(l, n).put_file = l.put_file /\ At(l, n).left = l.left
<1>1. PICK m : m = At(l, n)
  OBVIOUS
<1>2. l \in Link
  BY DEF Sound
<1>3. m = [l EXCEPT !.put_file_state = n]
  BY <1>1 DEF At
<1>4. m \in Link /\ m.put_file_state = n /\ m.put_file = l.put_file /\ m.left = l.left
  BY <1>2, <1>3 DEF Link
<1>5. SameBuffer(l, m)
  BY <1>2, <1>3 DEF Link, SameBuffer
<1> QED BY <1>1, <1>4, <1>5 DEF Sound, SameBuffer

\* send_data(): the next packet of the file, or the end of the transfer.
LEMMA SendDataIs ==
    ASSUME NEW l, Sound(l), l.put_file # NULL, NEW m, m = send_data(l)
    PROVE  /\ Sound(m) /\ m.put_file = l.put_file
           /\ l.left = 0 => m = At(l, DONE)
           /\ l.left # 0 => /\ m.left = l.left - 1 /\ m.put_file_state = l.put_file_state
                            /\ m.left + 1 <= l.put_file.size
                            /\ Given(l, m, Data(l.put_file, l.put_file.size - m.left))
<1>1. l \in Link /\ l.left \in Nat /\ l.put_file \in Files /\ l.left <= l.put_file.size
  BY LinkFields DEF Sound
<1>2. l.put_file.size \in Nat
  BY <1>1, FileFields
<1>3. CASE l.left = 0
  <2>1. m = At(l, DONE)
    BY <1>3 DEF send_data, At
  <2>2. DONE \in States \ {0}
    BY DEF States
  <2> QED BY <1>3, <2>1, <2>2, AtIs
<1>4. CASE l.left # 0
  <2>1. PICK k \in Nat : k = l.left - 1
    BY <1>1, <1>4
  <2>2. PICK n : n = [l EXCEPT !.left = k]
    OBVIOUS
  <2>3. n \in Link /\ n.put_file = l.put_file /\ n.left = k
        /\ n.put_file_state = l.put_file_state
    BY <1>1, <2>1, <2>2 DEF Link
  <2>4. SameBuffer(l, n)
    BY <1>1, <2>2 DEF Link, SameBuffer
  <2>5. Sound(n)
    BY <1>1, <1>2, <2>1, <2>3, <2>4 DEF Sound, SameBuffer
  <2>6. PICK j \in Nat : j = l.put_file.size - k /\ j = l.put_file.size - l.left + 1
    BY <1>1, <1>2, <1>4, <2>1
  <2>7. PICK p \in Packet : p = Data(l.put_file, j)
    BY <1>1, PacketFields
  <2>8. m = Send(n, p)
    BY <1>1, <1>4, <2>1, <2>2, <2>6, <2>7 DEF send_data, Data
  <2>9. Given(n, m, p) /\ SameFile(n, m) /\ Sound(m)
    BY <2>5, <2>8, SendIs
  <2>10. m.put_file = l.put_file /\ m.left = k /\ m.put_file_state = l.put_file_state
    BY <2>3, <2>9 DEF SameFile
  <2>11. Given(l, m, p)
    BY <2>4, <2>9 DEF Given, SameBuffer
  <2> QED BY <1>1, <1>2, <1>4, <2>1, <2>6, <2>7, <2>9, <2>10, <2>11
<1> QED BY <1>3, <1>4

\* The steps of the transfer: what each waits for, and what follows.
LEMMA WantedIs ==
    ASSUME NEW l, Sound(l), NEW n, n = l.put_file_state, NEW in
    PROVE  /\ n \in {1, 17, 4, 20} => (Wanted(l, in) <=> in = "ack")
           /\ n \in {2, 18} => (Wanted(l, in) <=> in = "04")
           /\ n \in {3, 19} => (Wanted(l, in) <=> in = NULL)
           /\ n \in {5, 21} => (Wanted(l, in) <=> in = "FF 00")
           /\ n = 6 => ~Wanted(l, in)
<1>1. n \in Int /\ n = l.put_file_state /\ Step(l) = IF n < 16 THEN n ELSE n - 16
  BY Steps DEF Sound
<1>2. ASSUME n \in {1, 17, 4, 20} PROVE Wanted(l, in) <=> in = "ack"
  <2>1. Step(l) \in {1, 4} /\ Step(l) # 2 /\ Step(l) # 3 /\ Step(l) # 5
    BY <1>1, <1>2
  <2> QED BY <2>1, Zenon DEF Wanted
<1>3. ASSUME n \in {2, 18} PROVE Wanted(l, in) <=> in = "04"
  <2>1. Step(l) = 2 /\ Step(l) \notin {1, 4} /\ Step(l) # 3 /\ Step(l) # 5
    BY <1>1, <1>3
  <2> QED BY <2>1, Zenon DEF Wanted
<1>4. ASSUME n \in {3, 19} PROVE Wanted(l, in) <=> in = NULL
  <2>1. Step(l) = 3 /\ Step(l) \notin {1, 4} /\ Step(l) # 2 /\ Step(l) # 5
    BY <1>1, <1>4
  <2> QED BY <2>1, Zenon DEF Wanted
<1>5. ASSUME n \in {5, 21} PROVE Wanted(l, in) <=> in = "FF 00"
  <2>1. Step(l) = 5 /\ Step(l) \notin {1, 4} /\ Step(l) # 2 /\ Step(l) # 3
    BY <1>1, <1>5
  <2> QED BY <2>1, Zenon DEF Wanted
<1>6. ASSUME n = 6 PROVE ~Wanted(l, in)
  <2>1. Step(l) \notin {1, 4} /\ Step(l) # 2 /\ Step(l) # 3 /\ Step(l) # 5
    BY <1>1, <1>6
  <2> QED BY <2>1, Zenon DEF Wanted
<1> QED BY <1>2, <1>3, <1>4, <1>5, <1>6, Zenon

LEMMA AdvanceIs ==
    ASSUME NEW l, Sound(l), NEW n, n = l.put_file_state
    PROVE  /\ n = 1 => Advance(l) = At(l, 2)
           /\ n = 17 => Advance(l) = At(l, 18)
           /\ n = 2 => Advance(l) = At(l, 3)
           /\ n = 18 => Advance(l) = At(l, 19)
           /\ n = 3 => Advance(l) = send_data(At(l, 4))
           /\ n = 19 => Advance(l) = send_data(At(l, 20))
           /\ n = 4 => Advance(l) = send_data(l)
           /\ n = 20 => Advance(l) = At(l, 21)
           /\ n \in {5, 21} => Advance(l) = At(l, 3)
<1>1. n \in Int /\ n = l.put_file_state /\ Step(l) = IF n < 16 THEN n ELSE n - 16
  BY Steps DEF Sound
<1>2. ASSUME NEW k \in Int, k = n + 1 PROVE [l EXCEPT !.put_file_state = @ + 1] = At(l, k)
  BY <1>1, <1>2 DEF At
<1>3. ASSUME n \in {1, 2, 17, 18, 20}, NEW k \in Int, k = n + 1 PROVE Advance(l) = At(l, k)
  <2>1. Step(l) # 3 /\ Step(l) # 5 /\ ~(Step(l) = 4 /\ l.put_file_state < 16)
    BY <1>1, <1>3
  <2>2. Advance(l) = [l EXCEPT !.put_file_state = @ + 1]
    BY <2>1 DEF Advance
  <2> QED BY <1>2, <1>3, <2>2, Zenon
<1>4. ASSUME n \in {3, 19}, NEW k \in Int, k = n + 1 PROVE Advance(l) = send_data(At(l, k))
  <2>1. Step(l) = 3
    BY <1>1, <1>4
  <2>2. Advance(l) = send_data([l EXCEPT !.put_file_state = @ + 1])
    BY <2>1 DEF Advance
  <2> QED BY <1>2, <1>4, <2>2, Zenon
<1>5. ASSUME n = 4 PROVE Advance(l) = send_data(l)
  <2>1. Step(l) = 4 /\ l.put_file_state < 16
    BY <1>1, <1>5
  <2> QED BY <2>1 DEF Advance
<1>6. ASSUME n \in {5, 21} PROVE Advance(l) = At(l, 3)
  <2>1. Step(l) = 5
    BY <1>1, <1>6
  <2> QED BY <2>1 DEF Advance, At
<1> QED BY <1>1, <1>3, <1>4, <1>5, <1>6

\* put_file_next(): what was not awaited closes the file.
LEMMA NextIs ==
    ASSUME NEW l, Sound(l), NEW in, NEW m, m = put_file_next(l, in)
    PROVE  /\ l.put_file_state = 0 => m = l
           /\ l.put_file_state # 0 /\ Wanted(l, in) => m = Advance(l)
           /\ l.put_file_state # 0 /\ ~Wanted(l, in) => m = Close(l)
BY DEF put_file_next

LEMMA AdvanceIsSound ==
    ASSUME NEW l, Sound(l), l.put_file_state \notin {0, 6}, NEW m, m = Advance(l)
    PROVE  Sound(m)
<1>1. PICK n : n = l.put_file_state
  OBVIOUS
<1>2. l.put_file # NULL
  BY DEF Sound
<1>3. n \in {1, 2, 3, 4, 5, 17, 18, 19, 20, 21}
  BY <1>1, Steps DEF Sound
<1>4. /\ {2, 3, 4, 18, 19, 20, 21} \subseteq States \ {0}
  BY DEF States
<1>5. ASSUME NEW k \in {2, 3, 4, 18, 19, 20, 21}
      PROVE  Sound(At(l, k)) /\ At(l, k).put_file # NULL /\ Sound(send_data(At(l, k)))
  <2>1. Sound(At(l, k)) /\ At(l, k).put_file # NULL
    BY <1>2, <1>4, AtIs
  <2> QED BY <2>1, SendDataIs
<1>6. Sound(send_data(l))
  BY <1>2, SendDataIs
<1>7. \/ m = send_data(l)
      \/ \E k \in {2, 3, 4, 18, 19, 20, 21} : m = At(l, k) \/ m = send_data(At(l, k))
  BY <1>1, <1>3, AdvanceIs
<1> QED BY <1>5, <1>6, <1>7

LEMMA NextIsSound ==
    ASSUME NEW l, Sound(l), NEW in
    PROVE  Sound(put_file_next(l, in))
<1>1. PICK m : m = put_file_next(l, in)
  OBVIOUS
<1>2. CASE l.put_file_state = 0
  BY <1>1, <1>2, NextIs
<1>3. CASE l.put_file_state # 0 /\ Wanted(l, in)
  <2>1. l.put_file_state # 6
    BY <1>3, WantedIs
  <2> QED BY <1>1, <1>3, <2>1, NextIs, AdvanceIsSound
<1>4. CASE l.put_file_state # 0 /\ ~Wanted(l, in)
  BY <1>1, <1>4, NextIs, CloseIs
<1> QED BY <1>2, <1>3, <1>4

LEMMA SentIsSound ==
    ASSUME NEW l, Sound(l)
    PROVE  Sound(usblink_sent_packet(l))
BY NextIsSound DEF usblink_sent_packet

\* usblink_start_send() is usblink_send_packet(), and the end of sending.
LEMMA StartIs ==
    ASSUME NEW l, Sound(l), NEW p \in Packet, NEW m, m = Send(l, p)
    PROVE  /\ l.epsr = 0 => usblink_start_send(l, p) = m
           /\ l.epsr # 0 => usblink_start_send(l, p) = usblink_sent_packet(m)
           /\ Sound(usblink_start_send(l, p))
<1>1. l \in Link /\ l.epsr \in Nat
  BY LinkFields DEF Sound
<1>2. PICK b : b = Build(l, p)
  OBVIOUS
<1>3. b.epsr = l.epsr /\ b.sending = TRUE
  BY <1>1, <1>2 DEF Build, Link
<1>4. Sound(m)
  BY SendIs
<1>5. CASE l.epsr = 0
  <2>1. m = b
    BY <1>2, <1>3, <1>5 DEF Send
  <2>2. usblink_start_send(l, p) = b
    BY <1>2, <1>3, <1>5 DEF usblink_start_send
  <2> QED BY <1>4, <1>5, <2>1, <2>2
<1>6. CASE l.epsr # 0
  <2>1. m = Deliver(b) /\ b.epsr > 0
    BY <1>1, <1>2, <1>3, <1>6 DEF Send
  <2>2. usblink_start_send(l, p) = usblink_complete_send(b)
    BY <1>2, <2>1 DEF usblink_start_send
  <2>3. usblink_complete_send(b) = usblink_sent_packet(m)
    BY <1>3, <2>1 DEF usblink_complete_send
  <2> QED BY <1>4, <1>6, <2>2, <2>3, SentIsSound
<1> QED BY <1>5, <1>6

\* An endpoint is primed: the packet that waits goes.
Primed(l) == [l EXCEPT !.epsr = @ + 1]
Gone(l)   == [l EXCEPT !.inbox = Append(@, l.buf), !.sending = FALSE]

LEMMA GoneIs ==
    ASSUME NEW l, Sound(l), l.sending
    PROVE  /\ Sound(Gone(l)) /\ SameFile(l, Gone(l)) /\ Gone(l).buf = l.buf
           /\ Gone(l).sending = FALSE /\ Gone(l).epsr = 0
           /\ Gone(l).inbox = Append(l.inbox, l.buf) /\ Gone(l).lost = l.lost
<1>1. l \in Link /\ l.epsr = 0
  BY DEF Sound
<1>2. PICK m : m = Gone(l)
  OBVIOUS
<1>3. Append(l.inbox, l.buf) \in Seq(Packet)
  BY <1>1, LinkFields
<1>4. m \in Link /\ m.buf = l.buf /\ m.sending = FALSE /\ m.epsr = 0 /\ m.lost = l.lost
      /\ m.inbox = Append(l.inbox, l.buf) /\ m.put_file = l.put_file /\ m.left = l.left
      /\ m.put_file_state = l.put_file_state
  BY <1>1, <1>2, <1>3 DEF Gone, Link
<1> QED BY <1>2, <1>4 DEF Sound, SameFile

LEMMA PrimeIs ==
    ASSUME NEW l, Sound(l), l.epsr < Buffers,
           NEW m, m = usblink_complete_send([l EXCEPT !.epsr = @ + 1])
    PROVE  /\ l.sending => m = usblink_sent_packet(Gone(l))
           /\ ~l.sending => m = Primed(l) /\ SameFile(l, m) /\ m.buf = l.buf
                            /\ m.inbox = l.inbox /\ m.lost = l.lost /\ ~m.sending
           /\ Sound(m)
<1>1. l \in Link /\ l.epsr \in Nat /\ l.epsr + 1 \in 0 .. Buffers
  BY LinkFields DEF Sound
<1>2. PICK k \in Nat : k = l.epsr + 1
  BY <1>1
<1>3. PICK n : n = Primed(l)
  OBVIOUS
<1>4. n = [l EXCEPT !.epsr = k]
  BY <1>2, <1>3 DEF Primed
<1>5. m = usblink_complete_send(n)
  BY <1>3 DEF Primed
<1>6. /\ n \in Link /\ n.epsr = k /\ n.sending = l.sending /\ n.buf = l.buf
      /\ n.inbox = l.inbox /\ n.lost = l.lost /\ SameFile(l, n)
  BY <1>1, <1>2, <1>4 DEF Link, SameFile
<1>7. CASE ~l.sending
  <2>1. m = n
    BY <1>5, <1>6, <1>7 DEF usblink_complete_send
  <2>2. Sound(n)
    BY <1>6, <1>7 DEF Sound, SameFile
  <2> QED BY <1>3, <1>6, <1>7, <2>1, <2>2
<1>8. CASE l.sending
  <2>1. l.epsr = 0 /\ k = 1
    BY <1>2, <1>8 DEF Sound
  <2>2. Deliver(n) = Gone(l)
    <3>1. Deliver(n) = [n EXCEPT !.inbox = Append(l.inbox, l.buf), !.epsr = 0, !.sending = FALSE]
      BY <1>6, <2>1 DEF Deliver
    <3>2. Gone(l) = [l EXCEPT !.inbox = Append(l.inbox, l.buf), !.sending = FALSE]
      BY DEF Gone
    <3>0. Append(l.inbox, l.buf) \in Seq(Packet)
      <4>1. l.inbox \in Seq(Packet) /\ l.buf \in Packet
        BY <1>1, LinkFields
      <4> QED BY <4>1
    <3>3. PICK q \in Seq(Packet) : q = Append(l.inbox, l.buf)
      BY <3>0
    <3>4. l.epsr = 0 /\ n.epsr = 1 /\ n = [l EXCEPT !.epsr = 1]
      BY <1>4, <1>6, <2>1
    <3>5. [n EXCEPT !.inbox = q, !.epsr = 0, !.sending = FALSE]
            = [l EXCEPT !.inbox = q, !.sending = FALSE]
      BY <1>1, <3>3, <3>4 DEF Link
    <3> QED BY <3>1, <3>2, <3>3, <3>5
  <2>3. m = usblink_sent_packet(Gone(l))
    BY <1>5, <1>6, <1>8, <2>2 DEF usblink_complete_send
  <2> QED BY <1>8, <2>3, GoneIs, SentIsSound
<1> QED BY <1>7, <1>8

Message == [kind : {"ack", "04", "no", "FF 00", "address", "other"},
            src : Services \cup {"other"}]

LEMMA ReceivedIs ==
    ASSUME NEW l, Sound(l), NEW in \in Message,
           NEW n, n = IF in.src \in Services THEN put_file_next(l, in.kind) ELSE l,
           NEW m, m = usblink_received_packet(l, in)
    PROVE  /\ Sound(n) /\ Sound(m)
           /\ in.kind = "address" => m = Send(n, Address)
           /\ in.kind = "ack" => m = n
           /\ in.kind \notin {"address", "ack"} => m = usblink_start_send(n, Ack(in.src))
<1>1. Sound(n)
  BY NextIsSound
<1>2. in.src \in Services \cup {"other"}
  BY DEF Message
<1>3. Address \in Packet /\ Ack(in.src) \in Packet
  BY <1>2, PacketFields
<1>4. CASE in.kind = "address"
  <2>1. m = Send(n, Address)
    BY <1>4 DEF usblink_received_packet, Address
  <2> QED BY <1>1, <1>3, <1>4, <2>1, SendIs
<1>5. CASE in.kind = "ack"
  <2>1. m = n
    BY <1>5 DEF usblink_received_packet
  <2> QED BY <1>1, <1>5, <2>1
<1>6. CASE in.kind \notin {"address", "ack"}
  <2>1. m = usblink_start_send(n, Ack(in.src))
    BY <1>6 DEF usblink_received_packet
  <2>2. Sound(m)
    BY <1>1, <1>3, <2>1, StartIs
  <2> QED BY <1>1, <1>6, <2>1, <2>2
<1> QED BY <1>4, <1>5, <1>6

LEMMA PutIs ==
    ASSUME NEW l, Sound(l), NEW f \in Files, NEW m, m = put(l, f)
    PROVE  /\ Sound(m) /\ m.put_file = f /\ m.left = f.size
           /\ m.put_file_state = IF f.port = "os" THEN 17 ELSE 1
           /\ m.buf = Start(f) /\ (m.sending <=> l.epsr = 0) /\ ~m.lost
           /\ m.inbox = IF l.epsr = 0 THEN l.inbox ELSE Append(l.inbox, Start(f))
<1>1. l \in Link
  BY DEF Sound
<1>2. f.size \in Nat /\ f # NULL /\ Start(f) \in Packet
  BY FileFields, PacketFields
<1>3. PICK n \in States \ {0} : n = IF f.port = "os" THEN 17 ELSE 1
  BY DEF States
<1>4. PICK k : k = [l EXCEPT !.put_file = f, !.left = f.size, !.put_file_state = n]
  OBVIOUS
<1>5. /\ k \in Link /\ k.put_file = f /\ k.left = f.size /\ k.put_file_state = n
      /\ SameBuffer(l, k)
  BY <1>1, <1>2, <1>3, <1>4 DEF Link, SameBuffer
<1>6. Sound(k)
  BY <1>2, <1>3, <1>5 DEF Sound, SameBuffer
<1>7. PICK j : j = Send(k, Start(f))
  OBVIOUS
<1>8. Given(k, j, Start(f)) /\ SameFile(k, j) /\ Sound(j)
  BY <1>2, <1>6, <1>7, SendIs
<1>9. m = [j EXCEPT !.lost = FALSE]
  BY <1>3, <1>4, <1>7 DEF put, Start
<1>10. /\ m \in Link /\ SameFile(j, m) /\ m.buf = j.buf /\ m.sending = j.sending
       /\ m.epsr = j.epsr /\ m.inbox = j.inbox /\ m.lost = FALSE
  BY <1>8, <1>9 DEF Sound, Link, SameFile
<1>11. Sound(m)
  BY <1>8, <1>10 DEF Sound, SameFile
<1>12. /\ m.put_file = f /\ m.left = f.size /\ m.put_file_state = n
  BY <1>5, <1>8, <1>10 DEF SameFile
<1>13. /\ m.buf = Start(f) /\ (m.sending <=> l.epsr = 0)
       /\ m.inbox = IF l.epsr = 0 THEN l.inbox ELSE Append(l.inbox, Start(f))
  BY <1>5, <1>8, <1>10 DEF Given, SameBuffer
<1> QED BY <1>3, <1>10, <1>11, <1>12, <1>13

----------------------------------------------------------------------------
(***************************************************************************)
(* The types of the state.                                                 *)
(***************************************************************************)

Typed ==
    /\ Sound(link)
    /\ outbox \in Seq(Message)
    /\ rx \in Files \cup {NULL} /\ stored \in Seq(Nat \X Nat)
    /\ usblink_state \in 0 .. 3
    /\ usb \in {"off", "default", "addressed", "configured"}
    /\ setup \in {NULL, "SET_ADDRESS", "SET_CONFIGURATION"}

LEMMA TypedInit == Init => Typed
<1> SUFFICES ASSUME Init PROVE Typed
  OBVIOUS
<1>1. Ack("other") \in Packet /\ 0 \in States /\ 0 \in 0 .. Buffers
  <2>1. Buffers \in 1 .. 3
    BY UsbAssumption, Zenon
  <2> QED BY <2>1, PacketFields DEF States
<1>2. link \in Link
  BY <1>1 DEF Init, Link
<1>3. Sound(link)
  BY <1>2 DEF Init, Sound
<1> QED BY <1>3 DEF Init, Typed

Said(kind, service) == [kind |-> kind, src |-> service]

LEMMA Empty == ASSUME NEW S PROVE \E e \in Seq(S) : e = <<>>
<1>1. <<>> \in Seq(S)
  OBVIOUS
<1> QED BY <1>1, Zenon

LEMMA Appended ==
    ASSUME NEW S, NEW o \in Seq(S), NEW x \in S, NEW y \in S
    PROVE  /\ o \o <<x>> = Append(o, x) /\ o \o <<x, y>> = Append(Append(o, x), y)
           /\ Append(o, x) \in Seq(S) /\ Append(Append(o, x), y) \in Seq(S)
           /\ o \o <<x>> \in Seq(S) /\ o \o <<x, y>> \in Seq(S)
OBVIOUS

\* The calculator's answers to a packet are messages.
LEMMA ReplyIs ==
    ASSUME NEW service, NEW a, NEW b
    PROVE  /\ Reply(service, <<a>>) => outbox' = outbox \o <<Said(a, service)>>
           /\ Reply(service, <<a, b>>) => outbox' = outbox \o <<Said(a, service), Said(b, service)>>
<1>1. [k \in DOMAIN <<a>> |-> [kind |-> <<a>>[k], src |-> service]] = <<Said(a, service)>>
  <2>1. DOMAIN <<a>> = {1} /\ <<a>>[1] = a
    OBVIOUS
  <2> QED BY <2>1 DEF Said
<1>2. [k \in DOMAIN <<a, b>> |-> [kind |-> <<a, b>>[k], src |-> service]]
        = <<Said(a, service), Said(b, service)>>
  <2>1. DOMAIN <<a, b>> = 1 .. 2 /\ <<a, b>>[1] = a /\ <<a, b>>[2] = b
    OBVIOUS
  <2> QED BY <2>1 DEF Said
<1> QED BY <1>1, <1>2 DEF Reply

LEMMA RepliesTyped ==
    ASSUME outbox \in Seq(Message), NEW service \in Services,
           NEW a \in {"ack", "04", "no", "FF 00"}, NEW b \in {"ack", "04", "no", "FF 00"},
           Reply(service, <<a>>) \/ Reply(service, <<a, b>>)
    PROVE  outbox' \in Seq(Message)
<1>1. Said(a, service) \in Message /\ Said(b, service) \in Message
  BY DEF Said, Message
<1>2. /\ outbox \o <<Said(a, service)>> \in Seq(Message)
      /\ outbox \o <<Said(a, service), Said(b, service)>> \in Seq(Message)
  BY <1>1, Appended
<1> QED BY <1>2, ReplyIs

LEMMA CommandIs ==
    ASSUME NEW p \in Packet
    PROVE  /\ p.kind = "03" => \E f \in Files : p = Start(f)
           /\ p.kind = "05" => \E f \in Files, k \in Nat : p = Data(f, k)
           /\ p.kind \notin {"03", "05"} => p.kind \in {"ack", "address"}
<1>1. CASE \E s \in Services \cup {"other"} : p = Ack(s)
  <2>1. p.kind = "ack"
    BY <1>1, PacketFields
  <2> QED BY <2>1
<1>2. CASE p = Address
  <2>1. p.kind = "address"
    BY <1>2, PacketFields
  <2> QED BY <2>1
<1>3. CASE \E f \in Files : p = Start(f)
  <2>1. p.kind = "03"
    BY <1>3, PacketFields
  <2> QED BY <1>3, <2>1
<1>4. CASE \E f \in Files, k \in Nat : p = Data(f, k)
  <2>1. p.kind = "05"
    BY <1>4, PacketFields
  <2> QED BY <1>4, <2>1
<1> QED BY <1>1, <1>2, <1>3, <1>4, PacketKinds

\* The endpoints lose what they have, and the packet that waits keeps waiting.
Emptied(l, m, b) ==
    /\ SameFile(l, m) /\ m.buf = l.buf /\ m.sending = l.sending
    /\ m.epsr = 0 /\ m.inbox = <<>> /\ (m.lost <=> b)

LEMMA EmptyIs ==
    ASSUME NEW l, Sound(l), NEW b \in BOOLEAN,
           NEW m, m = [l EXCEPT !.epsr = 0, !.inbox = <<>>, !.lost = b]
    PROVE  Sound(m) /\ Emptied(l, m, b)
<1>1. l \in Link /\ 0 \in 0 .. Buffers
  <2>1. Buffers \in Nat
    BY LinkFields DEF Sound
  <2> QED BY <2>1 DEF Sound
<1>e. PICK e \in Seq(Packet) : e = <<>>
  BY Empty
<1>2. /\ m \in Link /\ m.buf = l.buf /\ m.sending = l.sending /\ m.epsr = 0
      /\ m.inbox = <<>> /\ m.lost = b /\ SameFile(l, m)
  BY <1>1, <1>e DEF Link, SameFile
<1> QED BY <1>2 DEF Sound, SameFile, Emptied

LEMMA UnprimeIs ==
    ASSUME NEW l, Sound(l)
    PROVE  \E b \in BOOLEAN :
              /\ b = (l.lost \/ (Busy(l) /\ ~(l.sending /\ l.buf.kind = "03")))
              /\ Unprime(l) = [l EXCEPT !.epsr = 0, !.inbox = <<>>, !.lost = b]
              /\ Sound(Unprime(l))
<1>1. PICK b \in BOOLEAN : b = (l.lost \/ (Busy(l) /\ ~(l.sending /\ l.buf.kind = "03")))
  OBVIOUS
<1>2. Unprime(l) = [l EXCEPT !.epsr = 0, !.inbox = <<>>, !.lost = b]
  BY <1>1 DEF Unprime
<1>3. Sound(Unprime(l))
  BY <1>2, EmptyIs
<1> QED BY <1>1, <1>2, <1>3

LEMMA ResetIs ==
    ASSUME NEW l, Sound(l),
           NEW m, m = [Close(l) EXCEPT !.sending = FALSE, !.epsr = 0,
                                       !.inbox = <<>>, !.lost = FALSE]
    PROVE  /\ Sound(m) /\ m.put_file_state = 0 /\ m.sending = FALSE
           /\ m.inbox = <<>> /\ m.lost = FALSE
<1>1. PICK c : c = Close(l)
  OBVIOUS
<1>2. c \in Link /\ c.put_file_state = 0 /\ c.put_file = NULL /\ 0 \in 0 .. Buffers
  <2>1. Sound(c) /\ c.put_file_state = 0
    BY <1>1, CloseIs
  <2>2. c \in Link
    BY <2>1 DEF Sound
  <2>3. Buffers \in Nat
    BY <2>2, LinkFields
  <2> QED BY <2>1, <2>2, <2>3 DEF Sound
<1>e. PICK e \in Seq(Packet) : e = <<>>
  BY Empty
<1>3. /\ m \in Link /\ m.put_file_state = 0 /\ m.put_file = NULL
      /\ m.sending = FALSE /\ m.inbox = <<>> /\ m.lost = FALSE
  BY <1>1, <1>2, <1>e DEF Link
<1> QED BY <1>3 DEF Sound

\* EPFLUSH.
LEMMA FlushIs ==
    ASSUME NEW l, Sound(l), NEW m, m = [l EXCEPT !.epsr = 0]
    PROVE  /\ Sound(m) /\ SameFile(l, m) /\ m.buf = l.buf /\ m.sending = l.sending
           /\ m.inbox = l.inbox /\ m.lost = l.lost
<1>1. l \in Link /\ 0 \in 0 .. Buffers
  <2>1. Buffers \in Nat
    BY LinkFields DEF Sound
  <2> QED BY <2>1 DEF Sound
<1>2. /\ m \in Link /\ m.buf = l.buf /\ m.sending = l.sending /\ m.epsr = 0
      /\ m.inbox = l.inbox /\ m.lost = l.lost /\ SameFile(l, m)
  BY <1>1 DEF Link, SameFile
<1> QED BY <1>2 DEF Sound, SameFile

\* The calculator takes a packet from its buffer.
LEMMA TakeIs ==
    ASSUME NEW l, Sound(l), l.inbox # <<>>, NEW m, m = [l EXCEPT !.inbox = Tail(@)]
    PROVE  /\ Sound(m) /\ SameFile(l, m) /\ m.buf = l.buf /\ m.sending = l.sending
           /\ m.inbox = Tail(l.inbox) /\ m.lost = l.lost
           /\ Head(l.inbox) \in Packet
<1>1. l \in Link /\ Tail(l.inbox) \in Seq(Packet) /\ Head(l.inbox) \in Packet
  <2>1. l.inbox \in Seq(Packet)
    BY LinkFields DEF Sound
  <2>2. Tail(l.inbox) \in Seq(Packet) /\ Head(l.inbox) \in Packet
    BY <2>1
  <2> QED BY <2>2 DEF Sound
<1>2. /\ m \in Link /\ m.buf = l.buf /\ m.sending = l.sending /\ m.epsr = l.epsr
      /\ m.inbox = Tail(l.inbox) /\ m.lost = l.lost /\ SameFile(l, m)
  BY <1>1 DEF Link, SameFile
<1> QED BY <1>1, <1>2 DEF Sound, SameFile

LEMMA ForgetTyped ==
    ASSUME Typed, Forget
    PROVE  /\ outbox' = <<>> /\ setup' = NULL
           /\ outbox' \in Seq(Message)
           /\ rx' \in Files \cup {NULL} /\ stored' \in Seq(Nat \X Nat)
<1>1. <<>> \in Seq(Message) /\ <<>> \in Seq(Nat \X Nat)
  BY Empty
<1>2. CASE rx # NULL /\ Len(stored) < rx.size
  BY <1>1, <1>2 DEF Forget
<1>3. CASE ~(rx # NULL /\ Len(stored) < rx.size)
  BY <1>1, <1>3 DEF Forget, Typed
<1> QED BY <1>2, <1>3

LEMMA ProcessTyped ==
    ASSUME Typed, Process
    PROVE  Typed'
<1>1. PICK p : p = Head(link.inbox)
  OBVIOUS
<1>2. Sound(link) /\ link.inbox # <<>> /\ link' = [link EXCEPT !.inbox = Tail(@)]
  BY DEF Typed, Process
<1>3. Sound(link') /\ p \in Packet
  BY <1>1, <1>2, TakeIs
<1>4. PICK kinds : kinds = {"ack", "04", "no", "FF 00"}
  OBVIOUS
<1>5. ASSUME p.kind \in {"03", "05"} PROVE p.dst \in Services
  <2>1. (\E f \in Files : p = Start(f)) \/ (\E f \in Files, k \in Nat : p = Data(f, k))
    BY <1>3, <1>5, CommandIs
  <2> QED BY <2>1, PacketFields, FileFields
<1>6. outbox \in Seq(Message) /\ rx \in Files \cup {NULL} /\ stored \in Seq(Nat \X Nat)
  BY DEF Typed
<1>7. UNCHANGED <<usblink_state, usb, setup>>
  BY DEF Process
<1>8. /\ outbox' \in Seq(Message) /\ rx' \in Files \cup {NULL}
      /\ stored' \in Seq(Nat \X Nat)
  <2>1. CASE /\ p.kind = "03"
             /\ rx' = p.data[1] /\ stored' = <<>>
             /\ Reply(p.dst, <<"ack", "04">>)
    <3>1. PICK f \in Files : p = Start(f)
      BY <1>3, <2>1, CommandIs
    <3>2. p.data[1] = f
      BY <3>1, PacketFields
    <3>3. stored' \in Seq(Nat \X Nat)
      BY <2>1, Empty
    <3>4. outbox' \in Seq(Message)
      BY <1>5, <1>6, <2>1, RepliesTyped
    <3> QED BY <2>1, <3>2, <3>3, <3>4
  <2>2. CASE /\ p.kind = "03"
             /\ Reply(p.dst, <<"ack", "no">>)
             /\ UNCHANGED <<rx, stored>>
    <3>1. outbox' \in Seq(Message)
      BY <1>5, <1>6, <2>2, RepliesTyped
    <3> QED BY <1>6, <2>2, <3>1
  <2>3. CASE /\ p.kind = "05" /\ Incomplete
             /\ stored' = Append(stored, p.data)
             /\ IF p.dst = "os" /\ stored = <<>>
                THEN \/ Reply(p.dst, <<"ack", "FF 00">>) /\ rx' = rx
                     \/ Reply(p.dst, <<"ack", "no">>) /\ rx' = NULL
                ELSE Reply(p.dst, <<"ack">>) /\ rx' = rx
    <3>1. PICK f \in Files, k \in Nat : p = Data(f, k)
      BY <1>3, <2>3, CommandIs
    <3>2. p.data \in Nat \X Nat
      <4>1. p.data = <<f.id, k>> /\ f.id \in Nat
        BY <3>1, PacketFields, FileFields
      <4> QED BY <4>1
    <3>3. stored' \in Seq(Nat \X Nat)
      BY <1>6, <2>3, <3>2, Appended
    <3>4. \/ Reply(p.dst, <<"ack", "FF 00">>) /\ rx' = rx
          \/ Reply(p.dst, <<"ack", "no">>) /\ rx' = NULL
          \/ Reply(p.dst, <<"ack">>) /\ rx' = rx
      BY <2>3, Zenon
    <3>5. outbox' \in Seq(Message)
      BY <1>5, <1>6, <2>3, <3>4, RepliesTyped
    <3> QED BY <1>6, <3>3, <3>4, <3>5
  <2>4. CASE UNCHANGED <<outbox, rx, stored>>
    BY <1>6, <2>4
  <2> QED BY <1>1, <2>1, <2>2, <2>3, <2>4 DEF Process
<1> QED BY <1>3, <1>7, <1>8 DEF Typed

LEMMA TransmitTyped ==
    ASSUME Typed, Transmit
    PROVE  Typed'
<1>1. Sound(link) /\ outbox \in Seq(Message) /\ outbox # <<>>
  BY DEF Typed, Transmit
<1>2. PICK in \in Message : in = Head(outbox)
  BY <1>1
<1>3. link' = usblink_received_packet(link, in) /\ outbox' = Tail(outbox)
      /\ UNCHANGED <<usblink_state, usb, setup, rx, stored>>
  BY <1>2 DEF Transmit
<1>4. Sound(link')
  BY <1>1, <1>3, ReceivedIs
<1>5. outbox' \in Seq(Message)
  BY <1>1, <1>3
<1> QED BY <1>3, <1>4, <1>5 DEF Typed

LEMMA AnswerTyped ==
    ASSUME Typed, Answer
    PROVE  Typed'
<1>1. /\ setup' \in {NULL, "SET_ADDRESS", "SET_CONFIGURATION"} /\ usblink_state' \in 0 .. 3
      /\ usb' \in {"off", "default", "addressed", "configured"}
  BY DEF Answer, Typed
<1>2. Said("address", "other") \in Message
  BY DEF Said, Message
<1>3. \/ outbox' = Append(outbox, Said("address", "other")) \/ outbox' = outbox
  BY DEF Answer, Said
<1>4. outbox' \in Seq(Message)
  <2>1. outbox \in Seq(Message)
    BY DEF Typed
  <2>2. Append(outbox, Said("address", "other")) \in Seq(Message)
    BY <1>2, <2>1, Appended
  <2> QED BY <1>3, <2>1, <2>2
<1> QED BY <1>1, <1>4 DEF Answer, Typed

LEMMA TypedNext == Typed /\ [Next]_vars => Typed'
<1> SUFFICES ASSUME Typed, [Next]_vars PROVE Typed'
  OBVIOUS
<1>0. Sound(link) /\ outbox \in Seq(Message)
  BY DEF Typed
<1>1. ASSUME NEW f \in Files, Put(f) PROVE Typed'
  <2>1. Sound(link')
    BY <1>0, <1>1, PutIs DEF Put
  <2> QED BY <1>1, <2>1 DEF Put, Typed, calcVars
<1>2. ASSUME usblink_connect PROVE Typed'
  BY <1>2 DEF usblink_connect, Typed, calcVars
<1>3. ASSUME Reset PROVE Typed'
  <2>1. Sound(link')
    BY <1>0, <1>3, ResetIs DEF Reset
  <2>2. Forget /\ usblink_state' = 0 /\ usb' = "off"
    BY <1>3 DEF Reset
  <2> QED BY <2>1, <2>2, ForgetTyped DEF Typed
<1>4. ASSUME usblink_timer PROVE Typed'
  <2>1. CASE usblink_state' = 2 /\ usb' = "default" /\ Forget /\ link' = Unprime(link)
    <3>1. Sound(link')
      BY <1>0, <2>1, UnprimeIs
    <3> QED BY <2>1, <3>1, ForgetTyped DEF Typed
  <2>2. CASE /\ usblink_state' = 3 /\ setup' = "SET_ADDRESS"
             /\ UNCHANGED <<link, usb, outbox, rx, stored>>
    BY <2>2 DEF Typed
  <2> QED BY <1>4, <2>1, <2>2 DEF usblink_timer
<1>5. ASSUME Answer PROVE Typed'
  BY <1>5, AnswerTyped
<1>6. ASSUME Prime PROVE Typed'
  <2>1. link' = usblink_complete_send([link EXCEPT !.epsr = @ + 1]) /\ link.epsr < Buffers
    <3>1. link.epsr \in Nat /\ Len(link.inbox) \in Nat /\ Buffers \in Nat
      <4>1. link \in Link
        BY <1>0 DEF Sound
      <4>2. link.inbox \in Seq(Packet)
        BY <4>1, LinkFields
      <4> QED BY <4>1, <4>2, LinkFields
    <3>2. link.epsr + Len(link.inbox) < Buffers
      BY <1>6 DEF Prime
    <3>3. link.epsr < Buffers
      BY <3>1, <3>2
    <3> QED BY <1>6, <3>3 DEF Prime
  <2>2. Sound(link')
    BY <1>0, <2>1, PrimeIs
  <2> QED BY <1>6, <2>2 DEF Prime, Typed, calcVars
<1>7. ASSUME Flush PROVE Typed'
  <2>1. Sound(link')
    BY <1>0, <1>7, FlushIs DEF Flush
  <2> QED BY <1>7, <2>1 DEF Flush, Typed, calcVars
<1>8. ASSUME Transmit PROVE Typed'
  BY <1>8, TransmitTyped
<1>9. ASSUME SendOther PROVE Typed'
  <2>1. outbox' = Append(outbox, Said("other", "other"))
        /\ UNCHANGED <<link, usblink_state, usb, setup, rx, stored>>
    BY <1>9 DEF SendOther, Said
  <2>2. Said("other", "other") \in Message
    BY DEF Said, Message
  <2>3. outbox' \in Seq(Message)
    BY <1>0, <2>1, <2>2, Appended
  <2> QED BY <2>1, <2>3 DEF Typed
<1>10. ASSUME Process PROVE Typed'
  BY <1>10, ProcessTyped
<1>11. ASSUME usb_reset PROVE Typed'
  <2>1. Sound(link')
    BY <1>0, <1>11, UnprimeIs DEF usb_reset
  <2>2. Forget /\ usblink_state' = usblink_state /\ usb' = "off"
    BY <1>11 DEF usb_reset
  <2> QED BY <2>1, <2>2, ForgetTyped DEF Typed
<1>12. CASE UNCHANGED vars
  BY <1>12 DEF vars, calcVars, Typed
<1> QED BY <1>1, <1>2, <1>3, <1>4, <1>5, <1>6, <1>7, <1>8, <1>9, <1>10, <1>11, <1>12 DEF Next

\* Whatever is sent and whenever the connection or the machine is reset, the file is
\* open exactly while a transfer may read or close it (usblink.c), and a packet
\* waits in the buffer only while no endpoint is primed.
THEOREM UsbTypes == Spec => []TypeOK
<1>1. Spec => []Typed
  BY TypedInit, TypedNext, PTL DEF Spec
<1>2. Typed => TypeOK
  <2> SUFFICES ASSUME Typed PROVE TypeOK
    OBVIOUS
  <2>1. link \in Link
    BY DEF Typed, Sound
  <2>2. link.put_file_state \in 0 .. 6 \cup {16 + s : s \in 1 .. 5}
    BY <2>1, LinkFields DEF States
  <2> QED BY <2>1, <2>2, LinkFields DEF Typed, Sound, TypeOK
<1> QED BY <1>1, <1>2, PTL

----------------------------------------------------------------------------
(***************************************************************************)
(* What is under way: the packets that are with the calculator, and its    *)
(* answers.                                                                *)
(***************************************************************************)

Command(p) == p.kind \in {"03", "05"}

\* The file r, of which s is stored, is not complete.
Short(r, s) == r # NULL /\ Len(s) < r.size

\* The calculator will make nothing of p.
Stale(p, r, s) == p.kind # "03" /\ (p.kind = "05" => ~Short(r, s))

AllStale(in, r, s) == \A i \in 1 .. Len(in) : Stale(in[i], r, s)
NoCommands(in) == \A i \in 1 .. Len(in) : ~Command(in[i])

\* The calculator has yet to read p, then nothing that matters.
Holds(in, p, r, s) ==
    \E n \in 1 .. Len(in) :
       /\ in[n] = p
       /\ \A i \in 1 .. Len(in) : i < n => Stale(in[i], r, s)
       /\ \A i \in 1 .. Len(in) : i > n => ~Command(in[i])

LEMMA InboxGrows ==
    ASSUME NEW in \in Seq(Packet), NEW r, NEW s, NEW e \in Packet
    PROVE  /\ NoCommands(in) => AllStale(in, r, s)
           /\ ~Command(e) => Stale(e, r, s)
           /\ ~Command(e) /\ NoCommands(in) => NoCommands(Append(in, e))
           /\ Stale(e, r, s) /\ AllStale(in, r, s) => AllStale(Append(in, e), r, s)
           /\ AllStale(in, r, s) => Holds(Append(in, e), e, r, s)
           /\ \A p : ~Command(e) /\ Holds(in, p, r, s) => Holds(Append(in, e), p, r, s)
<1>1. PICK n \in Nat : n = Len(in)
  OBVIOUS
<1>2. PICK a \in Seq(Packet) : a = Append(in, e)
  <2>1. Append(in, e) \in Seq(Packet)
    BY Appended
  <2> QED BY <2>1, Zenon
<1>3. Len(a) = n + 1 /\ a[n + 1] = e /\ \A i \in 1 .. n : a[i] = in[i]
  BY <1>1, <1>2
<1>4. \A p : ~Command(p) => Stale(p, r, s)
  BY DEF Command, Stale
<1>5. NoCommands(in) => AllStale(in, r, s)
  BY <1>4 DEF NoCommands, AllStale
<1>6. ~Command(e) /\ NoCommands(in) => NoCommands(a)
  BY <1>1, <1>3 DEF NoCommands
<1>7. Stale(e, r, s) /\ AllStale(in, r, s) => AllStale(a, r, s)
  BY <1>1, <1>3 DEF AllStale
<1>8. ASSUME AllStale(in, r, s) PROVE Holds(a, e, r, s)
  <2>1. n + 1 \in 1 .. Len(a)
    BY <1>3
  <2>2. \A i \in 1 .. Len(a) : i < n + 1 => Stale(a[i], r, s)
    BY <1>1, <1>3, <1>8 DEF AllStale
  <2>3. \A i \in 1 .. Len(a) : ~(i > n + 1)
    BY <1>3
  <2> QED BY <1>3, <2>1, <2>2, <2>3 DEF Holds
<1>9. ASSUME NEW p, ~Command(e), Holds(in, p, r, s) PROVE Holds(a, p, r, s)
  <2>1. PICK k \in 1 .. n : /\ in[k] = p
                            /\ \A i \in 1 .. n : i < k => Stale(in[i], r, s)
                            /\ \A i \in 1 .. n : i > k => ~Command(in[i])
    BY <1>1, <1>9 DEF Holds
  <2>2. k \in 1 .. Len(a) /\ a[k] = p
    BY <1>3, <2>1
  <2>3. \A i \in 1 .. Len(a) : i < k => Stale(a[i], r, s)
    BY <1>3, <2>1
  <2>4. \A i \in 1 .. Len(a) : i > k => ~Command(a[i])
    BY <1>3, <1>9, <2>1
  <2> QED BY <2>2, <2>3, <2>4 DEF Holds
<1> QED BY <1>2, <1>4, <1>5, <1>6, <1>7, <1>8, <1>9

LEMMA InboxShrinks ==
    ASSUME NEW in \in Seq(Packet), in # <<>>, NEW r, NEW s
    PROVE  /\ NoCommands(in) => ~Command(Head(in)) /\ NoCommands(Tail(in))
           /\ AllStale(in, r, s) => Stale(Head(in), r, s) /\ AllStale(Tail(in), r, s)
           /\ \A p : Holds(in, p, r, s) =>
                 \/ Head(in) = p /\ NoCommands(Tail(in))
                 \/ Stale(Head(in), r, s) /\ Holds(Tail(in), p, r, s)
<1>1. PICK n \in Nat : n + 1 = Len(in)
  <2>1. Len(in) \in Nat /\ Len(in) # 0
    OBVIOUS
  <2> QED BY <2>1
<1>2. PICK t \in Seq(Packet) : t = Tail(in)
  <2>1. Tail(in) \in Seq(Packet)
    OBVIOUS
  <2> QED BY <2>1, Zenon
<1>3. Len(t) = n /\ Head(in) = in[1] /\ \A i \in 1 .. n : t[i] = in[i + 1]
  BY <1>1, <1>2
<1>4. NoCommands(in) => ~Command(Head(in)) /\ NoCommands(t)
  BY <1>1, <1>3 DEF NoCommands
<1>5. AllStale(in, r, s) => Stale(Head(in), r, s) /\ AllStale(t, r, s)
  BY <1>1, <1>3 DEF AllStale
<1>6. ASSUME NEW p, Holds(in, p, r, s)
      PROVE  \/ Head(in) = p /\ NoCommands(t)
             \/ Stale(Head(in), r, s) /\ Holds(t, p, r, s)
  <2>1. PICK k \in 1 .. n + 1 :
           /\ in[k] = p
           /\ \A i \in 1 .. n + 1 : i < k => Stale(in[i], r, s)
           /\ \A i \in 1 .. n + 1 : i > k => ~Command(in[i])
    BY <1>1, <1>6 DEF Holds
  <2>2. CASE k = 1
    <3>1. NoCommands(t)
      BY <1>3, <2>1, <2>2 DEF NoCommands
    <3> QED BY <1>3, <2>1, <2>2, <3>1
  <2>3. CASE k # 1
    <3>1. PICK j \in 1 .. n : k = j + 1
      BY <2>1, <2>3
    <3>2. Stale(Head(in), r, s)
      BY <1>3, <2>1, <3>1
    <3>3. t[j] = p
      BY <1>3, <2>1, <3>1
    <3>4. \A i \in 1 .. n : i < j => Stale(t[i], r, s)
      BY <1>3, <2>1, <3>1
    <3>5. \A i \in 1 .. n : i > j => ~Command(t[i])
      BY <1>3, <2>1, <3>1
    <3> QED BY <1>3, <3>1, <3>2, <3>3, <3>4, <3>5 DEF Holds
  <2> QED BY <2>2, <2>3
<1> QED BY <1>2, <1>4, <1>5, <1>6

\* What the calculator has to send: no answer to the transfer's packets, one
\* answer, or two in a row, among packets about something else.
NoReplies(o) == \A i \in 1 .. Len(o) : o[i].src = "other"

One(o, service, a) ==
    \E n \in 1 .. Len(o) : /\ o[n] = Said(a, service)
                           /\ \A i \in 1 .. Len(o) : i # n => o[i].src = "other"

Two(o, service, a, b) ==
    \E n \in 1 .. Len(o) - 1 :
       /\ o[n] = Said(a, service) /\ o[n + 1] = Said(b, service)
       /\ \A i \in 1 .. Len(o) : i # n /\ i # n + 1 => o[i].src = "other"

LEMMA OutboxGrows ==
    ASSUME NEW o \in Seq(Message), NEW e \in Message, e.src = "other"
    PROVE  /\ NoReplies(o) => NoReplies(Append(o, e))
           /\ \A service, a : One(o, service, a) => One(Append(o, e), service, a)
           /\ \A service, a, b : Two(o, service, a, b) => Two(Append(o, e), service, a, b)
<1>1. PICK n \in Nat : n = Len(o)
  OBVIOUS
<1>2. PICK q \in Seq(Message) : q = Append(o, e)
  <2>1. Append(o, e) \in Seq(Message)
    BY Appended
  <2> QED BY <2>1, Zenon
<1>3. Len(q) = n + 1 /\ q[n + 1] = e /\ \A i \in 1 .. n : q[i] = o[i]
  BY <1>1, <1>2
<1>4. NoReplies(o) => NoReplies(q)
  BY <1>1, <1>3 DEF NoReplies
<1>5. ASSUME NEW service, NEW a, One(o, service, a) PROVE One(q, service, a)
  <2>1. PICK k \in 1 .. n : /\ o[k] = Said(a, service)
                            /\ \A i \in 1 .. n : i # k => o[i].src = "other"
    BY <1>1, <1>5 DEF One
  <2>2. k \in 1 .. Len(q) /\ q[k] = Said(a, service)
    BY <1>3, <2>1
  <2>3. \A i \in 1 .. Len(q) : i # k => q[i].src = "other"
    BY <1>3, <2>1
  <2> QED BY <2>2, <2>3 DEF One
<1>6. ASSUME NEW service, NEW a, NEW b, Two(o, service, a, b) PROVE Two(q, service, a, b)
  <2>1. PICK k \in 1 .. n - 1 :
           /\ o[k] = Said(a, service) /\ o[k + 1] = Said(b, service)
           /\ \A i \in 1 .. n : i # k /\ i # k + 1 => o[i].src = "other"
    BY <1>1, <1>6 DEF Two
  <2>2. k \in 1 .. Len(q) - 1 /\ q[k] = Said(a, service) /\ q[k + 1] = Said(b, service)
    BY <1>3, <2>1
  <2>3. \A i \in 1 .. Len(q) : i # k /\ i # k + 1 => q[i].src = "other"
    BY <1>3, <2>1
  <2> QED BY <2>2, <2>3 DEF Two
<1> QED BY <1>2, <1>4, <1>5, <1>6

LEMMA OutboxShrinks ==
    ASSUME NEW o \in Seq(Message), o # <<>>
    PROVE  /\ NoReplies(o) => Head(o).src = "other" /\ NoReplies(Tail(o))
           /\ \A service, a : One(o, service, a) =>
                 \/ Head(o) = Said(a, service) /\ NoReplies(Tail(o))
                 \/ Head(o).src = "other" /\ One(Tail(o), service, a)
           /\ \A service, a, b : Two(o, service, a, b) =>
                 \/ Head(o) = Said(a, service) /\ One(Tail(o), service, b)
                 \/ Head(o).src = "other" /\ Two(Tail(o), service, a, b)
<1>1. PICK n \in Nat : n + 1 = Len(o)
  <2>1. Len(o) \in Nat /\ Len(o) # 0
    OBVIOUS
  <2> QED BY <2>1
<1>2. PICK t \in Seq(Message) : t = Tail(o)
  <2>1. Tail(o) \in Seq(Message)
    OBVIOUS
  <2> QED BY <2>1, Zenon
<1>3. Len(t) = n /\ Head(o) = o[1] /\ \A i \in 1 .. n : t[i] = o[i + 1]
  BY <1>1, <1>2
<1>4. NoReplies(o) => Head(o).src = "other" /\ NoReplies(t)
  BY <1>1, <1>3 DEF NoReplies
<1>5. ASSUME NEW service, NEW a, One(o, service, a)
      PROVE  \/ Head(o) = Said(a, service) /\ NoReplies(t)
             \/ Head(o).src = "other" /\ One(t, service, a)
  <2>1. PICK k \in 1 .. n + 1 : /\ o[k] = Said(a, service)
                                /\ \A i \in 1 .. n + 1 : i # k => o[i].src = "other"
    BY <1>1, <1>5 DEF One
  <2>2. CASE k = 1
    <3>1. NoReplies(t)
      BY <1>3, <2>1, <2>2 DEF NoReplies
    <3> QED BY <1>3, <2>1, <2>2, <3>1
  <2>3. CASE k # 1
    <3>1. PICK j \in 1 .. n : k = j + 1
      BY <2>1, <2>3
    <3>2. Head(o).src = "other"
      BY <1>3, <2>1, <2>3
    <3>3. t[j] = Said(a, service)
      BY <1>3, <2>1, <3>1
    <3>4. \A i \in 1 .. n : i # j => t[i].src = "other"
      BY <1>3, <2>1, <3>1
    <3> QED BY <1>3, <3>1, <3>2, <3>3, <3>4 DEF One
  <2> QED BY <2>2, <2>3
<1>6. ASSUME NEW service, NEW a, NEW b, Two(o, service, a, b)
      PROVE  \/ Head(o) = Said(a, service) /\ One(t, service, b)
             \/ Head(o).src = "other" /\ Two(t, service, a, b)
  <2>1. PICK k \in 1 .. n :
           /\ o[k] = Said(a, service) /\ o[k + 1] = Said(b, service)
           /\ \A i \in 1 .. n + 1 : i # k /\ i # k + 1 => o[i].src = "other"
    BY <1>1, <1>6 DEF Two
  <2>2. CASE k = 1
    <3>1. 1 \in 1 .. Len(t) /\ t[1] = Said(b, service)
      BY <1>3, <2>1, <2>2
    <3>2. \A i \in 1 .. Len(t) : i # 1 => t[i].src = "other"
      BY <1>3, <2>1, <2>2
    <3> QED BY <1>3, <2>1, <2>2, <3>1, <3>2 DEF One
  <2>3. CASE k # 1
    <3>1. PICK j \in 1 .. n - 1 : k = j + 1
      BY <2>1, <2>3
    <3>2. Head(o).src = "other"
      BY <1>3, <2>1, <2>3
    <3>3. t[j] = Said(a, service) /\ t[j + 1] = Said(b, service)
      BY <1>3, <2>1, <3>1
    <3>4. ASSUME NEW i \in 1 .. n, i # j, i # j + 1 PROVE t[i].src = "other"
      <4>1. i + 1 \in 1 .. n + 1 /\ i + 1 # k /\ i + 1 # k + 1
        BY <3>1, <3>4
      <4>2. o[i + 1].src = "other"
        BY <2>1, <4>1
      <4> QED BY <1>3, <4>2
    <3> QED BY <1>3, <3>1, <3>2, <3>3, <3>4 DEF Two
  <2> QED BY <2>2, <2>3
<1> QED BY <1>2, <1>4, <1>5, <1>6

\* The calculator answers a packet.
LEMMA OutboxAnswers ==
    ASSUME NEW o \in Seq(Message), NoReplies(o), NEW service, NEW a, NEW b,
           Said(a, service) \in Message, Said(b, service) \in Message
    PROVE  /\ One(o \o <<Said(a, service)>>, service, a)
           /\ Two(o \o <<Said(a, service), Said(b, service)>>, service, a, b)
<1>1. PICK n \in Nat : n = Len(o)
  OBVIOUS
<1>2. PICK x \in Message, y \in Message : x = Said(a, service) /\ y = Said(b, service)
  OBVIOUS
<1>3. PICK p, q : p = Append(o, x) /\ q = Append(p, y)
  OBVIOUS
<1>4. p \in Seq(Message) /\ q \in Seq(Message) /\ p = o \o <<x>> /\ q = o \o <<x, y>>
  BY <1>3, Appended
<1>5. /\ Len(p) = n + 1 /\ p[n + 1] = x /\ \A i \in 1 .. n : p[i] = o[i]
      /\ Len(q) = n + 2 /\ q[n + 1] = x /\ q[n + 2] = y /\ \A i \in 1 .. n : q[i] = o[i]
  <2>1. Len(p) = n + 1 /\ p[n + 1] = x /\ \A i \in 1 .. n : p[i] = o[i]
    BY <1>1, <1>3
  <2>2. Len(q) = n + 2 /\ q[n + 2] = y /\ \A i \in 1 .. n + 1 : q[i] = p[i]
    BY <1>3, <1>4, <2>1
  <2> QED BY <2>1, <2>2
<1>6. \A i \in 1 .. n : o[i].src = "other"
  BY <1>1 DEF NoReplies
<1>7. One(p, service, a)
  <2>1. n + 1 \in 1 .. Len(p) /\ p[n + 1] = Said(a, service)
    BY <1>2, <1>5
  <2>2. \A i \in 1 .. Len(p) : i # n + 1 => p[i].src = "other"
    BY <1>5, <1>6
  <2> QED BY <2>1, <2>2 DEF One
<1>8. Two(q, service, a, b)
  <2>0. Len(q) - 1 = n + 1
    BY <1>5
  <2>1. n + 1 \in 1 .. Len(q) - 1
    BY <2>0
  <2>2. q[n + 1] = Said(a, service) /\ q[n + 1 + 1] = Said(b, service)
    BY <1>2, <1>5
  <2>3. \A i \in 1 .. Len(q) : i # n + 1 /\ i # n + 1 + 1 => q[i].src = "other"
    BY <1>5, <1>6
  <2> QED BY <2>1, <2>2, <2>3 DEF Two
<1> QED BY <1>2, <1>4, <1>7, <1>8

----------------------------------------------------------------------------
(***************************************************************************)
(* The protocol: where a transfer is, seen from both sides.                *)
(***************************************************************************)

Ours(l) == l.sending /\ OfTransfer(l.buf)

\* All of f but its last n packets is stored.
Upto(f, n, r, s) == r = f /\ Len(s) + n = f.size

Header(f, s) == f.port = "os" /\ s = <<>>

\* No transfer, or one that is over or has lost a packet: nothing that matters to
\* one is under way, and what the buffer still holds will not complete it.
Quiet(l, o, r, s) ==
    /\ Busy(l) => l.lost
    /\ NoReplies(o) /\ AllStale(l.inbox, r, s)
    /\ l.sending => Stale(l.buf, r, s)
    /\ l.sending /\ l.buf.dst \in Services /\ l.put_file_state \in {3, 19} =>
          IF l.left = 0 THEN Upto(l.put_file, 0, r, s) ELSE ~Short(r, s)
    /\ l.put_file_state = DONE => Upto(l.put_file, 0, r, s)

\* The calculator has not read the file's name and size yet.
Asking(l, o, r, s) ==
    /\ l.put_file_state = IF l.put_file.port = "os" THEN 17 ELSE 1
    /\ l.left = l.put_file.size /\ NoReplies(o)
    /\ \/ l.sending /\ l.buf = Start(l.put_file) /\ AllStale(l.inbox, r, s)
       \/ ~Ours(l) /\ Holds(l.inbox, Start(l.put_file), r, s)

\* It has, and accepts or refuses the file.
Answered(l, o, r, s) ==
    /\ l.left = l.put_file.size /\ ~Ours(l) /\ NoCommands(l.inbox)
    /\ \E a \in {"04", "no"} :
          /\ \/ /\ l.put_file_state = IF l.put_file.port = "os" THEN 17 ELSE 1
                /\ Two(o, l.put_file.port, "ack", a)
             \/ /\ l.put_file_state = IF l.put_file.port = "os" THEN 18 ELSE 2
                /\ One(o, l.put_file.port, a)
          /\ a = "04" => r = l.put_file /\ s = <<>>

\* The emulator is to acknowledge the calculator's answer.
Acking(l, o, r, s) ==
    /\ l.put_file_state = IF Header(l.put_file, s) THEN 19 ELSE 3
    /\ Upto(l.put_file, l.left, r, s) /\ NoReplies(o) /\ NoCommands(l.inbox)
    /\ l.sending /\ l.buf = Ack(l.put_file.port)

\* The calculator has not read the last packet of data yet.
Sending(l, o, r, s) ==
    /\ l.put_file_state = IF Header(l.put_file, s) THEN 20 ELSE 4
    /\ Upto(l.put_file, l.left + 1, r, s) /\ NoReplies(o)
    /\ \/ /\ l.sending /\ l.buf = Data(l.put_file, l.put_file.size - l.left)
          /\ NoCommands(l.inbox)
       \/ ~Ours(l) /\ Holds(l.inbox, Data(l.put_file, l.put_file.size - l.left), r, s)

\* It has stored it, and judges the header of an OS.
Saved(l, o, r, s) ==
    /\ ~Ours(l) /\ NoCommands(l.inbox)
    /\ \/ /\ l.put_file_state = 4
          /\ Upto(l.put_file, l.left, r, s) /\ ~Header(l.put_file, s)
          /\ One(o, l.put_file.port, "ack")
       \/ \E a \in {"FF 00", "no"} :
             /\ \/ l.put_file_state = 20 /\ Two(o, l.put_file.port, "ack", a)
                \/ l.put_file_state = 21 /\ One(o, l.put_file.port, a)
             /\ a = "FF 00" => Upto(l.put_file, l.left, r, s) /\ s # <<>>

Live(l, o, r, s) ==
    \/ Asking(l, o, r, s) \/ Answered(l, o, r, s) \/ Acking(l, o, r, s)
    \/ Sending(l, o, r, s) \/ Saved(l, o, r, s)

Protocol(l, o, r, s) ==
    \/ Quiet(l, o, r, s)
    \/ Busy(l) /\ ~l.lost /\ Live(l, o, r, s)

\* What is stored is the beginning of the file.
Prefix(r, s) ==
    r # NULL => /\ Len(s) <= r.size
                /\ \A k \in 1 .. Len(s) : s[k] = <<r.id, k>>

IInv == Protocol(link, outbox, rx, stored) /\ Prefix(rx, stored)

LEMMA BusyFile ==
    ASSUME NEW l, Sound(l), Busy(l) \/ l.put_file_state = DONE
    PROVE  /\ l \in Link /\ l.put_file \in Files /\ l.put_file # NULL
           /\ l.put_file.size \in Nat /\ l.left \in Nat /\ l.left <= l.put_file.size
           /\ l.put_file.port \in Services
           /\ Start(l.put_file) \in Packet /\ Ack(l.put_file.port) \in Packet
<1>1. l.put_file_state # 0
  BY DEF Busy
<1>2. l \in Link /\ l.put_file # NULL
  BY <1>1 DEF Sound
<1>3. l.put_file \in Files /\ l.left \in Nat
  BY <1>2, LinkFields
<1>4. l.put_file.size \in Nat /\ l.put_file.port \in Services
  BY <1>3, FileFields
<1>5. Start(l.put_file) \in Packet /\ Ack(l.put_file.port) \in Packet
  BY <1>3, <1>4, PacketFields
<1>6. l.left <= l.put_file.size
  BY <1>2 DEF Sound
<1> QED BY <1>2, <1>3, <1>4, <1>5, <1>6

\* Nothing that matters changes in the calculator's buffers, or in its answers.
KeepsInbox(in, jn, r, s) ==
    /\ NoCommands(in) => NoCommands(jn)
    /\ AllStale(in, r, s) => AllStale(jn, r, s)
    /\ \A p : ~Stale(p, r, s) /\ Holds(in, p, r, s) => Holds(jn, p, r, s)

KeepsOutbox(o, q) ==
    /\ NoReplies(o) => NoReplies(q)
    /\ \A service, a : service \in Services /\ One(o, service, a) => One(q, service, a)
    /\ \A service, a, b :
          service \in Services /\ Two(o, service, a, b) => Two(q, service, a, b)

LEMMA KeepsSame ==
    ASSUME NEW in, NEW r, NEW s, NEW o
    PROVE  KeepsInbox(in, in, r, s) /\ KeepsOutbox(o, o)
BY DEF KeepsInbox, KeepsOutbox

LEMMA KeepsMore ==
    /\ \A in \in Seq(Packet), e \in Packet : \A r, s :
          ~Command(e) => KeepsInbox(in, Append(in, e), r, s)
    /\ \A o \in Seq(Message), e \in Message :
          e.src = "other" => KeepsOutbox(o, Append(o, e))
<1>1. ASSUME NEW in \in Seq(Packet), NEW e \in Packet, NEW r, NEW s, ~Command(e)
      PROVE  KeepsInbox(in, Append(in, e), r, s)
  BY <1>1, InboxGrows DEF KeepsInbox
<1>2. ASSUME NEW o \in Seq(Message), NEW e \in Message, e.src = "other"
      PROVE  KeepsOutbox(o, Append(o, e))
  BY <1>2, OutboxGrows DEF KeepsOutbox
<1> QED BY <1>1, <1>2

LEMMA KeepsLess ==
    /\ \A in \in Seq(Packet) : \A r, s :
          in # <<>> /\ Stale(Head(in), r, s) => KeepsInbox(in, Tail(in), r, s)
    /\ \A o \in Seq(Message) :
          o # <<>> /\ Head(o).src = "other" => KeepsOutbox(o, Tail(o))
<1>1. ASSUME NEW in \in Seq(Packet), NEW r, NEW s, in # <<>>, Stale(Head(in), r, s)
      PROVE  KeepsInbox(in, Tail(in), r, s)
  BY <1>1, InboxShrinks DEF KeepsInbox
<1>2. ASSUME NEW o \in Seq(Message), o # <<>>, Head(o).src = "other"
      PROVE  KeepsOutbox(o, Tail(o))
  <2>1. \A service \in Services : \A a : Said(a, service).src # "other"
    BY DEF Said
  <2>2. \A service \in Services : \A a : Head(o) # Said(a, service)
    BY <1>2, <2>1
  <2> QED BY <1>2, <2>2, OutboxShrinks DEF KeepsOutbox
<1> QED BY <1>1, <1>2

LEMMA OursIs ==
    ASSUME NEW p \in Packet
    PROVE  /\ OfTransfer(p) <=> Command(p) \/ p.dst \in Services
           /\ p.dst \notin Services => ~Command(p)
<1>1. OfTransfer(p) <=> Command(p) \/ p.dst \in Services
  BY DEF OfTransfer, Command
<1>2. ASSUME Command(p) PROVE p.dst \in Services
  <2>1. (\E f \in Files : p = Start(f)) \/ (\E f \in Files, k \in Nat : p = Data(f, k))
    BY <1>2, CommandIs DEF Command
  <2> QED BY <2>1, PacketFields, FileFields
<1> QED BY <1>1, <1>2

\* The packets a live transfer waits for are still to be read.
LEMMA Awaited ==
    ASSUME NEW l, Sound(l), Busy(l), NEW r, NEW s
    PROVE  /\ ~Stale(Start(l.put_file), r, s)
           /\ s \in Seq(Nat \X Nat) /\ Upto(l.put_file, l.left + 1, r, s) =>
                 /\ ~Stale(Data(l.put_file, l.put_file.size - l.left), r, s)
                 /\ l.put_file.size - l.left \in Nat /\ l.put_file.size - l.left = Len(s) + 1
                 /\ Data(l.put_file, l.put_file.size - l.left) \in Packet
<1>1. /\ l.put_file \in Files /\ l.put_file # NULL /\ l.put_file.size \in Nat
      /\ l.left \in Nat /\ l.left <= l.put_file.size
  BY BusyFile
<1>2. Start(l.put_file).kind = "03"
  BY <1>1, PacketFields
<1>3. ASSUME s \in Seq(Nat \X Nat), Upto(l.put_file, l.left + 1, r, s)
      PROVE  /\ ~Stale(Data(l.put_file, l.put_file.size - l.left), r, s)
             /\ l.put_file.size - l.left \in Nat /\ l.put_file.size - l.left = Len(s) + 1
             /\ Data(l.put_file, l.put_file.size - l.left) \in Packet
  <2>1. PICK n \in Nat : n = Len(s)
    BY <1>3
  <2>2. r = l.put_file /\ n + (l.left + 1) = r.size
    BY <1>3, <2>1 DEF Upto
  <2>3. Short(r, s)
    BY <1>1, <2>1, <2>2 DEF Short
  <2>4. PICK k \in Nat : k = l.put_file.size - l.left /\ k = n + 1
    BY <1>1, <2>2
  <2>5. Data(l.put_file, k) \in Packet /\ Data(l.put_file, k).kind = "05"
    BY <1>1, PacketFields
  <2>6. ~Stale(Data(l.put_file, k), r, s)
    BY <2>3, <2>5 DEF Stale
  <2> QED BY <2>1, <2>4, <2>5, <2>6
<1> QED BY <1>2, <1>3 DEF Stale

LEMMA LiveKept ==
    ASSUME NEW l, Sound(l), Busy(l), NEW m, SameFile(l, m),
           NEW o, NEW q, KeepsOutbox(o, q), NEW r, NEW s \in Seq(Nat \X Nat),
           KeepsInbox(l.inbox, m.inbox, r, s),
           \/ m.sending = l.sending /\ m.buf = l.buf
           \/ ~Ours(l) /\ ~Ours(m),
           Live(l, o, r, s)
    PROVE  Live(m, q, r, s)
<1>1. /\ m.put_file = l.put_file /\ m.left = l.left
      /\ m.put_file_state = l.put_file_state
  BY DEF SameFile
<1>2. /\ l.put_file.port \in Services
      /\ Start(l.put_file) \in Packet /\ Ack(l.put_file.port) \in Packet
  BY BusyFile
<1>3. ~Ours(l) => ~Ours(m)
  BY DEF Ours
<1>4. /\ Start(l.put_file).dst \in Services /\ Ack(l.put_file.port).dst \in Services
  BY <1>2, BusyFile, PacketFields
<1>5. CASE Asking(l, o, r, s)
  <2>1. NoReplies(q)
    BY <1>5 DEF Asking, KeepsOutbox
  <2>2. CASE l.sending /\ l.buf = Start(l.put_file) /\ AllStale(l.inbox, r, s)
    <3>1. Ours(l)
      BY <1>2, <1>4, <2>2, OursIs DEF Ours
    <3>2. m.sending /\ m.buf = Start(m.put_file) /\ AllStale(m.inbox, r, s)
      BY <1>1, <2>2, <3>1 DEF KeepsInbox
    <3> QED BY <1>1, <1>5, <2>1, <3>2 DEF Asking, Live
  <2>3. CASE ~Ours(l) /\ Holds(l.inbox, Start(l.put_file), r, s)
    <3>1. Holds(m.inbox, Start(m.put_file), r, s)
      BY <1>1, <2>3, Awaited DEF KeepsInbox
    <3> QED BY <1>1, <1>3, <1>5, <2>1, <2>3, <3>1 DEF Asking, Live
  <2> QED BY <1>5, <2>2, <2>3 DEF Asking
<1>6. CASE Answered(l, o, r, s)
  <2>1. \A a : /\ Two(o, l.put_file.port, "ack", a) => Two(q, l.put_file.port, "ack", a)
               /\ One(o, l.put_file.port, a) => One(q, l.put_file.port, a)
    BY <1>2 DEF KeepsOutbox
  <2>2. NoCommands(m.inbox)
    BY <1>6 DEF Answered, KeepsInbox
  <2> QED BY <1>1, <1>3, <1>6, <2>1, <2>2 DEF Answered, Live
<1>7. CASE Acking(l, o, r, s)
  <2>1. Ours(l)
    BY <1>2, <1>4, <1>7, OursIs DEF Acking, Ours
  <2>2. NoReplies(q) /\ NoCommands(m.inbox)
    BY <1>7 DEF Acking, KeepsInbox, KeepsOutbox
  <2> QED BY <1>1, <1>7, <2>1, <2>2 DEF Acking, Live
<1>8. CASE Sending(l, o, r, s)
  <2>1. PICK p : p = Data(l.put_file, l.put_file.size - l.left)
    OBVIOUS
  <2>2. p \in Packet /\ ~Stale(p, r, s) /\ Command(p)
    <3>1. p \in Packet /\ ~Stale(p, r, s)
      BY <1>8, <2>1, Awaited DEF Sending
    <3> QED BY <3>1 DEF Stale, Command
  <2>3. NoReplies(q)
    BY <1>8 DEF Sending, KeepsOutbox
  <2>4. CASE l.sending /\ l.buf = p /\ NoCommands(l.inbox)
    <3>1. Ours(l)
      BY <2>2, <2>4, OursIs DEF Ours
    <3>2. m.sending /\ m.buf = p /\ NoCommands(m.inbox)
      BY <2>4, <3>1 DEF KeepsInbox
    <3> QED BY <1>1, <1>8, <2>1, <2>3, <3>2 DEF Sending, Live
  <2>5. CASE ~Ours(l) /\ Holds(l.inbox, p, r, s)
    <3>1. Holds(m.inbox, p, r, s)
      BY <2>2, <2>5 DEF KeepsInbox
    <3> QED BY <1>1, <1>3, <1>8, <2>1, <2>3, <2>5, <3>1 DEF Sending, Live
  <2> QED BY <1>8, <2>1, <2>4, <2>5 DEF Sending
<1>9. CASE Saved(l, o, r, s)
  <2>1. \A a, b : /\ Two(o, l.put_file.port, a, b) => Two(q, l.put_file.port, a, b)
                  /\ One(o, l.put_file.port, a) => One(q, l.put_file.port, a)
    BY <1>2 DEF KeepsOutbox
  <2>2. NoCommands(m.inbox)
    BY <1>9 DEF Saved, KeepsInbox
  <2> QED BY <1>1, <1>3, <1>9, <2>1, <2>2 DEF Saved, Live
<1> QED BY <1>5, <1>6, <1>7, <1>8, <1>9 DEF Live

LEMMA QuietKept ==
    ASSUME NEW l, NEW m, SameFile(l, m), l.lost => m.lost,
           NEW o, NEW q, KeepsOutbox(o, q), NEW r, NEW s,
           KeepsInbox(l.inbox, m.inbox, r, s),
           \/ m.sending = l.sending /\ m.buf = l.buf
           \/ m.sending => m.buf.dst \notin Services /\ Stale(m.buf, r, s),
           Quiet(l, o, r, s)
    PROVE  Quiet(m, q, r, s)
<1>1. /\ m.put_file = l.put_file /\ m.left = l.left
      /\ m.put_file_state = l.put_file_state
  BY DEF SameFile
<1>2. Busy(m) => m.lost
  BY <1>1 DEF Quiet, Busy
<1>3. NoReplies(q) /\ AllStale(m.inbox, r, s)
  BY DEF Quiet, KeepsInbox, KeepsOutbox
<1>4. m.sending => Stale(m.buf, r, s)
  BY DEF Quiet
<1>5. m.sending /\ m.buf.dst \in Services /\ m.put_file_state \in {3, 19} =>
          IF m.left = 0 THEN Upto(m.put_file, 0, r, s) ELSE ~Short(r, s)
  BY <1>1 DEF Quiet
<1>6. m.put_file_state = DONE => Upto(m.put_file, 0, r, s)
  BY <1>1 DEF Quiet
<1> QED BY <1>2, <1>3, <1>4, <1>5, <1>6 DEF Quiet

LEMMA ProtocolKept ==
    ASSUME NEW l, Sound(l), NEW m, SameFile(l, m), m.lost = l.lost,
           NEW o, NEW q, KeepsOutbox(o, q), NEW r, NEW s \in Seq(Nat \X Nat),
           KeepsInbox(l.inbox, m.inbox, r, s),
           m.sending = l.sending /\ (l.sending => m.buf = l.buf),
           Protocol(l, o, r, s)
    PROVE  Protocol(m, q, r, s)
<1>1. CASE Quiet(l, o, r, s)
  <2>1. \/ m.sending = l.sending /\ m.buf = l.buf
        \/ m.sending => m.buf.dst \notin Services /\ Stale(m.buf, r, s)
    OBVIOUS
  <2> QED BY <1>1, <2>1, QuietKept DEF Protocol
<1>2. CASE Busy(l) /\ ~l.lost /\ Live(l, o, r, s)
  <2>1. \/ m.sending = l.sending /\ m.buf = l.buf
        \/ ~Ours(l) /\ ~Ours(m)
    BY DEF Ours
  <2>2. Live(m, q, r, s)
    BY <1>2, <2>1, LiveKept
  <2> QED BY <1>2, <2>2 DEF Protocol, Busy, SameFile
<1> QED BY <1>1, <1>2 DEF Protocol

\* A packet about something else is put in the buffer: a transfer's packet that
\* waits there is lost.
LEMMA ForeignKept ==
    ASSUME NEW l, Sound(l), NEW p \in Packet, p.dst = "other",
           NEW m, Given(l, m, p), SameFile(l, m),
           NEW o, NEW q, KeepsOutbox(o, q), NEW r, NEW s \in Seq(Nat \X Nat),
           Protocol(l, o, r, s)
    PROVE  Protocol(m, q, r, s)
<1>1. ~Command(p) /\ p.dst \notin Services /\ ~OfTransfer(p) /\ Stale(p, r, s)
  <2>1. p.dst \notin Services
    OBVIOUS
  <2>2. ~Command(p)
    BY <2>1, OursIs
  <2> QED BY <2>1, <2>2, OursIs DEF Command, Stale
<1>2. l.inbox \in Seq(Packet)
  BY LinkFields DEF Sound
<1>3. KeepsInbox(l.inbox, m.inbox, r, s)
  <2>1. m.inbox = l.inbox \/ m.inbox = Append(l.inbox, p)
    BY DEF Given
  <2> QED BY <1>1, <1>2, <2>1, KeepsSame, KeepsMore
<1>4. ~Ours(m) /\ (m.lost <=> l.lost \/ Ours(l))
  BY <1>1 DEF Given, Ours
<1>5. CASE Quiet(l, o, r, s)
  <2>1. m.sending => m.buf.dst \notin Services /\ Stale(m.buf, r, s)
    BY <1>1 DEF Given
  <2> QED BY <1>3, <1>4, <1>5, <2>1, QuietKept DEF Protocol
<1>6. CASE Busy(l) /\ ~l.lost /\ Live(l, o, r, s) /\ ~Ours(l)
  <2>1. Live(m, q, r, s)
    BY <1>3, <1>4, <1>6, LiveKept
  <2>2. Busy(m)
    BY <1>6 DEF Busy, SameFile
  <2> QED BY <1>4, <1>6, <2>1, <2>2 DEF Protocol
<1>7. CASE Busy(l) /\ ~l.lost /\ Live(l, o, r, s) /\ Ours(l)
  <2>1. NoReplies(o) /\ AllStale(l.inbox, r, s)
    <3>1. NoCommands(l.inbox) => AllStale(l.inbox, r, s)
      BY <1>2, <1>1, InboxGrows
    <3>2. Asking(l, o, r, s) => NoReplies(o) /\ AllStale(l.inbox, r, s)
      BY <1>7 DEF Asking
    <3>3. ~Answered(l, o, r, s) /\ ~Saved(l, o, r, s)
      BY <1>7 DEF Answered, Saved
    <3>4. Acking(l, o, r, s) => NoReplies(o) /\ NoCommands(l.inbox)
      BY DEF Acking
    <3>5. Sending(l, o, r, s) => NoReplies(o) /\ NoCommands(l.inbox)
      BY <1>7 DEF Sending
    <3> QED BY <1>7, <3>1, <3>2, <3>3, <3>4, <3>5 DEF Live
  <2>2. NoReplies(q) /\ AllStale(m.inbox, r, s)
    BY <1>3, <2>1 DEF KeepsInbox, KeepsOutbox
  <2>3. m.put_file_state # DONE
    BY <1>7 DEF Busy, SameFile
  <2>4. m.sending => m.buf = p
    BY DEF Given
  <2>5. m.sending => Stale(m.buf, r, s) /\ m.buf.dst \notin Services
    BY <1>1, <2>4
  <2>6. Busy(m) => m.lost
    BY <1>4, <1>7
  <2> QED BY <2>2, <2>3, <2>5, <2>6 DEF Quiet, Protocol
<1> QED BY <1>5, <1>6, <1>7 DEF Protocol

\* The same for a packet about something else that is acknowledged.
LEMMA ForeignSent ==
    ASSUME NEW l, Sound(l), NEW p \in Packet, p.dst = "other"
    PROVE  /\ usblink_start_send(l, p) = Send(l, p)
           /\ Given(l, Send(l, p), p) /\ SameFile(l, Send(l, p))
<1>1. PICK m : m = Send(l, p)
  OBVIOUS
<1>2. Given(l, m, p) /\ SameFile(l, m)
  BY <1>1, SendIs
<1>3. m.buf.dst \notin Services
  BY <1>2 DEF Given
<1>4. usblink_sent_packet(m) = m
  BY <1>3 DEF usblink_sent_packet
<1> QED BY <1>1, <1>2, <1>4, StartIs

\* send_data(), when all but the packets that are left is stored.
LEMMA DataSent ==
    ASSUME NEW l, Sound(l), Busy(l), ~l.lost, NEW o, NEW r, NEW s \in Seq(Nat \X Nat),
           l.put_file_state = IF Header(l.put_file, s) THEN 20 ELSE 4,
           Upto(l.put_file, l.left, r, s), NoReplies(o), NoCommands(l.inbox), ~Ours(l),
           NEW m, m = send_data(l)
    PROVE  Protocol(m, o, r, s)
<1>1. /\ l \in Link /\ l.put_file \in Files /\ l.put_file # NULL
      /\ l.put_file.size \in Nat /\ l.left \in Nat
  BY BusyFile
<1>2. l.inbox \in Seq(Packet)
  BY <1>1, LinkFields
<1>3. AllStale(l.inbox, r, s)
  BY <1>1, <1>2, InboxGrows, PacketFields
<1>4. CASE l.left = 0
  <2>1. DONE \in States \ {0}
    BY DEF States
  <2>2. m = At(l, DONE)
    BY <1>1, <1>4, SendDataIs
  <2>3. /\ SameBuffer(l, m) /\ m.put_file_state = DONE /\ m.put_file = l.put_file
    BY <1>1, <2>1, <2>2, AtIs
  <2>4. m.sending => Stale(m.buf, r, s)
    <3>1. l.sending => ~Command(l.buf)
      BY <1>1, LinkFields, OursIs DEF Ours
    <3> QED BY <2>3, <3>1 DEF Stale, Command, SameBuffer
  <2>5. AllStale(m.inbox, r, s) /\ ~Busy(m)
    BY <1>3, <2>3 DEF SameBuffer, Busy
  <2>6. Upto(m.put_file, 0, r, s)
    BY <1>4, <2>3
  <2>7. m.put_file_state \notin {3, 19}
    BY <2>3
  <2> QED BY <2>4, <2>5, <2>6, <2>7 DEF Quiet, Protocol
<1>5. CASE l.left # 0
  <2>1. /\ m.put_file = l.put_file /\ m.left = l.left - 1
        /\ m.put_file_state = l.put_file_state
        /\ Given(l, m, Data(l.put_file, l.put_file.size - m.left)) /\ Sound(m)
    BY <1>1, <1>5, SendDataIs
  <2>2. PICK p : p = Data(m.put_file, m.put_file.size - m.left)
    OBVIOUS
  <2>3. ~m.lost
    BY <2>1 DEF Given, Ours
  <2>4. m.left + 1 = l.left /\ Busy(m)
    BY <1>1, <2>1 DEF Busy
  <2>5. Upto(m.put_file, m.left + 1, r, s)
    BY <2>1, <2>4
  <2>6. p \in Packet /\ Command(p) /\ OfTransfer(p)
    <3>1. p \in Packet /\ ~Stale(p, r, s)
      BY <2>1, <2>2, <2>4, <2>5, Awaited
    <3>2. Command(p)
      BY <3>1 DEF Stale, Command
    <3> QED BY <3>1, <3>2, OursIs
  <2>7. \/ m.sending /\ m.buf = p /\ m.inbox = l.inbox
        \/ ~m.sending /\ m.inbox = Append(l.inbox, p)
    BY <2>1, <2>2 DEF Given
  <2>8. \/ m.sending /\ m.buf = p /\ NoCommands(m.inbox)
        \/ ~Ours(m) /\ Holds(m.inbox, p, r, s)
    BY <1>2, <1>3, <2>6, <2>7, InboxGrows DEF Ours
  <2>9. Sending(m, o, r, s)
    BY <2>1, <2>2, <2>5, <2>8 DEF Sending
  <2> QED BY <2>3, <2>4, <2>9 DEF Live, Protocol
<1> QED BY <1>4, <1>5

\* The calculator's answer has been acknowledged.
LEMMA AckSent ==
    ASSUME NEW l, Sound(l), Busy(l), ~l.lost, NEW o, NEW r, NEW s \in Seq(Nat \X Nat),
           l.put_file_state = IF Header(l.put_file, s) THEN 19 ELSE 3,
           Upto(l.put_file, l.left, r, s), NoReplies(o), NoCommands(l.inbox),
           ~l.sending, l.buf = Ack(l.put_file.port),
           NEW m, m = usblink_sent_packet(l)
    PROVE  Protocol(m, o, r, s)
<1>1. l.put_file # NULL /\ l.put_file.port \in Services
  BY BusyFile
<1>2. l.buf.kind = "ack" /\ l.buf.dst \in Services
  BY <1>1, PacketFields
<1>3. m = put_file_next(l, NULL)
  BY <1>2 DEF usblink_sent_packet
<1>4. m = Advance(l)
  <2>0. PICK c : c = l.put_file_state /\ c \in {3, 19} /\ c # 0
    <3>1. l.put_file_state \in {3, 19} /\ l.put_file_state # 0
      OBVIOUS
    <3> QED BY <3>1, Zenon
  <2>1. l.put_file_state # 0 /\ Wanted(l, NULL)
    BY <2>0, WantedIs, Zenon
  <2> QED BY <1>3, <2>1, NextIs
<1>5. PICK k \in States \ {0} : k = IF Header(l.put_file, s) THEN 20 ELSE 4
  BY DEF States
<1>6. PICK n : n = At(l, k)
  OBVIOUS
<1>7. m = send_data(n)
  BY <1>4, <1>5, <1>6, AdvanceIs
<1>8. /\ Sound(n) /\ SameBuffer(l, n) /\ n.put_file_state = k
      /\ n.put_file = l.put_file /\ n.left = l.left
  BY <1>1, <1>6, AtIs
<1>9. Busy(n) /\ ~n.lost /\ ~Ours(n) /\ NoCommands(n.inbox)
  BY <1>5, <1>8 DEF Busy, SameBuffer, Ours
<1> QED BY <1>5, <1>7, <1>8, <1>9, DataSent

\* The emulator acknowledges the calculator's answer.
LEMMA AckStarted ==
    ASSUME NEW l, Sound(l), Busy(l), ~l.lost, NEW o, NEW r, NEW s \in Seq(Nat \X Nat),
           l.put_file_state = IF Header(l.put_file, s) THEN 19 ELSE 3,
           Upto(l.put_file, l.left, r, s), NoReplies(o), NoCommands(l.inbox),
           ~Ours(l),
           NEW m, m = usblink_start_send(l, Ack(l.put_file.port))
    PROVE  Protocol(m, o, r, s)
<1>1. PICK p \in Packet : p = Ack(l.put_file.port)
  BY BusyFile
<1>2. l \in Link /\ l.inbox \in Seq(Packet) /\ p.kind = "ack"
  BY <1>1, BusyFile, LinkFields, PacketFields
<1>3. PICK n : n = Send(l, p)
  OBVIOUS
<1>4. Given(l, n, p) /\ SameFile(l, n) /\ Sound(n)
  BY <1>3, SendIs
<1>5. ~n.lost /\ Busy(n) /\ n.buf = p
  BY <1>4 DEF Given, Ours, SameFile, Busy
<1>6. n.put_file = l.put_file /\ n.left = l.left /\ n.put_file_state = l.put_file_state
  BY <1>4 DEF SameFile
<1>7. CASE l.epsr = 0
  <2>1. m = n
    BY <1>1, <1>3, <1>7, StartIs
  <2>2. n.sending /\ n.inbox = l.inbox
    BY <1>4, <1>7 DEF Given
  <2>3. Acking(n, o, r, s)
    BY <1>1, <1>5, <1>6, <2>2 DEF Acking
  <2> QED BY <1>5, <2>1, <2>3 DEF Live, Protocol
<1>8. CASE l.epsr # 0
  <2>1. m = usblink_sent_packet(n)
    BY <1>1, <1>3, <1>8, StartIs
  <2>2. ~n.sending /\ n.inbox = Append(l.inbox, p)
    BY <1>4, <1>8 DEF Given
  <2>3. NoCommands(n.inbox)
    BY <1>2, <2>2, InboxGrows DEF Command
  <2> QED BY <1>1, <1>4, <1>5, <1>6, <2>1, <2>2, <2>3, AckSent
<1> QED BY <1>7, <1>8

\* The emulator acknowledges an answer that ends the transfer.
LEMMA CloseStarted ==
    ASSUME NEW l, Sound(l), l.put_file_state = 0, NEW o, NEW r, NEW s,
           NoReplies(o), AllStale(l.inbox, r, s), NEW service \in Services,
           NEW m, m = usblink_start_send(l, Ack(service))
    PROVE  Protocol(m, o, r, s)
<1>1. PICK p \in Packet : p = Ack(service)
  BY PacketFields
<1>2. l.inbox \in Seq(Packet) /\ p.kind = "ack"
  BY <1>1, LinkFields, PacketFields DEF Sound
<1>3. PICK n : n = Send(l, p)
  OBVIOUS
<1>4. Given(l, n, p) /\ SameFile(l, n) /\ Sound(n)
  BY <1>3, SendIs
<1>5. n.put_file_state = 0 /\ n.buf = p
  BY <1>4 DEF SameFile, Given
<1>6. m = n
  <2>1. usblink_sent_packet(n) = n
    BY <1>5, NextIs, <1>4 DEF usblink_sent_packet
  <2> QED BY <1>1, <1>3, <2>1, StartIs
<1>7. AllStale(n.inbox, r, s) /\ Stale(p, r, s)
  <2>1. Stale(p, r, s)
    BY <1>2 DEF Stale
  <2>2. n.inbox = l.inbox \/ n.inbox = Append(l.inbox, p)
    BY <1>4 DEF Given
  <2> QED BY <1>2, <2>1, <2>2, InboxGrows
<1>8. Quiet(n, o, r, s)
  BY <1>5, <1>7 DEF Quiet, Busy
<1> QED BY <1>6, <1>8 DEF Protocol

\* What the calculator's answer does: the next step, or the end of the transfer.
LEMMA AnswerIs ==
    ASSUME NEW l, Sound(l), Busy(l), NEW n, n = l.put_file_state
    PROVE  /\ n = 1 => put_file_next(l, "ack") = At(l, 2)
           /\ n = 17 => put_file_next(l, "ack") = At(l, 18)
           /\ n = 2 => put_file_next(l, "04") = At(l, 3)
           /\ n = 18 => put_file_next(l, "04") = At(l, 19)
           /\ n = 4 => put_file_next(l, "ack") = send_data(l)
           /\ n = 20 => put_file_next(l, "ack") = At(l, 21)
           /\ n = 21 => put_file_next(l, "FF 00") = At(l, 3)
           /\ n \in {2, 18, 21} => put_file_next(l, "no") = Close(l)
<1>1. l.put_file_state # 0
  BY DEF Busy
<1>2. ASSUME NEW in, Wanted(l, in) PROVE put_file_next(l, in) = Advance(l)
  BY <1>1, <1>2, NextIs
<1>3. ASSUME n \in {1, 17, 4, 20} PROVE put_file_next(l, "ack") = Advance(l)
  <2>1. Wanted(l, "ack")
    BY <1>3, WantedIs
  <2> QED BY <1>2, <2>1
<1>4. ASSUME n \in {2, 18} PROVE put_file_next(l, "04") = Advance(l)
  <2>1. Wanted(l, "04")
    BY <1>4, WantedIs
  <2> QED BY <1>2, <2>1
<1>5. ASSUME n = 21 PROVE put_file_next(l, "FF 00") = Advance(l)
  <2>1. Wanted(l, "FF 00")
    BY <1>5, WantedIs
  <2> QED BY <1>2, <2>1
<1>6. ASSUME n \in {2, 18, 21} PROVE put_file_next(l, "no") = Close(l)
  <2>1. ~Wanted(l, "no")
    BY <1>6, WantedIs
  <2> QED BY <1>1, <2>1, NextIs
<1>7. /\ n = 1 => Advance(l) = At(l, 2)
      /\ n = 17 => Advance(l) = At(l, 18)
      /\ n = 2 => Advance(l) = At(l, 3)
      /\ n = 18 => Advance(l) = At(l, 19)
      /\ n = 4 => Advance(l) = send_data(l)
      /\ n = 20 => Advance(l) = At(l, 21)
      /\ n = 21 => Advance(l) = At(l, 3)
  BY AdvanceIs
<1> QED BY <1>3, <1>4, <1>5, <1>6, <1>7

LEMMA SaidIs ==
    \A a, service : Said(a, service).kind = a /\ Said(a, service).src = service
BY DEF Said

\* A transfer goes on at the step k, with what the calculator has still to say.
Continues(l, m, k) ==
    /\ Sound(m) /\ Busy(m) /\ m.put_file_state = k
    /\ m.put_file = l.put_file /\ m.left = l.left
    /\ (Ours(m) <=> Ours(l)) /\ m.lost = l.lost /\ m.inbox = l.inbox

LEMMA AtBusy ==
    ASSUME NEW l, Sound(l), Busy(l), NEW k, k \in {2, 3, 18, 19, 21},
           NEW m, m = At(l, k)
    PROVE  Continues(l, m, k)
<1>1. k \in States \ {0} /\ k # DONE /\ k # 0
  BY DEF States
<1>2. l.put_file # NULL
  BY BusyFile
<1>3. /\ Sound(m) /\ m.put_file_state = k /\ SameBuffer(l, m)
      /\ m.put_file = l.put_file /\ m.left = l.left
  BY <1>1, <1>2, AtIs
<1> QED BY <1>1, <1>3 DEF Busy, SameBuffer, Ours, Continues

LEMMA AnswerReceived ==
    ASSUME NEW l, Sound(l), Busy(l), ~l.lost,
           NEW o \in Seq(Message), o # <<>>, Head(o).src \in Services,
           NEW r, NEW s \in Seq(Nat \X Nat), Answered(l, o, r, s),
           NEW m, m = usblink_received_packet(l, Head(o))
    PROVE  Protocol(m, Tail(o), r, s)
<1>1. PICK in \in Message, q \in Seq(Message) : in = Head(o) /\ q = Tail(o)
  <2>1. Head(o) \in Message /\ Tail(o) \in Seq(Message)
    OBVIOUS
  <2> QED BY <2>1, Zenon
<1>2. PICK f, v : f = l.put_file /\ v = f.port
  OBVIOUS
<1>3. l.put_file \in Files /\ f.size \in Nat /\ v \in Services /\ l.inbox \in Seq(Packet)
  BY <1>2, BusyFile, LinkFields
<1>4. in.src # "other"
  BY <1>1
<1>5. PICK a \in {"04", "no"} :
         /\ \/ /\ l.put_file_state = IF v = "os" THEN 17 ELSE 1
               /\ Two(o, v, "ack", a)
            \/ /\ l.put_file_state = IF v = "os" THEN 18 ELSE 2
               /\ One(o, v, a)
         /\ a = "04" => r = f /\ s = <<>>
  BY <1>2 DEF Answered
<1>6. l.left = f.size /\ ~Ours(l) /\ NoCommands(l.inbox)
  BY <1>2 DEF Answered
<1>7. PICK n : n = put_file_next(l, in.kind)
  OBVIOUS
<1>8. in.src \in Services
  BY <1>1
<1>9. /\ in.kind = "ack" => m = n
      /\ in.kind \in {"04", "no"} => m = usblink_start_send(n, Ack(in.src))
  BY <1>1, <1>7, <1>8, ReceivedIs
<1>10. CASE Two(o, v, "ack", a) /\ l.put_file_state = IF v = "os" THEN 17 ELSE 1
  <2>1. in = Said("ack", v) /\ One(q, v, a)
    BY <1>1, <1>4, <1>10, OutboxShrinks
  <2>2. PICK k \in {2, 18} : k = IF v = "os" THEN 18 ELSE 2
    OBVIOUS
  <2>3. m = At(l, k)
    <3>1. m = put_file_next(l, "ack")
      BY <1>7, <1>9, <2>1, SaidIs
    <3> QED BY <1>10, <2>2, <3>1, AnswerIs
  <2>4. /\ Busy(m) /\ m.put_file_state = k /\ m.put_file = f /\ m.left = f.size
        /\ ~Ours(m) /\ ~m.lost /\ NoCommands(m.inbox)
    <3>1. Continues(l, m, k)
      BY <2>3, AtBusy
    <3> QED BY <1>2, <1>6, <3>1 DEF Continues
  <2>5. Answered(m, q, r, s)
    BY <1>2, <1>5, <2>1, <2>2, <2>4 DEF Answered
  <2> QED BY <1>1, <2>4, <2>5 DEF Live, Protocol
<1>11. CASE One(o, v, a) /\ l.put_file_state = IF v = "os" THEN 18 ELSE 2
  <2>1. in = Said(a, v) /\ NoReplies(q)
    BY <1>1, <1>4, <1>11, OutboxShrinks
  <2>2. in.kind = a /\ in.src = v
    BY <2>1, SaidIs
  <2>3. m = usblink_start_send(n, Ack(v))
    BY <1>9, <2>2
  <2>4. CASE a = "04"
    <3>1. PICK k \in {3, 19} : k = IF v = "os" THEN 19 ELSE 3
      OBVIOUS
    <3>2. n = At(l, k)
      BY <1>7, <1>11, <2>2, <2>4, <3>1, AnswerIs
    <3>3. /\ Sound(n) /\ Busy(n) /\ n.put_file_state = k /\ n.put_file = f /\ n.left = f.size
          /\ ~Ours(n) /\ ~n.lost /\ NoCommands(n.inbox)
      <4>1. Continues(l, n, k)
        BY <3>2, AtBusy
      <4> QED BY <1>2, <1>6, <4>1 DEF Continues
    <3>4. r = f /\ s = <<>> /\ Len(s) = 0
      BY <1>5, <2>4
    <3>5. Upto(n.put_file, n.left, r, s)
      BY <1>3, <3>3, <3>4 DEF Upto
    <3>6. n.put_file_state = IF Header(n.put_file, s) THEN 19 ELSE 3
      BY <1>2, <3>1, <3>3, <3>4 DEF Header
    <3>7. m = usblink_start_send(n, Ack(n.put_file.port))
      BY <1>2, <2>3, <3>3
    <3> QED BY <1>1, <2>1, <3>3, <3>5, <3>6, <3>7, AckStarted
  <2>5. CASE a = "no"
    <3>1. n = Close(l)
      BY <1>7, <1>11, <2>2, <2>5, AnswerIs
    <3>2. Sound(n) /\ n.put_file_state = 0 /\ n.inbox = l.inbox
      BY <3>1, CloseIs DEF SameBuffer
    <3>3. AllStale(n.inbox, r, s)
      BY <1>3, <1>6, <3>2, InboxGrows, PacketFields
    <3> QED BY <1>1, <1>3, <2>1, <2>3, <3>2, <3>3, CloseStarted
  <2> QED BY <2>4, <2>5
<1> QED BY <1>5, <1>10, <1>11

LEMMA SavedReceived ==
    ASSUME NEW l, Sound(l), Busy(l), ~l.lost,
           NEW o \in Seq(Message), o # <<>>, Head(o).src \in Services,
           NEW r, NEW s \in Seq(Nat \X Nat), Saved(l, o, r, s),
           NEW m, m = usblink_received_packet(l, Head(o))
    PROVE  Protocol(m, Tail(o), r, s)
<1>1. PICK in \in Message, q \in Seq(Message) : in = Head(o) /\ q = Tail(o)
  <2>1. Head(o) \in Message /\ Tail(o) \in Seq(Message)
    OBVIOUS
  <2> QED BY <2>1, Zenon
<1>2. PICK f, v : f = l.put_file /\ v = f.port
  OBVIOUS
<1>3. l.put_file \in Files /\ f.size \in Nat /\ v \in Services /\ l.inbox \in Seq(Packet)
  BY <1>2, BusyFile, LinkFields
<1>4. in.src # "other" /\ in.src \in Services
  BY <1>1
<1>5. ~Ours(l) /\ NoCommands(l.inbox)
  BY DEF Saved
<1>6. PICK n : n = put_file_next(l, in.kind)
  OBVIOUS
<1>7. /\ in.kind = "ack" => m = n
      /\ in.kind \in {"FF 00", "no"} => m = usblink_start_send(n, Ack(in.src))
  <2>1. /\ in.kind = "ack" => m = n
        /\ in.kind \notin {"address", "ack"} => m = usblink_start_send(n, Ack(in.src))
    BY <1>1, <1>4, <1>6, ReceivedIs
  <2>2. in.kind \in {"FF 00", "no"} => in.kind \notin {"address", "ack"}
    OBVIOUS
  <2> QED BY <2>1, <2>2
<1>8. CASE /\ l.put_file_state = 4 /\ Upto(f, l.left, r, s) /\ ~Header(f, s)
           /\ One(o, v, "ack")
  <2>1. in = Said("ack", v) /\ NoReplies(q)
    BY <1>1, <1>4, <1>8, OutboxShrinks
  <2>2. m = send_data(l)
    <3>1. m = put_file_next(l, "ack")
      BY <1>6, <1>7, <2>1, SaidIs
    <3> QED BY <1>8, <3>1, AnswerIs
  <2> QED BY <1>1, <1>2, <1>5, <1>8, <2>1, <2>2, DataSent
<1>9. ASSUME NEW a \in {"FF 00", "no"}, l.put_file_state = 20, Two(o, v, "ack", a),
             a = "FF 00" => Upto(f, l.left, r, s) /\ s # <<>>
      PROVE  Protocol(m, q, r, s)
  <2>1. in = Said("ack", v) /\ One(q, v, a)
    BY <1>1, <1>4, <1>9, OutboxShrinks
  <2>2. m = At(l, 21)
    <3>1. m = put_file_next(l, "ack")
      BY <1>6, <1>7, <2>1, SaidIs
    <3> QED BY <1>9, <3>1, AnswerIs
  <2>3. /\ Busy(m) /\ m.put_file_state = 21 /\ m.put_file = f /\ m.left = l.left
        /\ ~Ours(m) /\ ~m.lost /\ NoCommands(m.inbox)
    <3>1. PICK k : k \in {2, 3, 18, 19, 21} /\ k = 21
      OBVIOUS
    <3>2. m = At(l, k)
      BY <2>2, <3>1
    <3>3. Continues(l, m, k)
      BY <3>1, <3>2, AtBusy
    <3> QED BY <1>2, <1>5, <3>1, <3>3 DEF Continues
  <2>4. Saved(m, q, r, s)
    BY <1>2, <1>9, <2>1, <2>3 DEF Saved
  <2> QED BY <2>3, <2>4 DEF Live, Protocol
<1>10. ASSUME NEW a \in {"FF 00", "no"}, l.put_file_state = 21, One(o, v, a),
              a = "FF 00" => Upto(f, l.left, r, s) /\ s # <<>>
       PROVE  Protocol(m, q, r, s)
  <2>1. in = Said(a, v) /\ NoReplies(q)
    BY <1>1, <1>4, <1>10, OutboxShrinks
  <2>2. in.kind = a /\ in.src = v
    BY <2>1, SaidIs
  <2>3. m = usblink_start_send(n, Ack(v))
    BY <1>7, <1>10, <2>2
  <2>4. CASE a = "FF 00"
    <3>1. n = At(l, 3)
      BY <1>6, <1>10, <2>2, <2>4, AnswerIs
    <3>2. /\ Sound(n) /\ Busy(n) /\ n.put_file_state = 3 /\ n.put_file = f
          /\ n.left = l.left /\ ~Ours(n) /\ ~n.lost /\ NoCommands(n.inbox)
      <4>1. PICK k : k \in {2, 3, 18, 19, 21} /\ k = 3
        OBVIOUS
      <4>2. n = At(l, k)
        BY <3>1, <4>1
      <4>3. Continues(l, n, k)
        BY <4>1, <4>2, AtBusy
      <4> QED BY <1>2, <1>5, <4>1, <4>3 DEF Continues
    <3>3. Upto(n.put_file, n.left, r, s) /\ ~Header(n.put_file, s)
      BY <1>10, <2>4, <3>2 DEF Header
    <3>4. m = usblink_start_send(n, Ack(n.put_file.port))
      BY <1>2, <2>3, <3>2
    <3> QED BY <2>1, <3>2, <3>3, <3>4, AckStarted
  <2>5. CASE a = "no"
    <3>1. n = Close(l)
      BY <1>6, <1>10, <2>2, <2>5, AnswerIs
    <3>2. Sound(n) /\ n.put_file_state = 0 /\ n.inbox = l.inbox
      BY <3>1, CloseIs DEF SameBuffer
    <3>3. AllStale(n.inbox, r, s)
      BY <1>3, <1>5, <3>2, InboxGrows, PacketFields
    <3> QED BY <1>3, <2>1, <2>3, <3>2, <3>3, CloseStarted
  <2> QED BY <1>10, <2>4, <2>5
<1> QED BY <1>1, <1>2, <1>8, <1>9, <1>10 DEF Saved

\* An acknowledgement that is left over from a transfer that lost a packet is sent.
LEMMA QuietSent ==
    ASSUME NEW l, Sound(l), l.sending, NEW o, NEW r, NEW s \in Seq(Nat \X Nat),
           Quiet(l, o, r, s), l.buf.kind = "ack", l.buf.dst \in Services,
           NEW n, Sound(n), SameFile(l, n), n.buf = l.buf, ~n.sending, n.lost = l.lost,
           AllStale(n.inbox, r, s),
           NEW m, m = usblink_sent_packet(n)
    PROVE  Protocol(m, o, r, s)
<1>1. m = put_file_next(n, NULL)
  BY DEF usblink_sent_packet
<1>2. /\ n.put_file = l.put_file /\ n.left = l.left
      /\ n.put_file_state = l.put_file_state
  BY DEF SameFile
<1>3. NoReplies(o) /\ (Busy(n) => n.lost)
  BY <1>2 DEF Quiet, Busy
<1>4. CASE n.put_file_state = 0
  <2>1. m = n
    BY <1>1, <1>4, NextIs
  <2> QED BY <1>3, <1>4, <2>1 DEF Quiet, Protocol
<1>5. CASE n.put_file_state # 0 /\ ~Wanted(n, NULL)
  <2>1. m = Close(n)
    BY <1>1, <1>5, NextIs
  <2>2. /\ m.put_file_state = 0 /\ ~m.sending /\ AllStale(m.inbox, r, s)
    BY <2>1, CloseIs DEF SameBuffer
  <2> QED BY <1>3, <2>2 DEF Quiet, Busy, Protocol
<1>6. CASE n.put_file_state # 0 /\ Wanted(n, NULL)
  <2>1. m = Advance(n)
    BY <1>1, <1>6, NextIs
  <2>2. PICK c \in {3, 19} : c = n.put_file_state
    <3>1. n.put_file_state \in {0, 1, 2, 3, 4, 5, 6, 17, 18, 19, 20, 21}
      BY Steps DEF Sound
    <3>2. NULL # "ack" /\ NULL # "04" /\ NULL # "FF 00"
      BY UsbAssumption
    <3>3. n.put_file_state \notin {1, 2, 4, 5, 6, 17, 18, 20, 21}
      BY <1>6, <3>2, WantedIs
    <3> QED BY <1>6, <3>1, <3>3
  <2>3. PICK k \in States \ {0} : k = c + 1 /\ k \in {4, 20}
    BY <2>2 DEF States
  <2>4. PICK a : a = At(n, k) /\ m = send_data(a)
    BY <2>1, <2>2, <2>3, AdvanceIs
  <2>5. Busy(n)
    BY <2>2 DEF Busy
  <2>6. /\ Sound(a) /\ SameBuffer(n, a) /\ a.put_file_state = k
        /\ a.put_file = n.put_file /\ a.left = n.left /\ a.put_file # NULL
    BY <2>4, <2>5, BusyFile, AtIs
  <2>7. a.inbox \in Seq(Packet) /\ AllStale(a.inbox, r, s) /\ a.lost /\ ~a.sending
    <3>1. a.inbox \in Seq(Packet)
      BY <2>6, LinkFields DEF Sound
    <3> QED BY <1>3, <2>5, <2>6, <3>1 DEF SameBuffer
  <2>8. IF a.left = 0 THEN Upto(a.put_file, 0, r, s) ELSE ~Short(r, s)
    <3>1. l.put_file_state \in {3, 19}
      BY <1>2, <2>2
    <3> QED BY <1>2, <2>6, <3>1 DEF Quiet
  <2>9. CASE a.left = 0
    <3>1. m = At(a, DONE) /\ DONE \in States \ {0}
      BY <2>4, <2>6, <2>9, SendDataIs DEF States
    <3>2. /\ SameBuffer(a, m) /\ m.put_file_state = DONE /\ m.put_file = a.put_file
      BY <2>6, <3>1, AtIs
    <3>3. /\ AllStale(m.inbox, r, s) /\ ~m.sending /\ ~Busy(m)
          /\ Upto(m.put_file, 0, r, s)
      BY <2>7, <2>8, <2>9, <3>2 DEF SameBuffer, Busy
    <3> QED BY <1>3, <3>3 DEF Quiet, Protocol
  <2>10. CASE a.left # 0
    <3>1. PICK p : p = Data(a.put_file, a.put_file.size - m.left)
      OBVIOUS
    <3>2. /\ m.put_file_state = k /\ Given(a, m, p) /\ Sound(m)
          /\ m.put_file = a.put_file /\ m.left = a.left - 1 /\ m.left + 1 <= a.put_file.size
      BY <2>4, <2>6, <2>10, <3>1, SendDataIs
    <3>3. m.left \in Nat /\ a.put_file \in Files /\ a.put_file.size \in Nat
      <4>1. m \in Link /\ a \in Link
        BY <2>6, <3>2 DEF Sound
      <4>2. a.put_file \in Files
        BY <2>6, <4>1, LinkFields
      <4> QED BY <4>1, <4>2, LinkFields, FileFields
    <3>4. p \in Packet /\ p.kind = "05"
      <4>1. a.put_file.size - m.left \in Nat
        BY <3>2, <3>3
      <4> QED BY <3>1, <3>3, <4>1, PacketFields
    <3>5. Stale(p, r, s) /\ m.lost
      BY <2>7, <2>8, <2>10, <3>2, <3>4 DEF Stale, Given
    <3>6. AllStale(m.inbox, r, s)
      <4>1. m.inbox = a.inbox \/ m.inbox = Append(a.inbox, p)
        BY <3>2 DEF Given
      <4> QED BY <2>7, <3>4, <3>5, <4>1, InboxGrows
    <3>7. m.buf = p /\ m.put_file_state \notin {3, 19, DONE}
      BY <2>3, <3>2 DEF Given
    <3> QED BY <1>3, <3>5, <3>6, <3>7 DEF Quiet, Protocol
  <2> QED BY <2>9, <2>10
<1> QED BY <1>4, <1>5, <1>6

LEMMA TransmitKept ==
    ASSUME NEW l, Sound(l), NEW o \in Seq(Message), o # <<>>,
           NEW r, NEW s \in Seq(Nat \X Nat), Protocol(l, o, r, s),
           NEW m, m = usblink_received_packet(l, Head(o))
    PROVE  Protocol(m, Tail(o), r, s)
<1>1. PICK in \in Message, q \in Seq(Message) : in = Head(o) /\ q = Tail(o)
  <2>1. Head(o) \in Message /\ Tail(o) \in Seq(Message)
    OBVIOUS
  <2> QED BY <2>1, Zenon
<1>2. in.src \in Services \/ in.src = "other"
  BY DEF Message
<1>3. CASE in.src = "other"
  <2>1. KeepsOutbox(o, q)
    BY <1>1, <1>3, KeepsLess
  <2>2. in.src \notin Services
    BY <1>3
  <2>3. /\ in.kind = "address" => m = Send(l, Address)
        /\ in.kind = "ack" => m = l
        /\ in.kind \notin {"address", "ack"} => m = usblink_start_send(l, Ack(in.src))
    BY <1>1, <2>2, ReceivedIs
  <2>4. PICK a \in Packet, b \in Packet :
           a = Address /\ b = Ack(in.src) /\ a.dst = "other" /\ b.dst = "other"
    BY <1>3, PacketFields
  <2>5. \/ m = Send(l, a) \/ m = Send(l, b) \/ m = l
    BY <2>3, <2>4, ForeignSent
  <2>6. ASSUME NEW p \in Packet, p.dst = "other", m = Send(l, p)
        PROVE  Protocol(m, q, r, s)
    <3>1. Given(l, m, p) /\ SameFile(l, m)
      BY <2>6, ForeignSent
    <3> QED BY <2>1, <2>6, <3>1, ForeignKept
  <2>7. ASSUME m = l PROVE Protocol(m, q, r, s)
    <3>1. SameFile(l, l) /\ KeepsInbox(l.inbox, l.inbox, r, s)
      BY KeepsSame DEF SameFile
    <3>2. Protocol(l, q, r, s)
      BY <2>1, <3>1, ProtocolKept
    <3> QED BY <2>7, <3>2
  <2> QED BY <1>1, <2>4, <2>5, <2>6, <2>7
<1>4. CASE in.src \in Services
  <2>1. ~NoReplies(o)
    <3>1. in.src # "other"
      BY <1>4
    <3> QED BY <1>1, <3>1, OutboxShrinks
  <2>2. ~Quiet(l, o, r, s) /\ ~Asking(l, o, r, s) /\ ~Acking(l, o, r, s)
        /\ ~Sending(l, o, r, s)
    BY <2>1 DEF Quiet, Asking, Acking, Sending
  <2>3. Busy(l) /\ ~l.lost /\ (Answered(l, o, r, s) \/ Saved(l, o, r, s))
    BY <2>2 DEF Protocol, Live
  <2> QED BY <1>1, <1>4, <2>3, AnswerReceived, SavedReceived
<1> QED BY <1>2, <1>3, <1>4

\* EPPRIME: a packet that waits is taken.
LEMMA PrimeKept ==
    ASSUME NEW l, Sound(l), l.epsr < Buffers,
           NEW o, NEW r, NEW s \in Seq(Nat \X Nat), Protocol(l, o, r, s),
           NEW m, m = usblink_complete_send([l EXCEPT !.epsr = @ + 1])
    PROVE  Protocol(m, o, r, s)
<1>0. KeepsOutbox(o, o)
  BY KeepsSame
<1>1. l \in Link /\ l.inbox \in Seq(Packet) /\ l.buf \in Packet
  BY LinkFields DEF Sound
<1>2. CASE ~l.sending
  <2>1. /\ SameFile(l, m) /\ m.buf = l.buf /\ m.inbox = l.inbox /\ m.lost = l.lost
        /\ ~m.sending
    BY <1>2, PrimeIs
  <2>2. KeepsInbox(l.inbox, m.inbox, r, s)
    BY <2>1, KeepsSame
  <2>3. m.sending = l.sending
    <3>1. Sound(m)
      BY PrimeIs
    <3>2. m \in Link
      BY <3>1 DEF Sound
    <3>3. m.sending \in BOOLEAN /\ l.sending \in BOOLEAN
      BY <1>1, <3>2, LinkFields
    <3> QED BY <1>2, <2>1, <3>3
  <2> QED BY <1>0, <1>2, <2>1, <2>2, <2>3, ProtocolKept
<1>3. ASSUME l.sending PROVE Protocol(m, o, r, s)
  <2>1. PICK n : n = Gone(l)
    OBVIOUS
  <2>2. m = usblink_sent_packet(n)
    BY <1>3, <2>1, PrimeIs
  <2>3. /\ Sound(n) /\ SameFile(l, n) /\ n.buf = l.buf /\ n.sending = FALSE
        /\ n.inbox = Append(l.inbox, l.buf) /\ n.lost = l.lost
    BY <1>3, <2>1, GoneIs
  <2>4. /\ n.put_file = l.put_file /\ n.left = l.left
        /\ n.put_file_state = l.put_file_state
    BY <2>3 DEF SameFile
  <2>5. ~(l.buf.kind = "ack" /\ l.buf.dst \in Services) => m = n
    BY <2>2, <2>3 DEF usblink_sent_packet
  <2>6. CASE Quiet(l, o, r, s)
    <3>1. Stale(l.buf, r, s)
      BY <1>3, <2>6 DEF Quiet
    <3>2. AllStale(n.inbox, r, s)
      BY <1>1, <2>3, <2>6, <3>1, InboxGrows DEF Quiet
    <3>3. /\ Busy(n) => n.lost
          /\ NoReplies(o)
          /\ n.put_file_state = DONE => Upto(n.put_file, 0, r, s)
      BY <2>3, <2>4, <2>6 DEF Quiet, Busy
    <3>4. Quiet(n, o, r, s)
      BY <2>3, <3>2, <3>3 DEF Quiet
    <3>5. CASE m = n
      BY <3>4, <3>5 DEF Protocol
    <3>6. CASE l.buf.kind = "ack" /\ l.buf.dst \in Services /\ m # n
      BY <1>3, <2>2, <2>3, <2>4, <2>6, <3>2, <3>3, <3>6, QuietSent
    <3> QED BY <2>5, <3>5, <3>6
  <2>7. CASE Busy(l) /\ ~l.lost /\ Live(l, o, r, s) /\ ~Ours(l)
    <3>1. ~Command(l.buf) /\ l.buf.dst \notin Services
      BY <1>1, <1>3, <2>7, OursIs DEF Ours
    <3>2. KeepsInbox(l.inbox, n.inbox, r, s)
      BY <1>1, <2>3, <3>1, KeepsMore
    <3>3. ~Ours(n)
      BY <2>3 DEF Ours
    <3>4. Live(n, o, r, s)
      BY <1>0, <2>3, <2>7, <3>2, <3>3, LiveKept
    <3>5. m = n /\ Busy(n) /\ ~n.lost
      BY <2>3, <2>4, <2>5, <2>7, <3>1 DEF Busy
    <3> QED BY <3>4, <3>5 DEF Protocol
  <2>8. CASE Busy(l) /\ ~l.lost /\ Live(l, o, r, s) /\ Ours(l)
    <3>0. ~n.lost /\ Busy(n) /\ ~Ours(n)
      BY <2>3, <2>4, <2>8 DEF Ours, Busy
    <3>1. CASE Asking(l, o, r, s)
      <4>1. l.buf = Start(l.put_file) /\ AllStale(l.inbox, r, s)
        BY <2>8, <3>1 DEF Asking
      <4>2. l.buf.kind = "03"
        BY <2>8, <4>1, BusyFile, PacketFields
      <4>3. m = n
        BY <2>5, <4>2
      <4>4. Holds(n.inbox, Start(n.put_file), r, s)
        BY <1>1, <2>3, <2>4, <4>1, InboxGrows
      <4>5. Asking(n, o, r, s)
        BY <2>4, <3>0, <3>1, <4>4 DEF Asking
      <4> QED BY <3>0, <4>3, <4>5 DEF Live, Protocol
    <3>2. CASE Acking(l, o, r, s)
      <4>1. NoCommands(n.inbox)
        <5>1. l.buf = Ack(l.put_file.port) /\ NoCommands(l.inbox)
          BY <3>2 DEF Acking
        <5>2. ~Command(l.buf)
          BY <2>8, <5>1, BusyFile, PacketFields DEF Command
        <5> QED BY <1>1, <2>3, <5>1, <5>2, InboxGrows
      <4>2. /\ n.put_file_state = IF Header(n.put_file, s) THEN 19 ELSE 3
            /\ Upto(n.put_file, n.left, r, s) /\ NoReplies(o)
            /\ n.buf = Ack(n.put_file.port)
        BY <2>3, <2>4, <3>2 DEF Acking
      <4>3. ~n.sending
        BY <2>3
      <4> QED BY <2>2, <2>3, <3>0, <4>1, <4>2, <4>3, AckSent
    <3>3. CASE Sending(l, o, r, s)
      <4>1. PICK p : p = Data(l.put_file, l.put_file.size - l.left)
        OBVIOUS
      <4>2. l.buf = p /\ NoCommands(l.inbox)
        BY <2>8, <3>3, <4>1 DEF Sending
      <4>3. AllStale(l.inbox, r, s)
        BY <1>1, <4>2, InboxGrows
      <4>4. p.kind = "05"
        <5>1. p \in Packet /\ ~Stale(p, r, s)
          BY <2>8, <3>3, <4>1, Awaited DEF Sending
        <5>2. p.kind \in {"03", "05"}
          BY <5>1 DEF Stale
        <5>3. p.kind # "03"
          <6>1. l.put_file \in Files /\ l.put_file.size - l.left \in Nat
            BY <2>8, <3>3, BusyFile, Awaited DEF Sending
          <6>2. Data(l.put_file, l.put_file.size - l.left).kind = "05"
            BY <6>1, PacketFields
          <6> QED BY <4>1, <6>2
        <5> QED BY <5>2, <5>3
      <4>5. m = n
        BY <2>5, <4>2, <4>4
      <4>6. Holds(n.inbox, p, r, s)
        BY <1>1, <2>3, <4>2, <4>3, InboxGrows
      <4>7. Sending(n, o, r, s)
        BY <2>4, <3>0, <3>3, <4>1, <4>6 DEF Sending
      <4> QED BY <3>0, <4>5, <4>7 DEF Live, Protocol
    <3>4. ~Answered(l, o, r, s) /\ ~Saved(l, o, r, s)
      BY <2>8 DEF Answered, Saved
    <3> QED BY <2>8, <3>1, <3>2, <3>3, <3>4 DEF Live
  <2> QED BY <2>6, <2>7, <2>8 DEF Protocol
<1> QED BY <1>2, <1>3

\* The calculator makes nothing of the packet it reads.
LEMMA StaleTaken ==
    ASSUME NEW l, Sound(l), l.inbox # <<>>, NEW o, NEW r, NEW s \in Seq(Nat \X Nat),
           Protocol(l, o, r, s), Stale(Head(l.inbox), r, s),
           NEW m, m = [l EXCEPT !.inbox = Tail(@)]
    PROVE  Protocol(m, o, r, s)
<1>1. /\ SameFile(l, m) /\ m.buf = l.buf /\ m.sending = l.sending
      /\ m.inbox = Tail(l.inbox) /\ m.lost = l.lost
  BY TakeIs
<1>2. l.inbox \in Seq(Packet)
  BY LinkFields DEF Sound
<1>3. KeepsInbox(l.inbox, m.inbox, r, s) /\ KeepsOutbox(o, o)
  BY <1>1, <1>2, KeepsLess, KeepsSame
<1> QED BY <1>1, <1>3, ProtocolKept

\* It reads a packet of a transfer: the one that is awaited, and alone.
LEMMA CommandTaken ==
    ASSUME NEW l, Sound(l), l.inbox # <<>>, NEW o, NEW r, NEW s \in Seq(Nat \X Nat),
           Protocol(l, o, r, s), ~Stale(Head(l.inbox), r, s),
           NEW m, Sound(m), SameFile(l, m), m.sending = l.sending, m.buf = l.buf,
           m.inbox = Tail(l.inbox), m.lost = l.lost,
           NEW p \in Packet, p = Head(l.inbox)
    PROVE  /\ Busy(l) /\ ~l.lost /\ NoReplies(o)
           /\ Sound(m) /\ Busy(m) /\ ~m.lost /\ ~Ours(m) /\ NoCommands(m.inbox)
           /\ SameFile(l, m)
           /\ \/ p = Start(l.put_file) /\ Asking(l, o, r, s)
              \/ p = Data(l.put_file, l.put_file.size - l.left) /\ Sending(l, o, r, s)
<1>1. /\ SameFile(l, m) /\ m.buf = l.buf /\ m.sending = l.sending
      /\ m.inbox = Tail(l.inbox) /\ m.lost = l.lost /\ Sound(m) /\ p \in Packet
  OBVIOUS
<1>2. l.inbox \in Seq(Packet)
  BY LinkFields DEF Sound
<1>3. ~AllStale(l.inbox, r, s) /\ ~NoCommands(l.inbox)
  <2>1. ~AllStale(l.inbox, r, s)
    BY <1>2, InboxShrinks
  <2> QED BY <1>1, <1>2, <2>1, InboxGrows
<1>4. Busy(l) /\ ~l.lost /\ Live(l, o, r, s)
  BY <1>3 DEF Protocol, Quiet
<1>5. ~Answered(l, o, r, s) /\ ~Acking(l, o, r, s) /\ ~Saved(l, o, r, s)
  BY <1>3 DEF Answered, Acking, Saved
<1>6. \A q : Holds(l.inbox, q, r, s) => p = q /\ NoCommands(m.inbox)
  BY <1>1, <1>2, InboxShrinks
<1>7. CASE Asking(l, o, r, s)
  <2>1. ~Ours(l) /\ Holds(l.inbox, Start(l.put_file), r, s) /\ NoReplies(o)
    BY <1>3, <1>7 DEF Asking
  <2>2. p = Start(l.put_file) /\ NoCommands(m.inbox)
    BY <1>6, <2>1
  <2> QED BY <1>1, <1>4, <1>7, <2>1, <2>2 DEF Ours, Busy, SameFile
<1>8. CASE Sending(l, o, r, s)
  <2>1. /\ ~Ours(l) /\ Holds(l.inbox, Data(l.put_file, l.put_file.size - l.left), r, s)
        /\ NoReplies(o)
    BY <1>3, <1>8 DEF Sending
  <2>2. p = Data(l.put_file, l.put_file.size - l.left) /\ NoCommands(m.inbox)
    BY <1>6, <2>1
  <2> QED BY <1>1, <1>4, <1>8, <2>1, <2>2 DEF Ours, Busy, SameFile
<1> QED BY <1>4, <1>5, <1>7, <1>8 DEF Live

LEMMA PrefixExtended ==
    ASSUME NEW r \in Files, NEW s \in Seq(Nat \X Nat), Prefix(r, s), Len(s) < r.size,
           NEW k \in Nat, k = Len(s) + 1
    PROVE  Prefix(r, Append(s, <<r.id, k>>))
<1>1. r # NULL /\ r.id \in Nat /\ r.size \in Nat
  BY FileFields
<1>2. PICK n \in Nat : n = Len(s) /\ k = n + 1
  OBVIOUS
<1>3. PICK d \in Nat \X Nat : d = <<r.id, k>>
  BY <1>1
<1>4. PICK q : q = Append(s, d)
  OBVIOUS
<1>5. Len(q) = n + 1 /\ q[n + 1] = d /\ \A i \in 1 .. n : q[i] = s[i]
  BY <1>2, <1>4
<1>6. \A i \in 1 .. n : s[i] = <<r.id, i>>
  BY <1>1, <1>2 DEF Prefix
<1>7. Len(q) <= r.size
  BY <1>1, <1>2, <1>5
<1>8. ASSUME NEW i \in 1 .. Len(q) PROVE q[i] = <<r.id, i>>
  <2>1. i \in 1 .. n \/ i = n + 1
    BY <1>5
  <2>2. CASE i \in 1 .. n
    BY <1>5, <1>6, <2>2
  <2>3. CASE i = n + 1
    BY <1>2, <1>3, <1>5, <2>3
  <2> QED BY <2>1, <2>2, <2>3
<1> QED BY <1>3, <1>4, <1>7, <1>8 DEF Prefix

LEMMA ProcessKept ==
    ASSUME Typed, IInv, Process
    PROVE  IInv'
<1>1. PICK l, m, p : l = link /\ m = link' /\ p = Head(link.inbox)
  OBVIOUS
<1>2. PICK o, r, s : o = outbox /\ r = rx /\ s = stored
  OBVIOUS
<1>3. /\ Sound(l) /\ l.inbox # <<>> /\ m = [l EXCEPT !.inbox = Tail(@)]
      /\ o \in Seq(Message) /\ s \in Seq(Nat \X Nat) /\ r \in Files \cup {NULL}
  BY <1>1, <1>2 DEF Typed, Process
<1>4. Protocol(l, o, r, s) /\ Prefix(r, s) /\ p = Head(l.inbox) /\ p \in Packet
  BY <1>1, <1>2, <1>3, TakeIs DEF IInv
<1>5. CASE Stale(p, r, s)
  <2>1. p.kind # "03" /\ ~(p.kind = "05" /\ Incomplete)
    BY <1>2, <1>5 DEF Stale, Short, Incomplete
  <2>2. UNCHANGED <<outbox, rx, stored>>
    BY <1>1, <2>1 DEF Process
  <2>3. Protocol(m, o, r, s)
    BY <1>3, <1>4, <1>5, StaleTaken
  <2> QED BY <1>1, <1>2, <1>4, <2>2, <2>3 DEF IInv
<1>6. CASE ~Stale(p, r, s)
  <2>1. /\ Busy(l) /\ NoReplies(o)
        /\ Sound(m) /\ Busy(m) /\ ~m.lost /\ ~Ours(m) /\ NoCommands(m.inbox)
        /\ SameFile(l, m)
        /\ \/ p = Start(l.put_file) /\ Asking(l, o, r, s)
           \/ p = Data(l.put_file, l.put_file.size - l.left) /\ Sending(l, o, r, s)
    <3>1. ~Stale(Head(l.inbox), r, s)
      BY <1>4, <1>6
    <3>2. /\ Sound(m) /\ SameFile(l, m) /\ m.sending = l.sending /\ m.buf = l.buf
          /\ m.inbox = Tail(l.inbox) /\ m.lost = l.lost
      BY <1>3, TakeIs
    <3> QED BY <1>3, <1>4, <3>1, <3>2, CommandTaken
  <2>2. PICK f, v : f = l.put_file /\ v = f.port
    OBVIOUS
  <2>3. /\ f \in Files /\ f # NULL /\ f.size \in Nat /\ f.id \in Nat /\ v \in Services
        /\ l.left \in Nat
    BY <2>1, <2>2, BusyFile, FileFields, <1>3
  <2>4. m.put_file = f /\ m.left = l.left /\ m.put_file_state = l.put_file_state
    BY <2>1, <2>2 DEF SameFile
  <2>5. \A a \in {"ack", "04", "no", "FF 00"} : Said(a, v) \in Message
    BY <2>3 DEF Said, Message
  <2>6. CASE p = Start(f) /\ Asking(l, o, r, s)
    <3>1. p.kind = "03" /\ p.dst = v /\ p.data[1] = f
      BY <2>2, <2>3, <2>6, PacketFields
    <3>2. PICK a \in {"04", "no"} :
             /\ Reply(v, <<"ack", a>>)
             /\ a = "04" => rx' = f /\ stored' = <<>>
             /\ a = "no" => rx' = r /\ stored' = s
      <4>1. p.kind \notin {"05", "ack", "address"}
        BY <3>1
      <4>2. \/ Reply(v, <<"ack", "04">>) /\ rx' = f /\ stored' = <<>>
            \/ Reply(v, <<"ack", "no">>) /\ rx' = r /\ stored' = s
        BY <1>1, <1>2, <3>1, <4>1 DEF Process
      <4>3. CASE Reply(v, <<"ack", "04">>) /\ rx' = f /\ stored' = <<>>
        <5>1. "04" \in {"04", "no"} /\ "04" # "no"
          OBVIOUS
        <5> QED BY <4>3, <5>1, Zenon
      <4>4. CASE Reply(v, <<"ack", "no">>) /\ rx' = r /\ stored' = s
        <5>1. "no" \in {"04", "no"} /\ "no" # "04"
          OBVIOUS
        <5> QED BY <4>4, <5>1, Zenon
      <4> QED BY <4>2, <4>3, <4>4
    <3>3. Two(outbox', v, "ack", a)
      <4>1. outbox' = o \o <<Said("ack", v), Said(a, v)>>
        BY <1>2, <3>2, ReplyIs
      <4>2. Said("ack", v) \in Message /\ Said(a, v) \in Message
        BY <2>5
      <4> QED BY <1>3, <2>1, <4>1, <4>2, OutboxAnswers
    <3>4. Answered(m, outbox', rx', stored')
      BY <2>1, <2>2, <2>4, <2>6, <3>2, <3>3 DEF Answered, Asking
    <3>5. Prefix(rx', stored')
      <4>1. Prefix(f, <<>>)
        <5>1. Len(<<>>) = 0 /\ 0 <= f.size
          BY <2>3
        <5> QED BY <5>1 DEF Prefix
      <4> QED BY <1>4, <3>2, <4>1
    <3> QED BY <1>1, <2>1, <3>4, <3>5 DEF IInv, Live, Protocol
  <2>7. CASE p = Data(f, f.size - l.left) /\ Sending(l, o, r, s)
    <3>1. PICK k \in Nat : k = f.size - l.left /\ k = Len(s) + 1 /\ r = f /\ Len(s) < f.size
                           /\ Len(s) + 1 + l.left = f.size
      <4>1. Upto(f, l.left + 1, r, s)
        BY <2>2, <2>7 DEF Sending
      <4>2. PICK n \in Nat : n = Len(s)
        BY <1>3
      <4>3. r = f /\ n + (l.left + 1) = f.size
        BY <4>1, <4>2 DEF Upto
      <4>4. n + 1 \in Nat /\ n + 1 = f.size - l.left /\ n < f.size /\ n + 1 + l.left = f.size
        BY <2>3, <4>3
      <4> QED BY <4>2, <4>3, <4>4
    <3>2. p.kind = "05" /\ p.dst = v /\ p.data = <<f.id, k>>
      BY <2>2, <2>3, <2>7, <3>1, PacketFields
    <3>3. PICK q \in Seq(Nat \X Nat) : q = Append(s, p.data)
      <4>1. <<f.id, k>> \in Nat \X Nat
        BY <2>3
      <4>2. Append(s, <<f.id, k>>) \in Seq(Nat \X Nat)
        BY <1>3, <4>1, Appended
      <4> QED BY <3>2, <4>2, Zenon
    <3>4. Len(q) = Len(s) + 1 /\ q # <<>>
      BY <1>3, <3>3
    <3>5. Upto(f, l.left, r, q) /\ ~Header(f, q)
      BY <3>1, <3>4 DEF Upto, Header
    <3>6. Prefix(r, q)
      BY <1>3, <1>4, <2>3, <3>1, <3>2, <3>3, PrefixExtended
    <3>7. p.kind \notin {"03", "ack", "address"} /\ Incomplete
      BY <1>2, <2>3, <3>1, <3>2 DEF Incomplete
    <3>8. /\ stored' = q
          /\ IF v = "os" /\ s = <<>>
             THEN \/ Reply(v, <<"ack", "FF 00">>) /\ rx' = r
                  \/ Reply(v, <<"ack", "no">>) /\ rx' = NULL
             ELSE Reply(v, <<"ack">>) /\ rx' = r
      BY <1>1, <1>2, <3>2, <3>3, <3>7 DEF Process
    <3>9. CASE v = "os" /\ s = <<>>
      <4>1. PICK a \in {"FF 00", "no"} : Reply(v, <<"ack", a>>)
                                         /\ (a = "FF 00" => rx' = r)
                                         /\ (rx' = r \/ rx' = NULL)
        <5>1. CASE Reply(v, <<"ack", "FF 00">>) /\ rx' = r
          <6>1. "FF 00" \in {"FF 00", "no"}
            OBVIOUS
          <6> QED BY <5>1, <6>1, Zenon
        <5>2. CASE Reply(v, <<"ack", "no">>) /\ rx' = NULL
          <6>1. "no" \in {"FF 00", "no"} /\ "no" # "FF 00"
            OBVIOUS
          <6> QED BY <5>2, <6>1, Zenon
        <5> QED BY <3>8, <3>9, <5>1, <5>2
      <4>2. Two(outbox', v, "ack", a)
        <5>1. outbox' = o \o <<Said("ack", v), Said(a, v)>>
          BY <1>2, <4>1, ReplyIs
        <5>2. Said("ack", v) \in Message /\ Said(a, v) \in Message
          BY <2>5
        <5> QED BY <1>3, <2>1, <5>1, <5>2, OutboxAnswers
      <4>3. l.put_file_state = 20
        BY <2>2, <2>7, <3>9 DEF Sending, Header
      <4>4. Saved(m, outbox', rx', stored')
        BY <2>1, <2>2, <2>4, <3>4, <3>5, <3>8, <4>1, <4>2, <4>3 DEF Saved
      <4>5. Prefix(rx', stored')
        BY <3>6, <3>8, <4>1 DEF Prefix
      <4> QED BY <1>1, <2>1, <4>4, <4>5 DEF IInv, Live, Protocol
    <3>10. CASE ~(v = "os" /\ s = <<>>)
      <4>1. Reply(v, <<"ack">>) /\ rx' = r
        BY <3>8, <3>10
      <4>2. One(outbox', v, "ack")
        <5>1. outbox' = o \o <<Said("ack", v)>>
          BY <1>2, <4>1, ReplyIs
        <5>2. Said("ack", v) \in Message
          BY <2>5
        <5> QED BY <1>3, <2>1, <5>1, <5>2, OutboxAnswers
      <4>3. l.put_file_state = 4
        BY <2>2, <2>7, <3>10 DEF Sending, Header
      <4>4. Saved(m, outbox', rx', stored')
        BY <2>1, <2>2, <2>4, <3>5, <3>8, <4>1, <4>2, <4>3 DEF Saved
      <4> QED BY <1>1, <2>1, <3>6, <3>8, <4>1, <4>4 DEF IInv, Live, Protocol
    <3> QED BY <3>9, <3>10
  <2> QED BY <2>1, <2>2, <2>6, <2>7
<1> QED BY <1>5, <1>6

LEMMA PutKept ==
    ASSUME NEW l, Sound(l), NEW o, NEW r, NEW s, Protocol(l, o, r, s),
           ~Busy(l) \/ l.lost, NEW f \in Files, NEW m, m = put(l, f)
    PROVE  Protocol(m, o, r, s)
<1>4. Quiet(l, o, r, s)
  BY DEF Protocol
<1>5. l.inbox \in Seq(Packet) /\ Start(f) \in Packet
  BY LinkFields, PacketFields DEF Sound
<1>6. /\ m.put_file = f /\ m.left = f.size
      /\ m.put_file_state = IF f.port = "os" THEN 17 ELSE 1
      /\ m.buf = Start(f) /\ (m.sending <=> l.epsr = 0) /\ ~m.lost
      /\ m.inbox = IF l.epsr = 0 THEN l.inbox ELSE Append(l.inbox, Start(f))
  BY PutIs
<1>7. NoReplies(o) /\ AllStale(l.inbox, r, s)
  BY <1>4 DEF Quiet
<1>8. \/ m.sending /\ m.buf = Start(m.put_file) /\ AllStale(m.inbox, r, s)
      \/ ~Ours(m) /\ Holds(m.inbox, Start(m.put_file), r, s)
  <2>1. CASE l.epsr = 0
    BY <1>6, <1>7, <2>1
  <2>2. CASE l.epsr # 0
    <3>1. ~m.sending /\ m.inbox = Append(l.inbox, Start(f))
      BY <1>6, <2>2
    <3>2. Holds(m.inbox, Start(f), r, s)
      BY <1>5, <1>7, <3>1, InboxGrows
    <3> QED BY <1>6, <3>1, <3>2 DEF Ours
  <2> QED BY <2>1, <2>2
<1>9. Asking(m, o, r, s) /\ Busy(m) /\ ~m.lost
  BY <1>6, <1>7, <1>8 DEF Asking, Busy
<1> QED BY <1>9 DEF Live, Protocol

LEMMA Nothing ==
    /\ NoReplies(<<>>) /\ NoCommands(<<>>)
    /\ \A r, s : AllStale(<<>>, r, s)
<1>1. Len(<<>>) = 0
  OBVIOUS
<1> QED BY <1>1 DEF NoReplies, NoCommands, AllStale

LEMMA UptoIsComplete ==
    ASSUME NEW f \in Files, NEW r, NEW s \in Seq(Nat \X Nat), Upto(f, 0, r, s)
    PROVE  ~Short(r, s)
<1>1. PICK n \in Nat : n = Len(s)
  OBVIOUS
<1>2. r = f /\ f.size \in Nat /\ n + 0 = f.size
  BY <1>1, FileFields DEF Upto
<1> QED BY <1>1, <1>2 DEF Short

LEMMA Forgotten ==
    ASSUME Typed, Prefix(rx, stored), Forget
    PROVE  /\ outbox' = <<>> /\ ~Short(rx', stored') /\ Prefix(rx', stored')
           /\ ~Short(rx, stored) => rx' = rx /\ stored' = stored
<1>1. CASE Short(rx, stored)
  <2>1. rx' = NULL /\ outbox' = <<>>
    BY <1>1 DEF Forget, Short
  <2> QED BY <1>1, <2>1 DEF Short, Prefix
<1>2. CASE ~Short(rx, stored)
  <2>1. rx' = rx /\ stored' = stored /\ outbox' = <<>>
    BY <1>2 DEF Forget, Short
  <2> QED BY <1>2, <2>1
<1> QED BY <1>1, <1>2

LEMMA ResetKept ==
    ASSUME Typed, IInv, Reset
    PROVE  IInv'
<1>1. PICK l, m : l = link /\ m = link'
  OBVIOUS
<1>2. Sound(l) /\ m = [Close(l) EXCEPT !.sending = FALSE, !.epsr = 0,
                                       !.inbox = <<>>, !.lost = FALSE]
  BY <1>1 DEF Typed, Reset
<1>3. m.put_file_state = 0 /\ m.sending = FALSE /\ m.inbox = <<>>
  BY <1>2, ResetIs
<1>4. outbox' = <<>> /\ Prefix(rx', stored')
  BY Forgotten DEF Reset, IInv
<1>5. Quiet(m, outbox', rx', stored')
  BY <1>3, <1>4, Nothing DEF Quiet, Busy
<1> QED BY <1>1, <1>4, <1>5 DEF IInv, Protocol

LEMMA UnprimedKept ==
    ASSUME NEW l, Sound(l), NEW o, NEW r, NEW s \in Seq(Nat \X Nat), Protocol(l, o, r, s),
           NEW b \in BOOLEAN,
           b = (l.lost \/ (Busy(l) /\ ~(l.sending /\ l.buf.kind = "03"))),
           NEW m, m = [l EXCEPT !.epsr = 0, !.inbox = <<>>, !.lost = b],
           NEW c, NEW d, ~Short(c, d), ~Short(r, s) => c = r /\ d = s
    PROVE  Protocol(m, <<>>, c, d)
<1>5. /\ SameFile(l, m) /\ m.buf = l.buf /\ m.sending = l.sending
      /\ m.inbox = <<>> /\ (m.lost <=> b)
  <2>1. Emptied(l, m, b)
    BY EmptyIs
  <2> QED BY <2>1 DEF Emptied
<1>6. /\ m.put_file = l.put_file /\ m.left = l.left
      /\ m.put_file_state = l.put_file_state
  BY <1>5 DEF SameFile
<1>10. NoReplies(<<>>) /\ AllStale(m.inbox, c, d)
  BY <1>5, Nothing
<1>11. CASE Quiet(l, o, r, s)
  <2>1. m.sending => Stale(m.buf, c, d)
    BY <1>5, <1>11 DEF Quiet, Stale
  <2>2. Busy(m) => m.lost
    BY <1>5, <1>6, <1>11 DEF Quiet, Busy
  <2>3. m.put_file_state = DONE => Upto(m.put_file, 0, c, d)
    <3> SUFFICES ASSUME l.put_file_state = DONE PROVE Upto(l.put_file, 0, c, d)
      BY <1>6
    <3>1. Upto(l.put_file, 0, r, s) /\ l.put_file \in Files
      BY <1>11, BusyFile DEF Quiet
    <3> QED BY <3>1, UptoIsComplete
  <2>4. m.sending /\ m.buf.dst \in Services /\ m.put_file_state \in {3, 19} =>
           IF m.left = 0 THEN Upto(m.put_file, 0, c, d) ELSE ~Short(c, d)
    <3> SUFFICES ASSUME l.sending, l.buf.dst \in Services, l.put_file_state \in {3, 19},
                        l.left = 0
                 PROVE  Upto(l.put_file, 0, c, d)
      BY <1>5, <1>6
    <3>1. Upto(l.put_file, 0, r, s)
      BY <1>11 DEF Quiet
    <3>2. l.put_file \in Files
      <4>1. Busy(l)
        BY DEF Busy
      <4> QED BY <4>1, BusyFile
    <3> QED BY <3>1, <3>2, UptoIsComplete
  <2>5. Quiet(m, <<>>, c, d)
    BY <1>10, <2>1, <2>2, <2>3, <2>4 DEF Quiet
  <2> QED BY <2>5 DEF Protocol
<1>12. CASE Busy(l) /\ ~l.lost /\ Live(l, o, r, s) /\ l.sending /\ l.buf.kind = "03"
  <2>1. Ours(l)
    BY <1>12 DEF Ours, OfTransfer
  <2>2. ~Answered(l, o, r, s) /\ ~Saved(l, o, r, s)
    BY <2>1 DEF Answered, Saved
  <2>3. l.put_file \in Files /\ l.put_file.port \in Services
    BY <1>12, BusyFile
  <2>4. ~Acking(l, o, r, s)
    <3>1. Ack(l.put_file.port).kind # "03"
      BY <2>3, PacketFields
    <3> QED BY <1>12, <3>1 DEF Acking
  <2>5. ~Sending(l, o, r, s)
    <3>1. ASSUME Sending(l, o, r, s) PROVE l.put_file.size - l.left \in Nat
      BY <1>12, <3>1, Awaited DEF Sending
    <3>2. ASSUME Sending(l, o, r, s) PROVE FALSE
      <4>1. Data(l.put_file, l.put_file.size - l.left).kind = "05"
        BY <2>3, <3>1, <3>2, PacketFields
      <4> QED BY <1>12, <2>1, <3>2, <4>1 DEF Sending
    <3> QED BY <3>2
  <2>6. Asking(l, o, r, s)
    BY <1>12, <2>2, <2>4, <2>5 DEF Live
  <2>7. l.sending /\ l.buf = Start(l.put_file)
    BY <2>1, <2>6 DEF Asking
  <2>8. Asking(m, <<>>, c, d)
    BY <1>5, <1>6, <1>10, <2>6, <2>7 DEF Asking
  <2>9. Busy(m) /\ ~m.lost
    BY <1>5, <1>6, <1>12 DEF Busy
  <2> QED BY <2>8, <2>9 DEF Live, Protocol
<1>13. CASE Busy(l) /\ ~l.lost /\ Live(l, o, r, s) /\ ~(l.sending /\ l.buf.kind = "03")
  <2>1. m.lost /\ Busy(m)
    BY <1>5, <1>6, <1>13 DEF Busy
  <2>2. m.sending => Stale(m.buf, c, d)
    BY <1>5, <1>13 DEF Stale
  <2>3. m.put_file_state # DONE
    BY <2>1 DEF Busy
  <2>4. m.sending /\ m.buf.dst \in Services /\ m.put_file_state \in {3, 19} =>
           IF m.left = 0 THEN Upto(m.put_file, 0, c, d) ELSE ~Short(c, d)
    <3> SUFFICES ASSUME l.put_file_state \in {3, 19}, l.left = 0,
                        l.sending, l.buf.dst \in Services
                 PROVE  Upto(l.put_file, 0, c, d)
      BY <1>5, <1>6
    <3>1. Acking(l, o, r, s)
      <4>1. ~Asking(l, o, r, s)
        BY DEF Asking
      <4>2. ~Sending(l, o, r, s)
        BY DEF Sending
      <4>3. ~Answered(l, o, r, s) /\ ~Saved(l, o, r, s)
        BY DEF Answered, Saved, Ours, OfTransfer
      <4> QED BY <1>13, <4>1, <4>2, <4>3 DEF Live
    <3>2. Upto(l.put_file, 0, r, s)
      BY <3>1 DEF Acking
    <3>3. l.put_file \in Files
      BY <1>13, BusyFile
    <3> QED BY <3>2, <3>3, UptoIsComplete
  <2>5. Quiet(m, <<>>, c, d)
    BY <1>10, <2>1, <2>2, <2>3, <2>4 DEF Quiet
  <2> QED BY <2>5 DEF Protocol
<1> QED BY <1>11, <1>12, <1>13 DEF Protocol

\* The endpoints are given up: a transfer that is not just beginning has lost a packet.
LEMMA UnprimeKept ==
    ASSUME Typed, IInv, link' = Unprime(link), Forget
    PROVE  IInv'
<1>1. Sound(link) /\ stored \in Seq(Nat \X Nat) /\ Protocol(link, outbox, rx, stored)
  BY DEF Typed, IInv
<1>2. PICK b \in BOOLEAN :
         /\ b = (link.lost \/ (Busy(link) /\ ~(link.sending /\ link.buf.kind = "03")))
         /\ link' = [link EXCEPT !.epsr = 0, !.inbox = <<>>, !.lost = b]
  BY <1>1, UnprimeIs
<1>3. /\ outbox' = <<>> /\ ~Short(rx', stored') /\ Prefix(rx', stored')
      /\ ~Short(rx, stored) => rx' = rx /\ stored' = stored
  BY Forgotten DEF IInv
<1>4. Protocol(link', <<>>, rx', stored')
  BY <1>1, <1>2, <1>3, UnprimedKept
<1> QED BY <1>3, <1>4 DEF IInv

LEMMA KeptInit == Init => IInv
<1> SUFFICES ASSUME Init PROVE IInv
  OBVIOUS
<1>1. /\ link.put_file_state = 0 /\ link.sending = FALSE /\ link.inbox = <<>>
      /\ outbox = <<>> /\ rx = NULL
  BY DEF Init
<1>2. Quiet(link, outbox, rx, stored)
  BY <1>1, Nothing DEF Quiet, Busy
<1>3. Prefix(rx, stored)
  BY <1>1 DEF Prefix
<1> QED BY <1>2, <1>3 DEF IInv, Protocol

LEMMA KeptNext ==
    ASSUME Overlap = FALSE, Typed, IInv, [Next]_vars
    PROVE  IInv'
<1>0. /\ Sound(link) /\ outbox \in Seq(Message) /\ stored \in Seq(Nat \X Nat)
      /\ Protocol(link, outbox, rx, stored) /\ Prefix(rx, stored)
  BY DEF Typed, IInv
<1>1. ASSUME NEW f \in Files, Put(f) PROVE IInv'
  <2>1. (~Busy(link) \/ link.lost) /\ link' = put(link, f)
    BY <1>1 DEF Put
  <2>2. Protocol(link', outbox, rx, stored)
    BY <1>0, <2>1, PutKept
  <2> QED BY <1>0, <1>1, <2>2 DEF Put, IInv, calcVars
<1>2. ASSUME usblink_connect PROVE IInv'
  BY <1>0, <1>2 DEF usblink_connect, IInv, calcVars
<1>3. ASSUME Reset PROVE IInv'
  BY <1>3, ResetKept
<1>4. ASSUME usblink_timer PROVE IInv'
  <2>1. CASE Forget /\ link' = Unprime(link)
    BY <2>1, UnprimeKept
  <2>2. CASE UNCHANGED <<link, usb, outbox, rx, stored>>
    BY <1>0, <2>2 DEF IInv
  <2> QED BY <1>4, <2>1, <2>2 DEF usblink_timer
<1>5. ASSUME NEW e \in Message, e.src = "other", outbox' = Append(outbox, e),
             UNCHANGED <<link, rx, stored>>
      PROVE  IInv'
  <2>1. KeepsOutbox(outbox, outbox') /\ KeepsInbox(link.inbox, link.inbox, rx, stored)
        /\ SameFile(link, link)
    BY <1>0, <1>5, KeepsMore, KeepsSame DEF SameFile
  <2>2. Protocol(link, outbox', rx, stored)
    BY <1>0, <2>1, ProtocolKept
  <2> QED BY <1>0, <1>5, <2>2 DEF IInv
<1>6. Said("address", "other") \in Message /\ Said("address", "other").src = "other"
      /\ Said("other", "other") \in Message /\ Said("other", "other").src = "other"
  BY DEF Said, Message
<1>7. ASSUME Answer PROVE IInv'
  <2>1. UNCHANGED <<link, rx, stored>>
        /\ (outbox' = Append(outbox, Said("address", "other")) \/ outbox' = outbox)
    BY <1>7 DEF Answer, Said
  <2>2. CASE outbox' = outbox
    BY <1>0, <2>1, <2>2 DEF IInv
  <2> QED BY <1>5, <1>6, <2>1, <2>2
<1>8. ASSUME Prime PROVE IInv'
  <2>1. link' = usblink_complete_send([link EXCEPT !.epsr = @ + 1]) /\ link.epsr < Buffers
    <3>1. link.epsr + Len(link.inbox) < Buffers
      BY <1>8 DEF Prime
    <3>2. link.epsr \in Nat /\ link.inbox \in Seq(Packet) /\ Buffers \in Nat
      BY <1>0, LinkFields DEF Sound
    <3>3. PICK n \in Nat : n = Len(link.inbox)
      BY <3>2
    <3>4. link.epsr < Buffers
      BY <3>1, <3>2, <3>3
    <3> QED BY <1>8, <3>4 DEF Prime
  <2>2. Protocol(link', outbox, rx, stored)
    BY <1>0, <2>1, PrimeKept
  <2> QED BY <1>0, <1>8, <2>2 DEF Prime, IInv, calcVars
<1>9. ASSUME Flush PROVE IInv'
  <2>1. /\ SameFile(link, link') /\ link'.buf = link.buf /\ link'.sending = link.sending
        /\ link'.inbox = link.inbox /\ link'.lost = link.lost
    BY <1>0, <1>9, FlushIs DEF Flush
  <2>2. KeepsOutbox(outbox, outbox) /\ KeepsInbox(link.inbox, link'.inbox, rx, stored)
    BY <2>1, KeepsSame
  <2>3. Protocol(link', outbox, rx, stored)
    BY <1>0, <2>1, <2>2, ProtocolKept
  <2> QED BY <1>0, <1>9, <2>3 DEF Flush, IInv, calcVars
<1>10. ASSUME Transmit PROVE IInv'
  <2>1. /\ outbox # <<>> /\ link' = usblink_received_packet(link, Head(outbox))
        /\ outbox' = Tail(outbox) /\ UNCHANGED <<rx, stored>>
    BY <1>10 DEF Transmit
  <2>2. Protocol(link', Tail(outbox), rx, stored)
    BY <1>0, <2>1, TransmitKept
  <2> QED BY <1>0, <2>1, <2>2 DEF IInv
<1>11. ASSUME SendOther PROVE IInv'
  <2>1. UNCHANGED <<link, rx, stored>> /\ outbox' = Append(outbox, Said("other", "other"))
    BY <1>11 DEF SendOther, Said
  <2> QED BY <1>5, <1>6, <2>1
<1>12. ASSUME Process PROVE IInv'
  BY <1>12, ProcessKept
<1>13. ASSUME usb_reset PROVE IInv'
  BY <1>13, UnprimeKept DEF usb_reset
<1>14. CASE UNCHANGED vars
  BY <1>0, <1>14 DEF vars, calcVars, IInv
<1> QED BY <1>1, <1>2, <1>3, <1>4, <1>7, <1>8, <1>9, <1>10, <1>11, <1>12, <1>13, <1>14
     DEF Next

LEMMA SameStart ==
    ASSUME NEW S, NEW s \in Seq(S), NEW t \in Seq(S), NEW n \in Nat,
           n <= Len(s), n <= Len(t), \A i \in 1 .. n : s[i] = t[i]
    PROVE  SubSeq(s, 1, n) = SubSeq(t, 1, n)
<1>1. SubSeq(s, 1, n) = [i \in 1 .. n |-> s[i]]
  OBVIOUS
<1>2. SubSeq(t, 1, n) = [i \in 1 .. n |-> t[i]]
  OBVIOUS
<1> QED BY <1>1, <1>2

LEMMA Tabulated ==
    ASSUME NEW S, NEW n \in Nat, NEW t \in [1 .. n -> S]
    PROVE  t \in Seq(S) /\ Len(t) = n
OBVIOUS

LEMMA PrefixIs ==
    ASSUME NEW r \in Files, NEW s \in Seq(Nat \X Nat), Prefix(r, s)
    PROVE  IsPrefix(s, [k \in 1 .. r.size |-> <<r.id, k>>])
<1>1. r # NULL /\ r.id \in Nat /\ r.size \in Nat
  BY FileFields
<1>2. PICK n \in Nat : n = Len(s)
  OBVIOUS
<1>3. n <= r.size /\ \A i \in 1 .. n : s[i] = <<r.id, i>>
  BY <1>1, <1>2 DEF Prefix
<1>4. PICK t : t = [k \in 1 .. r.size |-> <<r.id, k>>]
  OBVIOUS
<1>5. t \in Seq(Nat \X Nat) /\ Len(t) = r.size /\ \A i \in 1 .. n : t[i] = <<r.id, i>>
  <2>1. \A i \in 1 .. r.size : <<r.id, i>> \in Nat \X Nat
    BY <1>1
  <2>2. t \in Seq(Nat \X Nat) /\ Len(t) = r.size
    <3>1. t \in [1 .. r.size -> Nat \X Nat]
      BY <1>4, <2>1
    <3> QED BY <1>1, <3>1, Tabulated
  <2>3. \A i \in 1 .. n : i \in 1 .. r.size
    BY <1>1, <1>3
  <2> QED BY <1>4, <2>2, <2>3
<1>6. SubSeq(s, 1, n) = SubSeq(t, 1, n)
  <2>1. n <= Len(s) /\ n <= Len(t)
    BY <1>2, <1>3, <1>5
  <2>2. ASSUME NEW i \in 1 .. n PROVE s[i] = t[i]
    BY <1>3, <1>5, Zenon
  <2> QED BY <1>5, <2>1, <2>2, SameStart
<1> QED BY <1>2, <1>3, <1>4, <1>5, <1>6 DEF IsPrefix

\* When the user sends one file at a time (usblink.c has room for one), whatever is
\* lost and reset in between, the calculator stores the packets of the file it was
\* told of, in their order, and a transfer that the emulator completes has brought
\* all of them.
THEOREM FilesAreStored == Overlap = FALSE /\ Spec => []FileArrives
<1> SUFFICES ASSUME Overlap = FALSE PROVE Spec => []FileArrives
  OBVIOUS
<1>1. Spec => []Typed
  BY TypedInit, TypedNext, PTL DEF Spec
<1>2. IInv /\ Typed /\ [Next]_vars => IInv'
  BY KeptNext
<1>3. Spec => []IInv
  BY <1>1, <1>2, KeptInit, PTL DEF Spec
<1>4. Typed /\ IInv => FileArrives
  <2> SUFFICES ASSUME Typed, IInv PROVE FileArrives
    OBVIOUS
  <2>0. /\ Sound(link) /\ rx \in Files \cup {NULL} /\ stored \in Seq(Nat \X Nat)
        /\ Protocol(link, outbox, rx, stored) /\ Prefix(rx, stored)
    BY DEF Typed, IInv
  <2>1. rx # NULL => IsPrefix(stored, [k \in 1 .. rx.size |-> <<rx.id, k>>])
    BY <2>0, PrefixIs
  <2>2. ASSUME link.put_file_state = DONE PROVE rx = link.put_file /\ Len(stored) = rx.size
    <3>1. ~Busy(link)
      BY <2>2 DEF Busy
    <3>2. Upto(link.put_file, 0, rx, stored)
      BY <2>0, <2>2, <3>1 DEF Protocol, Quiet
    <3>3. PICK n \in Nat : n = Len(stored)
      BY <2>0
    <3>4. rx = link.put_file /\ n + 0 = rx.size
      BY <3>2, <3>3 DEF Upto
    <3> QED BY <3>3, <3>4
  <2> QED BY <2>1, <2>2 DEF FileArrives
<1> QED BY <1>1, <1>3, <1>4, PTL
=============================================================================
