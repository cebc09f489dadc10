----------------------------- MODULE HalfDuplex -----------------------------
(***************************************************************************)
(* A line that carries whole packets between two ends, one at a time and   *)
(* without loss.  The emulated link port and the calculator's routines     *)
(* that drive it implement it on two wires, bit by bit (LinkPort).         *)
(***************************************************************************)
CONSTANTS
    Ends,     \* the two ends
    Packets,
    None      \* no packet

VARIABLES
    wire,     \* the packet under way, or None
    heard     \* the last packet that each end has received

vars == <<wire, heard>>

UnderWay == [to : Ends, packet : Packets]

Init == wire = None /\ heard = [e \in Ends |-> None]

Put == /\ wire = None
       /\ wire' \in UnderWay
       /\ UNCHANGED heard

\* An end that has received a packet may have its own to send already, and the
\* end that has sent one the next one.
Take == /\ wire # None
        /\ heard' = [heard EXCEPT ![wire.to] = wire.packet]
        /\ wire' \in UnderWay \cup {None}

Next == Put \/ Take

Spec == Init /\ [][Next]_vars

=============================================================================
