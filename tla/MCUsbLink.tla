------------------------------ MODULE MCUsbLink ------------------------------
(***************************************************************************)
(* Two documents, one of them empty, and two OS files.                     *)
(***************************************************************************)
EXTENDS UsbLink

MCFiles == {[id |-> 1, size |-> 0, port |-> "doc"], [id |-> 2, size |-> 2, port |-> "doc"],
            [id |-> 3, size |-> 1, port |-> "os"],  [id |-> 4, size |-> 2, port |-> "os"]}

=============================================================================
