----------------------------- MODULE MCLinkPort -----------------------------
(***************************************************************************)
(* Bytes of 3 bits, of which two stand for no command, and four files: two *)
(* variables, one, one whose contents are missing, and one that is empty.  *)
(* The first announces less than its last variable holds.                  *)
(***************************************************************************)
EXTENDS LinkPort

MCCode == [RTS |-> <<1, 0, 0>>, DATA |-> <<0, 1, 0>>, SKIP |-> <<1, 1, 1>>,
           ACK |-> <<0, 0, 0>>, CTS |-> <<1, 1, 0>>, EOT |-> <<0, 0, 1>>]

Name == <<1, 0, 1>>
MCFiles == {[parts |-> <<Name, <<0, 1, 1>>, Name, <<1, 0, 0>> >>, size |-> 3],
            [parts |-> <<Name, <<1, 1, 0>> >>, size |-> 2],
            [parts |-> <<Name>>, size |-> 2],
            [parts |-> <<>>, size |-> 0]}

=============================================================================
