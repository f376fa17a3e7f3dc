----------------------------- MODULE MCCommands -----------------------------
(***************************************************************************)
(* One invocation of a command, with times on both sides of every          *)
(* threshold and paths on both sides of the range of detect_mtu.           *)
(***************************************************************************)
EXTENDS Commands

MCTimes == {1, 50, 51, 100, 101, 200, 201, 499, 500}

=============================================================================
