------------------------------- MODULE MCPad -------------------------------
(***************************************************************************)
(* Small instances of PadPoll: a pad released, with Start held, or with    *)
(* the whole reset combo held; port B reliable but for a single missed     *)
(* reply, port A flaky and unplugged at will.                              *)
(***************************************************************************)
EXTENDS PadPoll

MCHeld == {{}, {"start"}, Combo}
MCMisses == [p \in Ports |-> 2 - p]
=============================================================================
