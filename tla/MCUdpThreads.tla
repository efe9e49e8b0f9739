---------------------------- MODULE MCUdpThreads ----------------------------
(***************************************************************************)
(* A DHT and a tunnel on one stack, one thread of the application that     *)
(* makes every call and one that does not reset the stack.                 *)
(***************************************************************************)
EXTENDS UdpThreads

=============================================================================
