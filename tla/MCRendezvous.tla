---------------------------- MODULE MCRendezvous ----------------------------
(***************************************************************************)
(* Two nodes behind NATs that know only a public third one, the relay.     *)
(* There is one spare address, for a node whose NAT rebinds it.            *)
(***************************************************************************)
EXTENDS Rendezvous

CONSTANTS a, b, relay

MCAddr == 1 .. 4

MCHomeAddr == [n \in {a, b, relay} |-> CASE n = a -> 1 [] n = b -> 2 [] n = relay -> 3]

Relay == [id |-> relay, addr |-> 3]

MCWhiteList == [n \in {a, b, relay} |-> IF n = a THEN {Relay} ELSE {}]

MCBootList == [n \in {a, b, relay} |-> IF n = b THEN {Relay} ELSE {}]

\* The file of b has an old address as well; the ids of reloaded entries are unset
\* in the program, and nothing reads them.
MCBootListOld == [MCBootList EXCEPT ![b] = @ \cup {[id |-> relay, addr |-> 1]}]

MutualWants == {<<a, b>>, <<b, a>>}

=============================================================================
