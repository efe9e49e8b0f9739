----------------------------- MODULE bdProcess -----------------------------
(***************************************************************************)
(* One process: a DHT node with its hash space, and a tunnel, each with a  *)
(* thread of its own.  They have two steps in common: a node that is shut  *)
(* down clears its hash space, and a process that dies loses everything    *)
(* but the file.  Otherwise one moves at a time, as each thread keeps to   *)
(* its own mutex; nothing in the process uses what is in the hash space.   *)
(***************************************************************************)
EXTENDS bdNode, bdTunnel, bdHashSpace

processVars == <<nodeVars, tunnelVars, hashVars>>

NodeAlone == (DhtThread \/ Calls \/ Tick) /\ UNCHANGED <<tunnelVars, hashVars>>

Shutdown == shutdownNode /\ clearHash /\ UNCHANGED tunnelVars

Die == Crash /\ tunnelLost /\ HashLost

TunnelAlone == TunnelRuns /\ UNCHANGED <<nodeVars, hashVars>>

HashAlone == HashRuns /\ UNCHANGED <<nodeVars, tunnelVars>>

ProcessInit == NodeInit /\ TunnelInit /\ HashInit

ProcessNext == NodeAlone \/ Shutdown \/ Die \/ TunnelAlone \/ HashAlone

ProcessSpec == ProcessInit /\ [][ProcessNext]_processVars

\* Of all that is in the process.
TypeOK == NodeTypeOK /\ TunnelTypeOK /\ HashTypeOK
=============================================================================
