------------------------------- MODULE MCServers -------------------------------
(* Two servers for TLC, one in each behaviour: the GDB server with two     *)
(* gdbs, and the probe server with three threads of two clients.  They     *)
(* share no state.                                                         *)
EXTENDS MCGdb, RemoteProbe

VARIABLE part

TwoInOne == [t \in RpThread |-> IF t = "b1" THEN "B" ELSE "A"]

ServersInit ==
  part \in {"gdb", "stopped", "probe"} /\ Init /\ (part = "probe" => core = "halted") /\ RpInit

(* The GDB server with every command and a fault, and with stop() and     *)
(* three commands.                                                         *)
GdbRuns ==
  /\ part \in {"gdb", "stopped"} /\ Next /\ UNCHANGED <<part, rpVars>>
  /\ part = "gdb" => ~Stop
  /\ part = "stopped" => faults' = 0 /\ \A c \in Client : cmd'[c] \in {"none", "stopped"} \cup FewCommands
ProbeRuns == part = "probe" /\ RpNext /\ UNCHANGED <<part, vars>>

ServersNext == GdbRuns \/ ProbeRuns
ServersSpec == ServersInit /\ [][ServersNext]_<<part, vars, rpVars>>
=============================================================================
