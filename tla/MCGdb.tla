-------------------------------- MODULE MCGdb --------------------------------
(* Instances of the GDB server for TLC: two gdbs.                          *)
EXTENDS GdbServer, TLC

AllCommands == {"read", "!", "s", "D", "k", "R", "c"}
FewCommands == {"!", "D", "c"}
Stays  == {TRUE}
Exits  == {FALSE}
Gdbs == Permutations(Client)
NoFaults   == {}
TargetFaults == {"halt", "interrupt", "poll", "error", "release"}
=============================================================================
