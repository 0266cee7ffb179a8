---------------------------- MODULE MCBreakpoints ----------------------------
(* Instances of BreakpointManager for TLC: two flash addresses and one or  *)
(* two RAM addresses, and programs of two instructions.                    *)
EXTENDS BreakpointManager, TLC

CONSTANTS f1, f2, r1, r2, i1, i2

Flash2Ram1 == {f1, f2, r1}
Flash1Ram1 == {f1, r1}
Ram1 == {r1}
Instrs == {i1, i2}
InstrsAlike == Permutations(Instrs)

RunOps   == {"resume", "step", "other", "write", "disconnect"}
ResetOps == {"resume", "reset"}
FaultOps == {"resume", "step", "other", "reset", "write_over", "disconnect",
             "disconnect_resume"}
NoFault  == {}
AnyFault == {"SW", "HW"}
=============================================================================
