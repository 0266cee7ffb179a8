------------------------------- MODULE MCTarget -------------------------------
(* Two components for TLC, one in each behaviour, that change what the     *)
(* target's memory holds: the breakpoint manager and the flash builder.    *)
(* They share no state.                                                    *)
EXTENDS MCBreakpoints, MCFlash

VARIABLE part

OneJob == FlashJob(Old, <<None, None, None, <<1, 1>>>>, TRUE, TRUE, FALSE, "read", TRUE, 0)

TargetInit ==
  /\ part \in {"breakpoints", "flash"}
  /\ Init /\ (part # "breakpoints" => image = [a \in Writable |-> i1] /\ core = "halted")
  /\ FlashInit /\ (part # "flash" => flJob = OneJob)

BreakpointsRun == part = "breakpoints" /\ Next /\ UNCHANGED <<part, flVars>>
FlashRuns      == part = "flash" /\ FlashNext /\ UNCHANGED <<part, vars>>

TargetNext == BreakpointsRun \/ FlashRuns
TargetSpec == TargetInit /\ [][TargetNext]_<<part, vars, flVars>>
=============================================================================
