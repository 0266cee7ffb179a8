-------------------------------- MODULE MCCore --------------------------------
(* The caches of a core and the control of a core for TLC, one in each     *)
(* behaviour: CachedContext takes a change of the run token and the run,   *)
(* step or reset it announces as one step, CoreControl has what is between *)
(* the two.  They share no state.                                          *)
(*                                                                         *)
(* A behaviour of the register cache has the bytes of CFBP and parts of    *)
(* XPSR, or the stack pointers and the floats: no register of one kind     *)
(* shows a field of the other, or is looked for with it.                   *)
EXTENDS MCCaches, CoreControl

VARIABLE part

Kinds == [special |-> {"control_s", "primask_s", "apsr", "ipsr"}, plain |-> {"msp_s", "s0", "s1"}]

Asked(access) ==
  CASE access.kind = "readRegs" -> access.regs
    [] access.kind = "writeRegs" -> {access.writes[i].reg : i \in DOMAIN access.writes}
    [] OTHER -> {}

OfOneKind ==
  part \in DOMAIN Kinds =>
    /\ uses = "registers"
    /\ \A f, g \in Field \ Kinds[part] : fields[f] = fields[g]
    /\ \A r \in Asked(op) : FieldsOf[r] \subseteq Kinds[part]

CoreInit ==
  /\ part \in {"memory", "special", "plain", "control"}
  /\ \/ part \in DOMAIN Kinds /\ core \in {"halted", "running"}
        /\ uses = "registers" /\ fields = [f \in Field |-> 0]
     \/ part \notin DOMAIN Kinds /\ uses = "memory" /\ fields = [f \in Field |-> 0]
  /\ Init /\ (part = "control" => core = "halted")
  /\ CtlInit /\ (part # "control" => v7m /\ ~cHalt /\ ~vcReset /\ ~resetSt)

CachesRun   == part # "control" /\ Next /\ UNCHANGED <<part, ctlVars>> /\ OfOneKind'
ControlRuns == part = "control" /\ CtlNext /\ UNCHANGED <<part, vars>>

CoreNext == CachesRun \/ ControlRuns
CoreSpec == CoreInit /\ [][CoreNext]_<<part, vars, ctlVars>>
=============================================================================
