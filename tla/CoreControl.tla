------------------------------ MODULE CoreControl ------------------------------
(***************************************************************************)
(* CortexM: connecting to a core, halt, resume, step, reset, reset and     *)
(* halt, and the vector catch of resets.                                   *)
(*                                                                         *)
(* A call is a sequence of steps still to do, each with one access to the  *)
(* core's debug registers; the core runs, halts or leaves reset between    *)
(* any two.  An access may raise a TransferError, performed or not.        *)
(* Delegates and debug sequences, which may replace steps, are left out.   *)
(*                                                                         *)
(* Assumed of the core: it halts and resumes as soon as it is told to, a   *)
(* reset has begun when the post-reset delay is over, and DEMCR outlives   *)
(* it, as the architecture says.                                           *)
(***************************************************************************)
EXTENDS Integers, Sequences

CONSTANTS CtlTokens, \* bound: run token at which no further call is made
          CtlFaults  \* bound: accesses that fail

ASSUME CtlAssumption == CtlTokens \in Nat /\ CtlFaults \in Nat

VARIABLES
  v7m,       \* the architecture has AIRCR.VECTRESET
  inReset, pin,      \* the core is in reset; nRESET is held
  cHalt, cStep, maskInts, \* DHCSR.C_HALT, C_STEP, C_MASKINTS
  vcReset,           \* DEMCR.VC_CORERESET
  resetSt, retireSt, \* DHCSR.S_RESET_ST, S_RETIRE_ST
  fresh,     \* no instruction was executed since the last reset
  connected,
  call,      \* the last call: its name and parameters
  todo,      \* its steps that are left
  outcome,   \* how it went: see Outcomes
  seen,      \* get_state: what the first read of DHCSR gave, and the result
  saved,     \* step: C_MASKINTS before
  lastCatch, \* _last_vector_catch, CORE_RESET
  runToken,  \* _run_token
  didReset,  \* history: a reset began in the last call
  unsure,    \* history: a call raised in the middle of a change of the catch
  filledAt, ranSince, \* history: run token when a cache was last checked, and
                      \* whether the core was run or reset since
  ctlFaults

ctlCore  == <<v7m, inReset, pin, cHalt, cStep, maskInts, vcReset, resetSt, retireSt, fresh>>
ctlCalls == <<connected, call, todo, outcome, seen, saved, lastCatch, runToken>>
ctlNotes == <<didReset, unsure, filledAt, ranSince, ctlFaults>>
ctlVars  == <<ctlCore, ctlCalls, ctlNotes>>

ResetTypes == {"nsrst", "sysresetreq", "core", "vectreset", "emulated"}
Outcomes   == {"ok", "raised", "refused", "early", "timeout", "uncaught"}
States     == {"reset", "halted", "running"}

CtlSteps ==
  {"read", "enable", "adopt", "halt", "state", "again", "resume", "token", "run", "pulse", "aircr",
   "recover", "registers", "unlessCaught", "await", "assert", "deassert", "setCatch",
   "clearCatch", "writeCatch", "check", "mask", "step", "wait", "unmask"}

NoCall == [op |-> "none"]
IsHalted  == cHalt /\ ~inReset
CtlIdle   == todo = <<>>

CtlInit ==
  /\ v7m \in BOOLEAN
  /\ inReset = FALSE /\ pin = FALSE /\ cStep = FALSE
  /\ cHalt \in BOOLEAN /\ maskInts \in BOOLEAN /\ (maskInts => cHalt)
  /\ vcReset \in BOOLEAN /\ resetSt \in BOOLEAN /\ retireSt = TRUE /\ fresh = FALSE
  /\ connected = FALSE /\ call = NoCall /\ todo = <<>> /\ outcome = "ok"
  /\ seen = "running" /\ saved = FALSE /\ lastCatch = FALSE /\ runToken = 0
  /\ didReset = FALSE /\ unsure = FALSE /\ filledAt = -1 /\ ranSince = TRUE
  /\ ctlFaults = 0

-----------------------------------------------------------------------------
(* The core.                                                               *)

(* It executes an instruction, and may halt: at a breakpoint, or because   *)
(* that was the step.                                                      *)
CoreExecutes ==
  /\ ~inReset /\ ~cHalt
  /\ cHalt' \in BOOLEAN
  /\ fresh' = FALSE /\ retireSt' = TRUE /\ ranSince' = TRUE
  /\ UNCHANGED <<v7m, inReset, pin, cStep, maskInts, vcReset, resetSt, ctlCalls, didReset,
                 unsure, filledAt, ctlFaults>>

(* Whether C_HALT set during reset halts it then depends on the core.      *)
LeavesReset ==
  /\ inReset /\ ~pin
  /\ inReset' = FALSE
  /\ cHalt' \in IF vcReset THEN {TRUE} ELSE {FALSE, cHalt}
  /\ UNCHANGED <<v7m, pin, cStep, maskInts, vcReset, resetSt, retireSt, fresh, ctlCalls,
                 ctlNotes>>

ResetBegins ==
  /\ inReset' = TRUE /\ cHalt' = FALSE /\ cStep' = FALSE
  /\ resetSt' = TRUE /\ retireSt' = FALSE /\ fresh' = TRUE
  /\ didReset' = TRUE /\ ranSince' = TRUE

(* A write of DHCSR.  What it does to C_MASKINTS is only defined if C_HALT *)
(* was set and stays set.                                                  *)
WriteDhcsr(halt, step, mask) ==
  /\ cHalt' = halt /\ cStep' = step
  /\ maskInts' \in IF cHalt /\ halt THEN {mask} ELSE {mask, maskInts}
  /\ UNCHANGED <<v7m, inReset, pin, vcReset, resetSt, retireSt, fresh>>

(* A read of DHCSR, which clears the sticky bits.                          *)
ReadDhcsr ==
  /\ resetSt' = inReset /\ retireSt' = FALSE
  /\ UNCHANGED <<v7m, inReset, pin, cHalt, cStep, maskInts, vcReset, fresh>>

-----------------------------------------------------------------------------
(* Steps of a call.                                                        *)

At(step) == todo # <<>> /\ Head(todo) = step
Rest == Tail(todo)

(* An error in set_reset_catch() or halt() when connecting is logged, and  *)
(* nRESET is released all the same.                                        *)
Handler ==
  IF call.op = "connect" /\ call.mode = "under-reset" /\ Head(todo) \in {"halt", "setCatch"}
    THEN <<"deassert", "clearCatch">> ELSE <<>>

Raises ==
  /\ ctlFaults < CtlFaults /\ ctlFaults' = ctlFaults + 1
  /\ todo' = Handler /\ outcome' = "raised"
  /\ unsure' = (unsure \/ call.op \in {"connect", "reset_and_halt", "set_vector_catch"})

(* The access was performed: the call goes on, or raises nevertheless.     *)
Continue(steps) ==
  \/ todo' = steps /\ UNCHANGED <<outcome, unsure, ctlFaults>>
  \/ Raises

Ends(steps, how) == todo' = steps /\ outcome' = how /\ UNCHANGED <<unsure, ctlFaults>>

UnchangedCall  == UNCHANGED <<connected, call, saved, lastCatch, runToken>>
UnchangedNotes == UNCHANGED <<didReset, filledAt, ranSince>>

(* Steps that make no access, or ignore its errors.                        *)
Safe == {"token", "resume", "recover", "await"}

AccessFails ==
  /\ todo # <<>> /\ Head(todo) \notin Safe
  /\ Raises
  /\ UnchangedCall /\ UnchangedNotes /\ UNCHANGED <<ctlCore, seen>>

HaltCore ==
  /\ At("halt")
  /\ WriteDhcsr(TRUE, FALSE, FALSE)
  /\ Continue(Rest)
  /\ UnchangedCall /\ UnchangedNotes /\ UNCHANGED seen

(* Before the core is told to run, step or reset.                          *)
NextToken ==
  /\ At("token")
  /\ runToken' = runToken + 1
  /\ todo' = Rest
  /\ UNCHANGED <<ctlCore, connected, call, outcome, seen, saved, lastCatch, ctlNotes>>

(* get_state().  S_RESET_ST says that the core was reset since DHCSR was   *)
(* last read, so it is read again.                                         *)
ReadState ==
  /\ At("state")
  /\ ReadDhcsr
  /\ seen' = IF IsHalted THEN "halted" ELSE "running"
  /\ Continue(IF resetSt THEN <<"again">> \o Rest ELSE Rest)
  /\ UnchangedCall /\ UnchangedNotes

ReadAgain ==
  /\ At("again")
  /\ ReadDhcsr
  /\ seen' = IF resetSt /\ ~retireSt THEN "reset" ELSE seen
  /\ Continue(Rest)
  /\ UnchangedCall /\ UnchangedNotes

(* Mutant: the token is changed after the core was told to run.            *)
DecideResume_TokenLast ==
  /\ At("resume")
  /\ todo' = IF seen = "halted" THEN <<"run", "token">> \o Rest ELSE Rest
  /\ UnchangedCall /\ UNCHANGED <<ctlCore, outcome, seen, ctlNotes>>

(* resume() if the core is halted.                                         *)
DecideResume ==
  /\ At("resume")
  /\ todo' = IF seen = "halted" THEN <<"token", "run">> \o Rest ELSE Rest
  /\ UnchangedCall /\ UNCHANGED <<ctlCore, outcome, seen, ctlNotes>>

RunCore ==
  /\ At("run")
  /\ WriteDhcsr(FALSE, FALSE, FALSE)
  /\ Continue(Rest)
  /\ UnchangedCall /\ UnchangedNotes /\ UNCHANGED seen

(* probe.reset(): it may raise before nRESET is released.                  *)
PulseReset ==
  /\ At("pulse")
  /\ ResetBegins /\ Continue(Rest)
  /\ pin' \in {FALSE, outcome' = "raised"}
  /\ UnchangedCall /\ UNCHANGED <<v7m, maskInts, vcReset, seen, filledAt>>

(* A core without VECTRESET ignores the bit.                               *)
WriteAircr ==
  /\ At("aircr") /\ Continue(Rest)
  /\ IF call.type = "sysresetreq" \/ v7m THEN ResetBegins
       ELSE UNCHANGED <<inReset, cHalt, cStep, resetSt, retireSt, fresh, didReset, ranSince>>
  /\ UnchangedCall /\ UNCHANGED <<v7m, pin, maskInts, vcReset, seen, filledAt>>

(* An error of the write is ignored, for the reset may have caused it.     *)
AircrLost ==
  /\ At("aircr")
  /\ ctlFaults < CtlFaults /\ ctlFaults' = ctlFaults + 1
  /\ todo' = Rest
  /\ UnchangedCall /\ UnchangedNotes /\ UNCHANGED <<ctlCore, outcome, seen, unsure>>

(* _post_reset_core_accessibility_test(); it ends, too, after a time.      *)
RecoverCore ==
  /\ At("recover")
  /\ \/ ReadDhcsr /\ todo' = IF resetSt THEN todo ELSE Rest
     \/ todo' = Rest /\ UNCHANGED ctlCore
  /\ UnchangedCall /\ UNCHANGED <<outcome, seen, ctlNotes>>

(* _perform_emulated_reset(), after the halt.                              *)
EmulateReset ==
  /\ At("registers") /\ Continue(Rest)
  /\ IF IsHalted THEN fresh' = TRUE /\ didReset' = TRUE /\ ranSince' = TRUE
       ELSE UNCHANGED <<fresh, didReset, ranSince>>
  /\ UnchangedCall
  /\ UNCHANGED <<v7m, inReset, pin, cHalt, cStep, maskInts, vcReset, resetSt, retireSt, seen,
                 filledAt>>

ResumeUnlessCaught ==
  /\ At("unlessCaught")
  /\ Continue(IF vcReset THEN Rest ELSE <<"state", "resume">> \o Rest)
  /\ UnchangedCall /\ UnchangedNotes /\ UNCHANGED <<ctlCore, seen>>

SetCatch ==
  /\ At("setCatch") /\ Continue(Rest)
  /\ vcReset' = TRUE
  /\ UnchangedCall /\ UnchangedNotes
  /\ UNCHANGED <<v7m, inReset, pin, cHalt, cStep, maskInts, resetSt, retireSt, fresh, seen>>

(* Mutant: the user's catch is cleared as well.                            *)
ClearCatch_Always ==
  /\ At("clearCatch") /\ Continue(Rest)
  /\ vcReset' = FALSE
  /\ UnchangedCall /\ UnchangedNotes
  /\ UNCHANGED <<v7m, inReset, pin, cHalt, cStep, maskInts, resetSt, retireSt, fresh, seen>>

(* The one that connects under reset does not wait for the core to leave   *)
(* it.                                                                     *)
ClearCatch ==
  /\ At("clearCatch")
  /\ vcReset' = (vcReset /\ lastCatch)
  /\ IF call.op = "connect" /\ inReset /\ outcome = "ok"
       THEN Ends(Rest, "uncaught") \/ Raises
       ELSE Continue(Rest)
  /\ UnchangedCall /\ UnchangedNotes
  /\ UNCHANGED <<v7m, inReset, pin, cHalt, cStep, maskInts, resetSt, retireSt, fresh, seen>>

(* Mutant: a core that is still in reset is taken to have halted.          *)
AwaitHalt_AcceptsReset ==
  /\ At("await")
  /\ IF seen = "running"
       THEN Ends(<<"state">> \o todo, outcome) \/ Ends(<<"state">> \o Rest, "timeout")
       ELSE Ends(Rest, outcome)
  /\ UnchangedCall /\ UnchangedNotes /\ UNCHANGED <<ctlCore, seen>>

(* The warning after the timeout reads the state once more.                *)
AwaitHalt ==
  /\ At("await")
  /\ IF seen \in {"reset", "running"}
       THEN Ends(<<"state">> \o todo, outcome) \/ Ends(<<"state">> \o Rest, "timeout")
       ELSE Ends(Rest, outcome)
  /\ UnchangedCall /\ UnchangedNotes /\ UNCHANGED <<ctlCore, seen>>

AssertReset ==
  /\ At("assert")
  /\ ResetBegins /\ pin' = TRUE
  /\ Continue(Rest)
  /\ UnchangedCall /\ UNCHANGED <<v7m, maskInts, vcReset, seen, filledAt>>

ReleaseReset ==
  /\ At("deassert") /\ Continue(Rest)
  /\ pin' = FALSE
  /\ UnchangedCall /\ UnchangedNotes
  /\ UNCHANGED <<v7m, inReset, cHalt, cStep, maskInts, vcReset, resetSt, retireSt, fresh, seen>>

(* init() enables debug; the core may halt between the read of DHCSR and   *)
(* the write, which then lets it run.                                      *)
ReadControls ==
  /\ At("read")
  /\ ReadDhcsr
  /\ seen' = IF cHalt THEN "halted" ELSE "running"
  /\ Continue(Rest)
  /\ UnchangedCall /\ UnchangedNotes

EnableDebug ==
  /\ At("enable")
  /\ WriteDhcsr(seen = "halted", cStep, maskInts)
  /\ Continue(Rest)
  /\ UnchangedCall /\ UnchangedNotes /\ UNCHANGED seen

(* get_vector_catch(), which init() calls last.                            *)
AdoptCatch ==
  /\ At("adopt")
  /\ lastCatch' = vcReset /\ connected' = TRUE /\ unsure' = FALSE
  /\ todo' = Rest
  /\ UnchangedNotes /\ UNCHANGED <<ctlCore, call, outcome, seen, saved, runToken, ctlFaults>>

WriteCatch ==
  /\ At("writeCatch")
  /\ vcReset' = lastCatch
  /\ \/ todo' = Rest /\ unsure' = FALSE /\ UNCHANGED <<outcome, ctlFaults>>
     \/ Raises
  /\ UnchangedCall /\ UnchangedNotes
  /\ UNCHANGED <<v7m, inReset, pin, cHalt, cStep, maskInts, resetSt, retireSt, fresh, seen>>

-----------------------------------------------------------------------------
(* step().                                                                 *)

CheckHalted ==
  /\ At("check")
  /\ ReadDhcsr
  /\ saved' = maskInts
  /\ IF ~cHalt THEN Ends(<<>>, "refused")
     ELSE Continue(IF maskInts # call.mask
                     THEN <<"token", "mask", "step", "wait", "unmask">>
                     ELSE <<"token", "step", "wait">>)
  /\ UnchangedNotes /\ UNCHANGED <<connected, call, seen, lastCatch, runToken>>

MaskInterrupts ==
  /\ At("mask")
  /\ WriteDhcsr(TRUE, TRUE, call.mask)
  /\ Continue(Rest)
  /\ UnchangedCall /\ UnchangedNotes /\ UNCHANGED seen

StepCore ==
  /\ At("step")
  /\ WriteDhcsr(FALSE, TRUE, call.mask)
  /\ Continue(Rest)
  /\ UnchangedCall /\ UnchangedNotes /\ UNCHANGED seen

(* Until the core has halted, the callback says so or it takes too long.   *)
(* If a range is stepped over the next step follows while the PC is in it  *)
(* and nothing else stopped the core; but not after the callback.          *)
AwaitStep ==
  /\ At("wait")
  /\ \/ ReadDhcsr /\ IF cHalt THEN Continue(Rest) ELSE Continue(todo)
     \/ ReadDhcsr /\ cHalt /\ call.ranged /\ Continue(<<"step">> \o todo)
     \/ Ends(Rest, "early") /\ UNCHANGED ctlCore
     \/ call.ranged /\ Ends(<<"step">> \o todo, "early") /\ UNCHANGED ctlCore
  /\ UnchangedCall /\ UnchangedNotes /\ UNCHANGED seen

(* Mutant: the interrupts stay as they were for the step.                  *)
UnmaskInterrupts_ClearsMask ==
  /\ At("unmask")
  /\ WriteDhcsr(TRUE, FALSE, FALSE)
  /\ Continue(Rest)
  /\ UnchangedCall /\ UnchangedNotes /\ UNCHANGED seen

UnmaskInterrupts ==
  /\ At("unmask")
  /\ WriteDhcsr(TRUE, FALSE, saved)
  /\ Continue(Rest)
  /\ UnchangedCall /\ UnchangedNotes /\ UNCHANGED seen

-----------------------------------------------------------------------------
(* Calls.                                                                  *)

Calls(c, steps) ==
  /\ CtlIdle
  /\ call' = c /\ todo' = steps
  /\ outcome' = "ok" /\ seen' = "running" /\ didReset' = FALSE
  /\ UNCHANGED <<ctlCore, connected, saved, runToken, unsure, filledAt, ranSince, ctlFaults>>

(* _get_actual_reset_type()                                                *)
ActualType(type) == IF type = "vectreset" /\ ~v7m THEN "emulated" ELSE type

ResetSteps(type) ==
  <<"token">> \o
    CASE type = "nsrst"                  -> <<"pulse", "recover">>
      [] type = "sysresetreq"            -> <<"aircr", "recover">>
      [] type \in {"core", "vectreset"}  -> <<"aircr">>
      [] type = "emulated"               -> <<"halt", "registers", "unlessCaught">>

ResetAndHaltSteps(type) ==
  <<"halt", "setCatch">> \o ResetSteps(type)
    \o (IF type = "emulated" THEN <<>> ELSE <<"state", "await">>) \o <<"clearCatch", "state">>

(* pre_connect, init() of the core, perform_halt_on_connect, post_connect. *)
ConnectSteps(mode) ==
  LET core_init == <<"read", "enable", "adopt">>
  IN CASE mode = "attach"      -> core_init
       [] mode = "halt"        -> core_init \o <<"halt">>
       [] mode = "pre-reset"   -> <<"pulse">> \o core_init \o <<"halt">>
       [] mode = "under-reset" -> <<"assert">> \o core_init
                                    \o <<"halt", "setCatch", "deassert", "clearCatch">>

Connect ==
  /\ call.op = "none" /\ UNCHANGED lastCatch
  /\ \E mode \in {"attach", "halt", "pre-reset", "under-reset"} :
       Calls([op |-> "connect", mode |-> mode], ConnectSteps(mode))

CallAllowed == connected /\ runToken < CtlTokens

HaltCall   == connected /\ Calls([op |-> "halt"], <<"halt">>) /\ UNCHANGED lastCatch
ResumeCall == CallAllowed /\ Calls([op |-> "resume"], <<"state", "resume">>) /\ UNCHANGED lastCatch

StepCall ==
  /\ CallAllowed /\ UNCHANGED lastCatch
  /\ \E mask, ranged \in BOOLEAN :
       Calls([op |-> "step", mask |-> mask, ranged |-> ranged], <<"check">>)

ResetCall ==
  /\ CallAllowed /\ UNCHANGED lastCatch
  /\ \E type \in ResetTypes : LET t == ActualType(type)
                              IN Calls([op |-> "reset", type |-> t], ResetSteps(t))

ResetAndHaltCall ==
  /\ CallAllowed /\ UNCHANGED lastCatch
  /\ \E type \in ResetTypes : LET t == ActualType(type)
       IN Calls([op |-> "reset_and_halt", type |-> t], ResetAndHaltSteps(t))

SetVectorCatch ==
  /\ CallAllowed /\ lastCatch' \in BOOLEAN
  /\ Calls([op |-> "set_vector_catch"], <<"writeCatch">>)

GetVectorCatch ==
  CallAllowed /\ Calls([op |-> "get_vector_catch"], <<"adopt">>) /\ UNCHANGED lastCatch

(* A cache finds the core halted and keeps what it has if the run token is *)
(* the one it knows, or else starts anew.                                  *)
FillCache ==
  /\ connected /\ CtlIdle /\ IsHalted
  /\ ReadDhcsr
  /\ filledAt' = runToken /\ ranSince' = (ranSince /\ filledAt = runToken)
  /\ UNCHANGED <<ctlCalls, didReset, unsure, ctlFaults>>

-----------------------------------------------------------------------------
CoreMoves == CoreExecutes \/ LeavesReset

StateSteps == ReadState \/ ReadAgain \/ DecideResume \/ HaltCore \/ NextToken \/ RunCore
ResetCalls ==
  \/ PulseReset \/ WriteAircr \/ AircrLost \/ RecoverCore \/ EmulateReset
  \/ ResumeUnlessCaught \/ AwaitHalt
ConnectingSteps == ReadControls \/ EnableDebug \/ AssertReset \/ ReleaseReset
CatchSteps == SetCatch \/ ClearCatch \/ AdoptCatch \/ WriteCatch
StepSteps == CheckHalted \/ MaskInterrupts \/ StepCore \/ AwaitStep \/ UnmaskInterrupts

NewCall ==
  \/ Connect \/ HaltCall \/ ResumeCall \/ StepCall \/ ResetCall \/ ResetAndHaltCall
  \/ SetVectorCatch \/ GetVectorCatch \/ FillCache

CtlNext ==
  \/ CoreMoves \/ StateSteps \/ ResetCalls \/ ConnectingSteps \/ CatchSteps \/ StepSteps
  \/ AccessFails \/ NewCall

CtlSpec == CtlInit /\ [][CtlNext]_ctlVars

-----------------------------------------------------------------------------
(* Properties                                                              *)

CtlTypeOK ==
  /\ \A b \in {v7m, inReset, pin, cHalt, cStep, maskInts, vcReset, resetSt, retireSt, fresh,
               connected, saved, lastCatch, didReset, unsure, ranSince} : b \in BOOLEAN
  /\ todo \in Seq(CtlSteps) /\ outcome \in Outcomes /\ seen \in States
  /\ runToken \in 0..(CtlTokens + 1) /\ filledAt \in -1..runToken
  /\ ctlFaults \in 0..CtlFaults

(* A call that is to stop the core has stopped it where it should when it  *)
(* returns normally: reset_and_halt(), whatever the reset, with no         *)
(* instruction executed since (if it did not time out, and the reset was   *)
(* not lost with the error that is ignored); step() after the step (if     *)
(* neither the callback nor the timeout ended it); connecting with a halt  *)
(* or under reset, then at the latest when the core leaves reset.          *)
StopsAsAsked ==
  CtlIdle /\ outcome = "ok" =>
    /\ call.op = "reset_and_halt" /\ didReset => IsHalted /\ fresh
    /\ call.op = "step" => IsHalted
    /\ call.op = "connect" /\ call.mode \in {"halt", "under-reset"} =>
         IsHalted \/ (inReset /\ vcReset)

(* What calls change on the way is as it was when they have returned: the  *)
(* reset vector catch is as the user asked or was last told, also after    *)
(* timeouts, unless an error came while it was being changed; and step()   *)
(* gives the interrupt mask back.                                          *)
ControlsRestored ==
  CtlIdle =>
    /\ connected /\ ~unsure => vcReset = lastCatch
    /\ call.op = "step" /\ outcome = "ok" => maskInts = saved

(* What the caches rely on: the core was neither run nor reset since a     *)
(* cache was checked, if it is halted and the run token is the same; also  *)
(* after calls that raised at any access or gave up.                       *)
TokenTells ==
  connected /\ CtlIdle /\ IsHalted /\ filledAt = runToken => ~ranSince
=============================================================================
