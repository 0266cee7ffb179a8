-------------------------- MODULE CoreControl_proofs --------------------------
(***************************************************************************)
(* TokenTells, ControlsRestored, StopsAsAsked and the types, for every     *)
(* number of calls and of failing accesses.                                *)
(*                                                                         *)
(* TokenInv says why the run token tells: while it is the one a cache      *)
(* knows, the core is halted, and among the steps left to do none that can *)
(* make it run or reset comes before the one that changes the token.       *)
(*                                                                         *)
(* StopInv says why calls stop the core and give back what they change:    *)
(* the steps left have the shape of their call (what must follow what, and *)
(* what must not), and what is known of the core depends on which of them  *)
(* are left.                                                               *)
(***************************************************************************)
EXTENDS CoreControl, TLAPS

(* Steps that may let the core run, or reset it.                           *)
Unsettling == {"run", "step", "wait", "pulse", "aircr", "registers", "assert", "enable"}

Guarded(s) ==
  \A i \in 1..Len(s) : s[i] \in Unsettling => \E j \in 1..(i - 1) : s[j] = "token"

CtlTypes ==
  /\ runToken \in Nat /\ filledAt \in Int /\ todo \in Seq(CtlSteps)
  /\ cHalt \in BOOLEAN /\ inReset \in BOOLEAN /\ ranSince \in BOOLEAN
  /\ connected \in BOOLEAN

TokenInv ==
  /\ CtlTypes
  /\ filledAt <= runToken
  /\ ~connected => filledAt < runToken
  /\ call.op = "none" => ~connected /\ todo = <<>>
  /\ filledAt = runToken => cHalt /\ ~inReset /\ ~ranSince /\ Guarded(todo)

-----------------------------------------------------------------------------
(* Guarded sequences of steps.                                             *)

(* Nothing left to do.                                                     *)
LEMMA GuardedEmpty == Guarded(<<>>)
  BY DEF Guarded

(* The first step of a guarded sequence does not unsettle the core.        *)
LEMMA GuardedHead ==
  ASSUME NEW s \in Seq(CtlSteps), s # <<>>, Guarded(s)
  PROVE  Head(s) \notin Unsettling
<1>1. 1 \in 1..Len(s) /\ Head(s) = s[1]
  OBVIOUS
<1>2. ~ \E j \in 1..(1 - 1) : s[j] = "token"
  OBVIOUS
<1> QED BY <1>1, <1>2 DEF Guarded

(* What is left of it is guarded, unless it was the token that is gone.    *)
LEMMA GuardedTail ==
  ASSUME NEW s \in Seq(CtlSteps), s # <<>>, Guarded(s), Head(s) # "token"
  PROVE  Guarded(Tail(s))
<1> SUFFICES ASSUME NEW i \in 1..Len(Tail(s)), Tail(s)[i] \in Unsettling
             PROVE  \E j \in 1..(i - 1) : Tail(s)[j] = "token"
  BY DEF Guarded
<1>1. i + 1 \in 1..Len(s) /\ Tail(s)[i] = s[i + 1]
  OBVIOUS
<1>2. PICK k \in 1..((i + 1) - 1) : s[k] = "token"
  BY <1>1 DEF Guarded
<1>3. k # 1
  BY <1>2
<1>4. k - 1 \in 1..(i - 1) /\ Tail(s)[k - 1] = s[k]
  BY <1>3
<1> QED BY <1>2, <1>4

(* One guarded sequence after another.                                     *)
LEMMA GuardedConcat ==
  ASSUME NEW s \in Seq(CtlSteps), NEW t \in Seq(CtlSteps), Guarded(s), Guarded(t)
  PROVE  Guarded(s \o t)
<1> SUFFICES ASSUME NEW i \in 1..Len(s \o t), (s \o t)[i] \in Unsettling
             PROVE  \E j \in 1..(i - 1) : (s \o t)[j] = "token"
  BY DEF Guarded
<1>1. CASE i <= Len(s)
  <2>1. i \in 1..Len(s) /\ (s \o t)[i] = s[i]
    BY <1>1
  <2>2. PICK j \in 1..(i - 1) : s[j] = "token"
    BY <2>1 DEF Guarded
  <2>3. (s \o t)[j] = s[j]
    BY <1>1
  <2> QED BY <2>2, <2>3
<1>2. CASE i > Len(s)
  <2>1. i - Len(s) \in 1..Len(t) /\ (s \o t)[i] = t[i - Len(s)]
    BY <1>2
  <2>2. PICK j \in 1..((i - Len(s)) - 1) : t[j] = "token"
    BY <2>1 DEF Guarded
  <2>3. j + Len(s) \in 1..(i - 1) /\ (s \o t)[j + Len(s)] = t[j]
    BY <1>2
  <2> QED BY <2>2, <2>3
<1> QED BY <1>1, <1>2

(* Whatever follows the change of the token.                               *)
LEMMA StartsWithToken ==
  ASSUME NEW s \in Seq(CtlSteps), s # <<>>, s[1] = "token"
  PROVE  Guarded(s)
<1> SUFFICES ASSUME NEW i \in 1..Len(s), s[i] \in Unsettling
             PROVE  \E j \in 1..(i - 1) : s[j] = "token"
  BY DEF Guarded
<1>1. i # 1
  BY DEF Unsettling
<1>2. 1 \in 1..(i - 1)
  BY <1>1
<1> QED BY <1>2

LEMMA GuardedByToken ==
  ASSUME NEW s \in Seq(CtlSteps)
  PROVE  Guarded(<<"token">> \o s)
<1> SUFFICES ASSUME NEW i \in 1..Len(<<"token">> \o s), (<<"token">> \o s)[i] \in Unsettling
             PROVE  \E j \in 1..(i - 1) : (<<"token">> \o s)[j] = "token"
  BY DEF Guarded
<1>1. (<<"token">> \o s)[1] = "token"
  OBVIOUS
<1>2. i # 1
  BY <1>1 DEF Unsettling
<1>3. 1 \in 1..(i - 1)
  BY <1>2
<1> QED BY <1>1, <1>3

(* One step that unsettles nothing.                                        *)
LEMMA OneIsGuarded ==
  ASSUME NEW a \in CtlSteps \ Unsettling
  PROVE  <<a>> \in Seq(CtlSteps) /\ Guarded(<<a>>)
<1>1. Guarded(<<a>>)
  BY DEF Guarded
<1> QED BY <1>1

(* Two steps that unsettle nothing.                                        *)
LEMMA SettledIsGuarded ==
  ASSUME NEW a \in CtlSteps \ Unsettling, NEW b \in CtlSteps \ Unsettling
  PROVE  <<a, b>> \in Seq(CtlSteps) /\ Guarded(<<a, b>>)
<1>1. Len(<<a, b>>) = 2 /\ <<a, b>>[1] = a /\ <<a, b>>[2] = b
  OBVIOUS
<1>2. \A i \in 1..2 : <<a, b>>[i] \notin Unsettling
  <2>1. 1..2 = {1, 2}
    OBVIOUS
  <2> QED BY <1>1, <2>1
<1>3. Guarded(<<a, b>>)
  BY <1>1, <1>2 DEF Guarded
<1> QED BY <1>3

(* One step that unsettles nothing before the others.                      *)
LEMMA GuardedCons ==
  ASSUME NEW s \in Seq(CtlSteps), NEW e \in CtlSteps \ Unsettling
  PROVE  <<e>> \o s \in Seq(CtlSteps) /\ (Guarded(s) => Guarded(<<e>> \o s))
<1> DEFINE first == <<e>>
<1>1. first \in Seq(CtlSteps) /\ Guarded(first)
  BY OneIsGuarded
<1> HIDE DEF first
<1>2. first \o s \in Seq(CtlSteps) /\ (Guarded(s) => Guarded(first \o s))
  BY <1>1, GuardedConcat
<1> QED BY <1>2 DEF first

(* A reset changes the token before anything else.                         *)
LEMMA ResetIsGuarded ==
  ASSUME NEW type \in ResetTypes
  PROVE  ResetSteps(type) \in Seq(CtlSteps) /\ Guarded(ResetSteps(type))
<1> DEFINE steps == CASE type = "nsrst"                 -> <<"pulse", "recover">>
                      [] type = "sysresetreq"           -> <<"aircr", "recover">>
                      [] type \in {"core", "vectreset"} -> <<"aircr">>
                      [] type = "emulated"              -> <<"halt", "registers", "unlessCaught">>
           token == <<"token">>
<1>1. steps \in Seq(CtlSteps)
  <2>1. CASE type = "nsrst"
    BY <2>1 DEF CtlSteps
  <2>2. CASE type = "sysresetreq"
    BY <2>2 DEF CtlSteps
  <2>3. CASE type \in {"core", "vectreset"}
    <3>1. steps = <<"aircr">>
      BY <2>3
    <3>2. <<"aircr">> \in Seq(CtlSteps)
      BY DEF CtlSteps
    <3> HIDE DEF steps
    <3> QED BY <3>1, <3>2
  <2>4. CASE type = "emulated"
    BY <2>4 DEF CtlSteps
  <2> QED BY <2>1, <2>2, <2>3, <2>4 DEF ResetTypes
<1>2. ResetSteps(type) = token \o steps
  BY DEF ResetSteps
<1>3. token \in Seq(CtlSteps)
  BY DEF CtlSteps
<1>4. Guarded(token \o steps)
  BY <1>1, GuardedByToken
<1> HIDE DEF token, steps
<1>5. token \o steps \in Seq(CtlSteps)
  BY <1>1, <1>3
<1> QED BY <1>2, <1>4, <1>5

LEMMA ResetAndHaltIsGuarded ==
  ASSUME NEW type \in ResetTypes
  PROVE  ResetAndHaltSteps(type) \in Seq(CtlSteps) /\ Guarded(ResetAndHaltSteps(type))
<1> DEFINE before == <<"halt", "setCatch">>
           await  == IF type = "emulated" THEN <<>> ELSE <<"state", "await">>
           after  == <<"clearCatch", "state">>
<1>1. before \in Seq(CtlSteps) /\ Guarded(before)
  BY SettledIsGuarded DEF Unsettling, CtlSteps
<1>2. await \in Seq(CtlSteps) /\ Guarded(await)
  <2>1. CASE type = "emulated"
    BY <2>1, GuardedEmpty
  <2>2. CASE type # "emulated"
    <3>1. <<"state", "await">> \in Seq(CtlSteps) /\ Guarded(<<"state", "await">>)
      BY SettledIsGuarded DEF Unsettling, CtlSteps
    <3> QED BY <2>2, <3>1
  <2> QED BY <2>1, <2>2
<1>3. after \in Seq(CtlSteps) /\ Guarded(after)
  BY SettledIsGuarded DEF Unsettling, CtlSteps
<1> DEFINE upToReset == before \o ResetSteps(type)
           upToHalt  == upToReset \o await
           all       == upToHalt \o after
<1>4. upToReset \in Seq(CtlSteps) /\ Guarded(upToReset)
  <2> HIDE DEF before
  <2> QED BY <1>1, ResetIsGuarded, GuardedConcat
<1>5. upToHalt \in Seq(CtlSteps) /\ Guarded(upToHalt)
  <2> HIDE DEF upToReset, await
  <2> QED BY <1>2, <1>4, GuardedConcat
<1>6. all \in Seq(CtlSteps) /\ Guarded(all)
  <2> HIDE DEF upToHalt, after
  <2> QED BY <1>3, <1>5, GuardedConcat
<1>7. ResetAndHaltSteps(type) = all
  BY DEF ResetAndHaltSteps
<1> HIDE DEF all
<1> QED BY <1>6, <1>7

(* Connecting comes before any cache: its steps need only be steps.        *)
LEMMA ConnectTyped ==
  ASSUME NEW mode \in {"attach", "halt", "pre-reset", "under-reset"}
  PROVE  ConnectSteps(mode) \in Seq(CtlSteps)
<1> DEFINE init  == <<"read", "enable", "adopt">>
           under == <<"halt", "setCatch", "deassert", "clearCatch">>
<1>1. init \in Seq(CtlSteps) /\ under \in Seq(CtlSteps)
  BY DEF CtlSteps
<1>2. /\ <<"halt">> \in Seq(CtlSteps) /\ <<"pulse">> \in Seq(CtlSteps)
      /\ <<"assert">> \in Seq(CtlSteps)
  BY DEF CtlSteps
<1>3. ConnectSteps(mode) \in {init, init \o <<"halt">>, <<"pulse">> \o init \o <<"halt">>,
                             <<"assert">> \o init \o under}
  BY DEF ConnectSteps
<1> HIDE DEF init, under
<1>4. /\ init \o <<"halt">> \in Seq(CtlSteps)
      /\ <<"pulse">> \o init \in Seq(CtlSteps)
      /\ <<"assert">> \o init \in Seq(CtlSteps)
  BY <1>1, <1>2
<1>5. /\ <<"pulse">> \o init \o <<"halt">> \in Seq(CtlSteps)
      /\ <<"assert">> \o init \o under \in Seq(CtlSteps)
  BY <1>1, <1>2, <1>4
<1> QED BY <1>1, <1>3, <1>4, <1>5

-----------------------------------------------------------------------------
(* The invariant.                                                          *)

LEMMA TokenInvHolds == CtlInit => TokenInv
<1> SUFFICES ASSUME CtlInit
             PROVE  TokenInv
  OBVIOUS
<1>1. CtlTypes
  <2>1. runToken \in Nat /\ filledAt \in Int /\ todo \in Seq(CtlSteps)
    BY DEF CtlInit
  <2>2. ranSince \in BOOLEAN /\ connected \in BOOLEAN /\ inReset \in BOOLEAN
    BY Zenon DEF CtlInit
  <2> QED BY <2>1, <2>2, Zenon DEF CtlInit, CtlTypes
<1>2. filledAt < runToken /\ todo = <<>>
  BY DEF CtlInit
<1>3. ~connected
  BY DEF CtlInit
<1> QED BY <1>1, <1>2, <1>3 DEF TokenInv, CtlTypes

(* A step that leaves the token, the history and the core's halt alone     *)
(* keeps the invariant if what is left to do then is guarded when what was *)
(* to do was.                                                              *)
LEMMA StepKeeps ==
  ASSUME TokenInv, todo # <<>>, todo' \in Seq(CtlSteps),
         runToken' = runToken, filledAt' = filledAt, connected' \in BOOLEAN, call' = call,
         cHalt' \in BOOLEAN, inReset' \in BOOLEAN, ranSince' \in BOOLEAN,
         connected => connected',
         filledAt = runToken /\ cHalt /\ ~inReset /\ ~ranSince /\ Guarded(todo)
           => cHalt' /\ ~inReset' /\ ~ranSince' /\ Guarded(todo')
  PROVE  TokenInv'
<1>1. connected' = connected \/ filledAt < runToken
  BY DEF TokenInv, CtlTypes
<1> QED BY <1>1 DEF TokenInv, CtlTypes, Guarded, Unsettling

(* Calling a method: its steps are guarded.                                *)
LEMMA CallKeeps ==
  ASSUME TokenInv, NEW c, c.op # "none", NEW steps \in Seq(CtlSteps),
         Guarded(steps) \/ ~connected, Calls(c, steps)
  PROVE  TokenInv'
<1>1. /\ runToken' = runToken /\ filledAt' = filledAt /\ connected' = connected
      /\ cHalt' = cHalt /\ inReset' = inReset /\ ranSince' = ranSince
      /\ call' = c /\ todo' = steps
  BY DEF Calls, ctlCore
<1> QED BY <1>1 DEF TokenInv, CtlTypes, Guarded, Unsettling

(* What an access that goes on leaves alone; where it raises.              *)
LEMMA RaisesKeeps ==
  ASSUME TokenInv, todo # <<>>, Raises
  PROVE  todo' \in Seq(CtlSteps) /\ Guarded(todo')
<1>1. <<"deassert", "clearCatch">> \in Seq(CtlSteps) /\ Guarded(<<"deassert", "clearCatch">>)
  BY SettledIsGuarded DEF Unsettling, CtlSteps
<1>2. <<>> \in Seq(CtlSteps) /\ Guarded(<<>>)
  BY GuardedEmpty
<1>3. todo' \in {<<"deassert", "clearCatch">>, <<>>}
  BY DEF Raises, Handler
<1> QED BY <1>1, <1>2, <1>3

(* A step that does not unsettle the core, goes on with steps that are     *)
(* guarded if the rest was, and does not make the core run.                *)
LEMMA SettledStep ==
  ASSUME TokenInv, todo # <<>>, Head(todo) # "token", Head(todo) \notin Unsettling,
         NEW steps \in Seq(CtlSteps), Guarded(todo) /\ Guarded(Rest) => Guarded(steps),
         todo' = steps \/ Raises,
         runToken' = runToken, filledAt' = filledAt, call' = call, ranSince' = ranSince,
         connected' \in BOOLEAN, connected => connected',
         cHalt' \in BOOLEAN, cHalt => cHalt', inReset' = inReset
  PROVE  TokenInv'
<1>1. todo' \in Seq(CtlSteps)
  BY RaisesKeeps
<1>2. Guarded(todo) => Guarded(todo')
  <2> SUFFICES ASSUME Guarded(todo) PROVE Guarded(todo')
    OBVIOUS
  <2>1. Guarded(Rest)
    BY GuardedTail DEF TokenInv, CtlTypes, Rest
  <2> QED BY <2>1, RaisesKeeps
<1> QED BY <1>1, <1>2, StepKeeps DEF TokenInv, CtlTypes

(* A step that may: then the token was changed since a cache was checked,  *)
(* and anything is allowed.                                                *)
LEMMA UnsettlingStep ==
  ASSUME TokenInv, todo # <<>>, Head(todo) \in Unsettling,
         NEW steps \in Seq(CtlSteps), todo' = steps \/ Raises,
         runToken' = runToken, filledAt' = filledAt, call' = call, ranSince' \in BOOLEAN,
         connected' = connected, cHalt' \in BOOLEAN, inReset' \in BOOLEAN
  PROVE  TokenInv'
<1>1. todo' \in Seq(CtlSteps)
  BY RaisesKeeps
<1>2. ~Guarded(todo)
  BY GuardedHead DEF TokenInv, CtlTypes
<1> QED BY <1>1, <1>2, StepKeeps DEF TokenInv, CtlTypes

(* Between calls, and while the core moves.                                *)
LEMMA CoreMovesKeep ==
  ASSUME TokenInv, CoreMoves
  PROVE  TokenInv'
<1>1. ~cHalt \/ inReset
  BY DEF CoreMoves, CoreExecutes, LeavesReset
<1>2. /\ runToken' = runToken /\ filledAt' = filledAt /\ connected' = connected
      /\ call' = call /\ todo' = todo
  BY DEF CoreMoves, CoreExecutes, LeavesReset, ctlCalls, ctlNotes
<1>3. cHalt' \in BOOLEAN /\ inReset' \in BOOLEAN /\ ranSince' \in BOOLEAN
  BY DEF CoreMoves, CoreExecutes, LeavesReset, ctlNotes, TokenInv, CtlTypes
<1> QED BY <1>1, <1>2, <1>3 DEF TokenInv, CtlTypes

LEMMA NewCallKeeps ==
  ASSUME TokenInv, NewCall
  PROVE  TokenInv'
<1>1. CASE Connect
  <2>1. PICK mode \in {"attach", "halt", "pre-reset", "under-reset"} :
          Calls([op |-> "connect", mode |-> mode], ConnectSteps(mode))
    BY <1>1 DEF Connect
  <2>2. ~connected
    BY <1>1 DEF Connect, TokenInv
  <2>3. [op |-> "connect", mode |-> mode].op # "none"
    OBVIOUS
  <2> QED BY <2>1, <2>2, <2>3, ConnectTyped, CallKeeps
<1>2. CASE HaltCall
  <2>1. <<"halt">> \in Seq(CtlSteps) /\ Guarded(<<"halt">>)
    BY OneIsGuarded DEF Unsettling, CtlSteps
  <2> QED BY <1>2, <2>1, CallKeeps DEF HaltCall
<1>3. CASE ResumeCall
  <2>1. <<"state", "resume">> \in Seq(CtlSteps) /\ Guarded(<<"state", "resume">>)
    BY SettledIsGuarded DEF Unsettling, CtlSteps
  <2> QED BY <1>3, <2>1, CallKeeps DEF ResumeCall
<1>4. CASE StepCall
  <2>1. <<"check">> \in Seq(CtlSteps) /\ Guarded(<<"check">>)
    BY OneIsGuarded DEF Unsettling, CtlSteps
  <2>2. PICK mask, ranged \in BOOLEAN :
          Calls([op |-> "step", mask |-> mask, ranged |-> ranged], <<"check">>)
    BY <1>4 DEF StepCall
  <2>3. [op |-> "step", mask |-> mask, ranged |-> ranged].op # "none"
    OBVIOUS
  <2> QED BY <2>1, <2>2, <2>3, CallKeeps
<1>5. CASE ResetCall
  <2>1. PICK type \in ResetTypes :
          Calls([op |-> "reset", type |-> ActualType(type)], ResetSteps(ActualType(type)))
    BY <1>5 DEF ResetCall
  <2>2. ActualType(type) \in ResetTypes
    BY DEF ActualType, ResetTypes
  <2>3. [op |-> "reset", type |-> ActualType(type)].op # "none"
    OBVIOUS
  <2> QED BY <2>1, <2>2, <2>3, ResetIsGuarded, CallKeeps
<1>6. CASE ResetAndHaltCall
  <2>1. PICK type \in ResetTypes :
          Calls([op |-> "reset_and_halt", type |-> ActualType(type)],
                ResetAndHaltSteps(ActualType(type)))
    BY <1>6 DEF ResetAndHaltCall
  <2>2. ActualType(type) \in ResetTypes
    BY DEF ActualType, ResetTypes
  <2>3. [op |-> "reset_and_halt", type |-> ActualType(type)].op # "none"
    OBVIOUS
  <2> QED BY <2>1, <2>2, <2>3, ResetAndHaltIsGuarded, CallKeeps
<1>7. CASE SetVectorCatch
  <2>1. <<"writeCatch">> \in Seq(CtlSteps) /\ Guarded(<<"writeCatch">>)
    BY OneIsGuarded DEF Unsettling, CtlSteps
  <2> QED BY <1>7, <2>1, CallKeeps DEF SetVectorCatch
<1>8. CASE GetVectorCatch
  <2>1. <<"adopt">> \in Seq(CtlSteps) /\ Guarded(<<"adopt">>)
    BY OneIsGuarded DEF Unsettling, CtlSteps
  <2> QED BY <1>8, <2>1, CallKeeps DEF GetVectorCatch
<1>9. CASE FillCache
  <2>1. /\ filledAt' = runToken /\ runToken' = runToken /\ connected' = connected
        /\ call' = call /\ todo' = todo /\ todo = <<>>
        /\ cHalt' = cHalt /\ inReset' = inReset /\ cHalt /\ ~inReset /\ connected
    BY <1>9 DEF FillCache, ctlCalls, ReadDhcsr, CtlIdle, IsHalted
  <2>2. Guarded(todo')
    BY <2>1, GuardedEmpty
  <2>3. ranSince' = FALSE
    BY <1>9 DEF FillCache, TokenInv, CtlTypes
  <2>4. CtlTypes'
    <3>1. runToken' \in Nat /\ filledAt' \in Int /\ todo' \in Seq(CtlSteps)
      BY <2>1 DEF TokenInv, CtlTypes
    <3> QED BY <2>1, <2>3, <3>1, Zenon DEF TokenInv, CtlTypes
  <2>5. cHalt' /\ ~inReset' /\ ~ranSince' /\ connected'
    BY <2>1, <2>3, Zenon
  <2>6. filledAt' <= runToken' /\ (call'.op = "none" => ~connected' /\ todo' = <<>>)
    BY <2>1 DEF TokenInv, CtlTypes
  <2> QED BY <2>2, <2>4, <2>5, <2>6 DEF TokenInv
<1> QED BY <1>1, <1>2, <1>3, <1>4, <1>5, <1>6, <1>7, <1>8, <1>9 DEF NewCall

-----------------------------------------------------------------------------
(* The steps of a call.                                                    *)

(* The rest of the steps are steps.                                        *)
LEMMA RestTyped ==
  ASSUME TokenInv, todo # <<>>
  PROVE  Rest \in Seq(CtlSteps)
  BY DEF TokenInv, CtlTypes, Rest

(* resume() adds the change of the token and then the run.                 *)
LEMMA TokenRunGuarded ==
  ASSUME NEW s \in Seq(CtlSteps)
  PROVE  <<"token", "run">> \o s \in Seq(CtlSteps) /\ Guarded(<<"token", "run">> \o s)
<1>1. <<"run">> \o s \in Seq(CtlSteps) /\ <<"token">> \in Seq(CtlSteps)
  BY DEF CtlSteps
<1>2. <<"token", "run">> \o s = <<"token">> \o (<<"run">> \o s)
  OBVIOUS
<1> DEFINE more == <<"run">> \o s
           token == <<"token">>
<1>3. Guarded(token \o more)
  <2> HIDE DEF more
  <2> QED BY <1>1, GuardedByToken DEF more
<1>4. token \o more \in Seq(CtlSteps)
  <2> HIDE DEF more, token
  <2> QED BY <1>1 DEF more, token
<1> HIDE DEF more, token
<1> QED BY <1>2, <1>3, <1>4 DEF more, token

LEMMA TodoTyped ==
  ASSUME TokenInv
  PROVE  todo \in Seq(CtlSteps)
  BY DEF TokenInv, CtlTypes

LEMMA ConsTyped ==
  ASSUME NEW s \in Seq(CtlSteps), NEW e \in CtlSteps
  PROVE  <<e>> \o s \in Seq(CtlSteps)
  OBVIOUS

(* What step() does, and what is added when the catch was not set.         *)
LEMMA StepIsGuarded ==
  /\ <<"token", "mask", "step", "wait", "unmask">> \in Seq(CtlSteps)
  /\ Guarded(<<"token", "mask", "step", "wait", "unmask">>)
  /\ <<"token", "step", "wait">> \in Seq(CtlSteps)
  /\ Guarded(<<"token", "step", "wait">>)
<1>1. /\ <<"token", "mask", "step", "wait", "unmask">> \in Seq(CtlSteps)
      /\ <<"token", "step", "wait">> \in Seq(CtlSteps)
  BY DEF CtlSteps
<1>2. /\ Guarded(<<"token", "mask", "step", "wait", "unmask">>)
      /\ Guarded(<<"token", "step", "wait">>)
  BY StartsWithToken, <1>1
<1> QED BY <1>1, <1>2

LEMMA GuardedCons2 ==
  ASSUME NEW s \in Seq(CtlSteps), NEW a \in CtlSteps \ Unsettling,
         NEW b \in CtlSteps \ Unsettling
  PROVE  <<a, b>> \o s \in Seq(CtlSteps) /\ (Guarded(s) => Guarded(<<a, b>> \o s))
<1> DEFINE first == <<a, b>>
<1>1. first \in Seq(CtlSteps) /\ Guarded(first)
  BY SettledIsGuarded
<1> HIDE DEF first
<1>2. first \o s \in Seq(CtlSteps) /\ (Guarded(s) => Guarded(first \o s))
  BY <1>1, GuardedConcat
<1> QED BY <1>2 DEF first

(* Reading DHCSR, writing it with C_HALT, and registers that are not the   *)
(* core's: the core stays halted.                                          *)
LEMMA ReadStaysHalted ==
  ASSUME TokenInv, ReadDhcsr
  PROVE  cHalt' \in BOOLEAN /\ (cHalt => cHalt') /\ inReset' = inReset
<1>1. cHalt' = cHalt /\ inReset' = inReset
  BY DEF ReadDhcsr
<1> QED BY <1>1, Zenon DEF TokenInv, CtlTypes

LEMMA WriteStaysHalted ==
  ASSUME NEW step, NEW mask, WriteDhcsr(TRUE, step, mask)
  PROVE  cHalt' \in BOOLEAN /\ (cHalt => cHalt') /\ inReset' = inReset
<1>1. cHalt' = TRUE /\ inReset' = inReset
  BY DEF WriteDhcsr
<1> QED BY <1>1

LEMMA SameStaysHalted ==
  ASSUME TokenInv, cHalt' = cHalt
  PROVE  cHalt' \in BOOLEAN /\ (cHalt => cHalt')
  BY Zenon DEF TokenInv, CtlTypes

LEMMA SameConnected ==
  ASSUME TokenInv, connected' = connected
  PROVE  connected' \in BOOLEAN /\ (connected => connected')
  BY Zenon DEF TokenInv, CtlTypes

(* Reading the state, halting and resuming.                                *)
LEMMA StateStepsKeep ==
  ASSUME TokenInv, StateSteps
  PROVE  TokenInv'
<1>1. CASE ReadState
  <2>1. todo # <<>> /\ Head(todo) # "token" /\ Head(todo) \notin Unsettling
    BY <1>1 DEF ReadState, At, Unsettling
  <2>2. PICK steps \in {Rest, <<"again">> \o Rest} : todo' = steps \/ Raises
    BY <1>1 DEF ReadState, Continue
  <2>3. steps \in Seq(CtlSteps) /\ (Guarded(todo) /\ Guarded(Rest) => Guarded(steps))
    <3>1. "again" \in CtlSteps \ Unsettling
      BY DEF Unsettling, CtlSteps
    <3> QED BY RestTyped, GuardedCons, <2>1, <3>1
  <2>4. cHalt' \in BOOLEAN /\ (cHalt => cHalt') /\ inReset' = inReset
    BY <1>1, ReadStaysHalted DEF ReadState
  <2>5. /\ runToken' = runToken /\ filledAt' = filledAt /\ call' = call
        /\ ranSince' = ranSince /\ connected' = connected
    BY <1>1 DEF ReadState, UnchangedCall, UnchangedNotes
  <2> QED BY <2>1, <2>2, <2>3, <2>4, <2>5, RestTyped, SameConnected, SettledStep
<1>2. CASE ReadAgain
  <2>1. todo # <<>> /\ Head(todo) # "token" /\ Head(todo) \notin Unsettling
    BY <1>2 DEF ReadAgain, At, Unsettling
  <2>2. todo' = Rest \/ Raises
    BY <1>2 DEF ReadAgain, Continue
  <2>3. cHalt' \in BOOLEAN /\ (cHalt => cHalt') /\ inReset' = inReset
    BY <1>2, ReadStaysHalted DEF ReadAgain
  <2>4. /\ runToken' = runToken /\ filledAt' = filledAt /\ call' = call
        /\ ranSince' = ranSince /\ connected' = connected
    BY <1>2 DEF ReadAgain, UnchangedCall, UnchangedNotes
  <2> QED BY <2>1, <2>2, <2>3, <2>4, RestTyped, SameConnected, SettledStep
<1>3. CASE DecideResume
  <2>1. todo # <<>> /\ Head(todo) # "token" /\ Head(todo) \notin Unsettling
    BY <1>3 DEF DecideResume, At, Unsettling
  <2>2. PICK steps \in {Rest, <<"token", "run">> \o Rest} : todo' = steps
    BY <1>3 DEF DecideResume
  <2>3. steps \in Seq(CtlSteps) /\ (Guarded(todo) /\ Guarded(Rest) => Guarded(steps))
    BY RestTyped, TokenRunGuarded, <2>1
  <2>4. cHalt' \in BOOLEAN /\ (cHalt => cHalt') /\ inReset' = inReset
    BY <1>3, SameStaysHalted DEF DecideResume, ctlCore
  <2>5. /\ runToken' = runToken /\ filledAt' = filledAt /\ call' = call
        /\ ranSince' = ranSince /\ connected' = connected
    BY <1>3 DEF DecideResume, UnchangedCall, ctlNotes
  <2> QED BY <2>1, <2>2, <2>3, <2>4, <2>5, RestTyped, SameConnected, SettledStep
<1>4. CASE HaltCore
  <2>1. todo # <<>> /\ Head(todo) # "token" /\ Head(todo) \notin Unsettling
    BY <1>4 DEF HaltCore, At, Unsettling
  <2>2. todo' = Rest \/ Raises
    BY <1>4 DEF HaltCore, Continue
  <2>3. cHalt' \in BOOLEAN /\ (cHalt => cHalt') /\ inReset' = inReset
    BY <1>4, WriteStaysHalted DEF HaltCore
  <2>4. /\ runToken' = runToken /\ filledAt' = filledAt /\ call' = call
        /\ ranSince' = ranSince /\ connected' = connected
    BY <1>4 DEF HaltCore, UnchangedCall, UnchangedNotes
  <2> QED BY <2>1, <2>2, <2>3, <2>4, RestTyped, SameConnected, SettledStep
<1>5. CASE NextToken
  <2>1. /\ runToken' = runToken + 1 /\ filledAt' = filledAt /\ connected' = connected
        /\ call' = call /\ todo' = Rest /\ todo # <<>>
        /\ cHalt' = cHalt /\ inReset' = inReset /\ ranSince' = ranSince
    BY <1>5 DEF NextToken, At, ctlCore, ctlNotes
  <2>2. filledAt' < runToken'
    BY <2>1 DEF TokenInv, CtlTypes
  <2>3. CtlTypes'
    <3>1. runToken' \in Nat /\ filledAt' \in Int /\ todo' \in Seq(CtlSteps)
      BY <2>1, RestTyped DEF TokenInv, CtlTypes
    <3> QED BY <2>1, <3>1, Zenon DEF TokenInv, CtlTypes
  <2>4. call'.op # "none"
    BY <2>1 DEF TokenInv
  <2> QED BY <2>2, <2>3, <2>4 DEF TokenInv, CtlTypes
<1>6. CASE RunCore
  <2>1. todo # <<>> /\ Head(todo) \in Unsettling
    BY <1>6 DEF RunCore, At, Unsettling
  <2>2. todo' = Rest \/ Raises
    BY <1>6 DEF RunCore, Continue
  <2>3. cHalt' \in BOOLEAN /\ inReset' \in BOOLEAN /\ ranSince' \in BOOLEAN
    BY <1>6 DEF RunCore, WriteDhcsr, UnchangedNotes, TokenInv, CtlTypes
  <2>4. /\ runToken' = runToken /\ filledAt' = filledAt /\ call' = call
        /\ connected' = connected
    BY <1>6 DEF RunCore, UnchangedCall, UnchangedNotes
  <2> QED BY <2>1, <2>2, <2>3, <2>4, RestTyped, UnsettlingStep
<1> QED BY <1>1, <1>2, <1>3, <1>4, <1>5, <1>6 DEF StateSteps

(* Resetting.                                                              *)
LEMMA ResetCallsKeep ==
  ASSUME TokenInv, ResetCalls
  PROVE  TokenInv'
<1>1. CASE PulseReset
  <2>1. todo # <<>> /\ Head(todo) \in Unsettling
    BY <1>1 DEF PulseReset, At, Unsettling
  <2>2. todo' = Rest \/ Raises
    BY <1>1 DEF PulseReset, Continue
  <2>3. cHalt' \in BOOLEAN /\ inReset' \in BOOLEAN /\ ranSince' \in BOOLEAN
    BY <1>1 DEF PulseReset, ResetBegins, TokenInv, CtlTypes
  <2>4. /\ runToken' = runToken /\ filledAt' = filledAt /\ call' = call
        /\ connected' = connected
    BY <1>1 DEF PulseReset, UnchangedCall
  <2> QED BY <2>1, <2>2, <2>3, <2>4, RestTyped, UnsettlingStep
<1>2. CASE WriteAircr
  <2>1. todo # <<>> /\ Head(todo) \in Unsettling
    BY <1>2 DEF WriteAircr, At, Unsettling
  <2>2. todo' = Rest \/ Raises
    BY <1>2 DEF WriteAircr, Continue
  <2>3. cHalt' \in BOOLEAN /\ inReset' \in BOOLEAN /\ ranSince' \in BOOLEAN
    BY <1>2 DEF WriteAircr, ResetBegins, TokenInv, CtlTypes
  <2>4. /\ runToken' = runToken /\ filledAt' = filledAt /\ call' = call
        /\ connected' = connected
    BY <1>2 DEF WriteAircr, UnchangedCall
  <2> QED BY <2>1, <2>2, <2>3, <2>4, RestTyped, UnsettlingStep
<1>3. CASE AircrLost
  <2>1. todo # <<>> /\ Head(todo) \in Unsettling
    BY <1>3 DEF AircrLost, At, Unsettling
  <2>2. todo' = Rest \/ Raises
    BY <1>3 DEF AircrLost
  <2>3. cHalt' \in BOOLEAN /\ inReset' \in BOOLEAN /\ ranSince' \in BOOLEAN
    BY <1>3 DEF AircrLost, UnchangedNotes, ctlCore, TokenInv, CtlTypes
  <2>4. /\ runToken' = runToken /\ filledAt' = filledAt /\ call' = call
        /\ connected' = connected
    BY <1>3 DEF AircrLost, UnchangedCall, UnchangedNotes
  <2> QED BY <2>1, <2>2, <2>3, <2>4, RestTyped, UnsettlingStep
<1>4. CASE RecoverCore
  <2>1. todo # <<>> /\ Head(todo) # "token" /\ Head(todo) \notin Unsettling
    BY <1>4 DEF RecoverCore, At, Unsettling
  <2>2. PICK steps \in {todo, Rest} : todo' = steps
    BY <1>4 DEF RecoverCore
  <2>3. steps \in Seq(CtlSteps) /\ (Guarded(todo) /\ Guarded(Rest) => Guarded(steps))
    BY RestTyped, TodoTyped, <2>1
  <2>4. cHalt' \in BOOLEAN /\ (cHalt => cHalt') /\ inReset' = inReset
    BY <1>4, ReadStaysHalted, SameStaysHalted DEF RecoverCore, ctlCore
  <2>5. /\ runToken' = runToken /\ filledAt' = filledAt /\ call' = call
        /\ ranSince' = ranSince /\ connected' = connected
    BY <1>4 DEF RecoverCore, UnchangedCall, ctlNotes
  <2> QED BY <2>1, <2>2, <2>3, <2>4, <2>5, RestTyped, SameConnected, SettledStep
<1>5. CASE EmulateReset
  <2>1. todo # <<>> /\ Head(todo) \in Unsettling
    BY <1>5 DEF EmulateReset, At, Unsettling
  <2>2. todo' = Rest \/ Raises
    BY <1>5 DEF EmulateReset, Continue
  <2>3. cHalt' \in BOOLEAN /\ inReset' \in BOOLEAN /\ ranSince' \in BOOLEAN
    BY <1>5 DEF EmulateReset, TokenInv, CtlTypes
  <2>4. /\ runToken' = runToken /\ filledAt' = filledAt /\ call' = call
        /\ connected' = connected
    BY <1>5 DEF EmulateReset, UnchangedCall
  <2> QED BY <2>1, <2>2, <2>3, <2>4, RestTyped, UnsettlingStep
<1>6. CASE ResumeUnlessCaught
  <2>1. todo # <<>> /\ Head(todo) # "token" /\ Head(todo) \notin Unsettling
    BY <1>6 DEF ResumeUnlessCaught, At, Unsettling
  <2>2. PICK steps \in {Rest, <<"state", "resume">> \o Rest} : todo' = steps \/ Raises
    BY <1>6 DEF ResumeUnlessCaught, Continue
  <2>3. steps \in Seq(CtlSteps) /\ (Guarded(todo) /\ Guarded(Rest) => Guarded(steps))
    <3>1. "state" \in CtlSteps \ Unsettling /\ "resume" \in CtlSteps \ Unsettling
      BY DEF Unsettling, CtlSteps
    <3> QED BY RestTyped, TodoTyped, GuardedCons, GuardedCons2, <2>1, <3>1
  <2>4. cHalt' \in BOOLEAN /\ (cHalt => cHalt') /\ inReset' = inReset
    BY <1>6, SameStaysHalted DEF ResumeUnlessCaught, ctlCore
  <2>5. /\ runToken' = runToken /\ filledAt' = filledAt /\ call' = call
        /\ ranSince' = ranSince /\ connected' = connected
    BY <1>6 DEF ResumeUnlessCaught, UnchangedCall, UnchangedNotes
  <2> QED BY <2>1, <2>2, <2>3, <2>4, <2>5, RestTyped, SameConnected, SettledStep
<1>7. CASE AwaitHalt
  <2>1. todo # <<>> /\ Head(todo) # "token" /\ Head(todo) \notin Unsettling
    BY <1>7 DEF AwaitHalt, At, Unsettling
  <2>2. PICK steps \in {Rest, <<"state">> \o todo, <<"state">> \o Rest} : todo' = steps \/ Raises
    BY <1>7 DEF AwaitHalt, Ends
  <2>3. steps \in Seq(CtlSteps) /\ (Guarded(todo) /\ Guarded(Rest) => Guarded(steps))
    <3>1. "state" \in CtlSteps \ Unsettling /\ "resume" \in CtlSteps \ Unsettling
      BY DEF Unsettling, CtlSteps
    <3> QED BY RestTyped, TodoTyped, GuardedCons, GuardedCons2, <2>1, <3>1
  <2>4. cHalt' \in BOOLEAN /\ (cHalt => cHalt') /\ inReset' = inReset
    BY <1>7, SameStaysHalted DEF AwaitHalt, ctlCore
  <2>5. /\ runToken' = runToken /\ filledAt' = filledAt /\ call' = call
        /\ ranSince' = ranSince /\ connected' = connected
    BY <1>7 DEF AwaitHalt, UnchangedCall, UnchangedNotes
  <2> QED BY <2>1, <2>2, <2>3, <2>4, <2>5, RestTyped, SameConnected, SettledStep
<1> QED BY <1>1, <1>2, <1>3, <1>4, <1>5, <1>6, <1>7 DEF ResetCalls

(* Connecting.                                                             *)
LEMMA ConnectingStepsKeep ==
  ASSUME TokenInv, ConnectingSteps
  PROVE  TokenInv'
<1>1. CASE ReadControls
  <2>1. todo # <<>> /\ Head(todo) # "token" /\ Head(todo) \notin Unsettling
    BY <1>1 DEF ReadControls, At, Unsettling
  <2>2. todo' = Rest \/ Raises
    BY <1>1 DEF ReadControls, Continue
  <2>3. cHalt' \in BOOLEAN /\ (cHalt => cHalt') /\ inReset' = inReset
    BY <1>1, ReadStaysHalted DEF ReadControls
  <2>4. /\ runToken' = runToken /\ filledAt' = filledAt /\ call' = call
        /\ ranSince' = ranSince /\ connected' = connected
    BY <1>1 DEF ReadControls, UnchangedCall, UnchangedNotes
  <2> QED BY <2>1, <2>2, <2>3, <2>4, RestTyped, SameConnected, SettledStep
<1>2. CASE EnableDebug
  <2>1. todo # <<>> /\ Head(todo) \in Unsettling
    BY <1>2 DEF EnableDebug, At, Unsettling
  <2>2. todo' = Rest \/ Raises
    BY <1>2 DEF EnableDebug, Continue
  <2>3. cHalt' \in BOOLEAN /\ inReset' \in BOOLEAN /\ ranSince' \in BOOLEAN
    BY <1>2 DEF EnableDebug, WriteDhcsr, UnchangedNotes, TokenInv, CtlTypes
  <2>4. /\ runToken' = runToken /\ filledAt' = filledAt /\ call' = call
        /\ connected' = connected
    BY <1>2 DEF EnableDebug, UnchangedCall, UnchangedNotes
  <2> QED BY <2>1, <2>2, <2>3, <2>4, RestTyped, UnsettlingStep
<1>3. CASE AssertReset
  <2>1. todo # <<>> /\ Head(todo) \in Unsettling
    BY <1>3 DEF AssertReset, At, Unsettling
  <2>2. todo' = Rest \/ Raises
    BY <1>3 DEF AssertReset, Continue
  <2>3. cHalt' \in BOOLEAN /\ inReset' \in BOOLEAN /\ ranSince' \in BOOLEAN
    BY <1>3 DEF AssertReset, ResetBegins, TokenInv, CtlTypes
  <2>4. /\ runToken' = runToken /\ filledAt' = filledAt /\ call' = call
        /\ connected' = connected
    BY <1>3 DEF AssertReset, UnchangedCall
  <2> QED BY <2>1, <2>2, <2>3, <2>4, RestTyped, UnsettlingStep
<1>4. CASE ReleaseReset
  <2>1. todo # <<>> /\ Head(todo) # "token" /\ Head(todo) \notin Unsettling
    BY <1>4 DEF ReleaseReset, At, Unsettling
  <2>2. todo' = Rest \/ Raises
    BY <1>4 DEF ReleaseReset, Continue
  <2>3. cHalt' \in BOOLEAN /\ (cHalt => cHalt') /\ inReset' = inReset
    BY <1>4, SameStaysHalted DEF ReleaseReset
  <2>4. /\ runToken' = runToken /\ filledAt' = filledAt /\ call' = call
        /\ ranSince' = ranSince /\ connected' = connected
    BY <1>4 DEF ReleaseReset, UnchangedCall, UnchangedNotes
  <2> QED BY <2>1, <2>2, <2>3, <2>4, RestTyped, SameConnected, SettledStep
<1> QED BY <1>1, <1>2, <1>3, <1>4 DEF ConnectingSteps

(* The vector catch.                                                       *)
LEMMA CatchStepsKeep ==
  ASSUME TokenInv, CatchSteps
  PROVE  TokenInv'
<1>1. CASE SetCatch
  <2>1. todo # <<>> /\ Head(todo) # "token" /\ Head(todo) \notin Unsettling
    BY <1>1 DEF SetCatch, At, Unsettling
  <2>2. todo' = Rest \/ Raises
    BY <1>1 DEF SetCatch, Continue
  <2>3. cHalt' \in BOOLEAN /\ (cHalt => cHalt') /\ inReset' = inReset
    BY <1>1, SameStaysHalted DEF SetCatch
  <2>4. /\ runToken' = runToken /\ filledAt' = filledAt /\ call' = call
        /\ ranSince' = ranSince /\ connected' = connected
    BY <1>1 DEF SetCatch, UnchangedCall, UnchangedNotes
  <2> QED BY <2>1, <2>2, <2>3, <2>4, RestTyped, SameConnected, SettledStep
<1>2. CASE ClearCatch
  <2>1. todo # <<>> /\ Head(todo) # "token" /\ Head(todo) \notin Unsettling
    BY <1>2 DEF ClearCatch, At, Unsettling
  <2>2. todo' = Rest \/ Raises
    BY <1>2 DEF ClearCatch, Continue, Ends
  <2>3. cHalt' \in BOOLEAN /\ (cHalt => cHalt') /\ inReset' = inReset
    BY <1>2, SameStaysHalted DEF ClearCatch
  <2>4. /\ runToken' = runToken /\ filledAt' = filledAt /\ call' = call
        /\ ranSince' = ranSince /\ connected' = connected
    BY <1>2 DEF ClearCatch, UnchangedCall, UnchangedNotes
  <2> QED BY <2>1, <2>2, <2>3, <2>4, RestTyped, SameConnected, SettledStep
<1>3. CASE AdoptCatch
  <2>1. todo # <<>> /\ Head(todo) # "token" /\ Head(todo) \notin Unsettling
    BY <1>3 DEF AdoptCatch, At, Unsettling
  <2>2. todo' = Rest \/ Raises
    BY <1>3 DEF AdoptCatch
  <2>3. cHalt' \in BOOLEAN /\ (cHalt => cHalt') /\ inReset' = inReset
    BY <1>3, SameStaysHalted DEF AdoptCatch, ctlCore
  <2>4. /\ runToken' = runToken /\ filledAt' = filledAt /\ call' = call
        /\ ranSince' = ranSince /\ connected' = TRUE
    BY <1>3 DEF AdoptCatch, UnchangedNotes
  <2> QED BY <2>1, <2>2, <2>3, <2>4, RestTyped, SettledStep
<1>4. CASE WriteCatch
  <2>1. todo # <<>> /\ Head(todo) # "token" /\ Head(todo) \notin Unsettling
    BY <1>4 DEF WriteCatch, At, Unsettling
  <2>2. todo' = Rest \/ Raises
    BY <1>4 DEF WriteCatch
  <2>3. cHalt' \in BOOLEAN /\ (cHalt => cHalt') /\ inReset' = inReset
    BY <1>4, SameStaysHalted DEF WriteCatch
  <2>4. /\ runToken' = runToken /\ filledAt' = filledAt /\ call' = call
        /\ ranSince' = ranSince /\ connected' = connected
    BY <1>4 DEF WriteCatch, UnchangedCall, UnchangedNotes
  <2> QED BY <2>1, <2>2, <2>3, <2>4, RestTyped, SameConnected, SettledStep
<1> QED BY <1>1, <1>2, <1>3, <1>4 DEF CatchSteps

(* Stepping.                                                               *)
LEMMA StepStepsKeep ==
  ASSUME TokenInv, StepSteps
  PROVE  TokenInv'
<1>1. CASE CheckHalted
  <2>1. todo # <<>> /\ Head(todo) # "token" /\ Head(todo) \notin Unsettling
    BY <1>1 DEF CheckHalted, At, Unsettling
  <2>2. PICK steps \in {<<>>, <<"token", "mask", "step", "wait", "unmask">>,
                       <<"token", "step", "wait">>} : todo' = steps \/ Raises
    BY <1>1 DEF CheckHalted, Continue, Ends
  <2>3. steps \in Seq(CtlSteps) /\ (Guarded(todo) /\ Guarded(Rest) => Guarded(steps))
    <3>1. <<>> \in Seq(CtlSteps) /\ Guarded(<<>>)
      BY GuardedEmpty
    <3> QED BY <2>2, <3>1, StepIsGuarded
  <2>4. cHalt' \in BOOLEAN /\ (cHalt => cHalt') /\ inReset' = inReset
    BY <1>1, ReadStaysHalted DEF CheckHalted
  <2>5. /\ runToken' = runToken /\ filledAt' = filledAt /\ call' = call
        /\ ranSince' = ranSince /\ connected' = connected
    BY <1>1 DEF CheckHalted, UnchangedNotes
  <2> QED BY <2>1, <2>2, <2>3, <2>4, <2>5, RestTyped, SameConnected, SettledStep
<1>2. CASE MaskInterrupts
  <2>1. todo # <<>> /\ Head(todo) # "token" /\ Head(todo) \notin Unsettling
    BY <1>2 DEF MaskInterrupts, At, Unsettling
  <2>2. todo' = Rest \/ Raises
    BY <1>2 DEF MaskInterrupts, Continue
  <2>3. cHalt' \in BOOLEAN /\ (cHalt => cHalt') /\ inReset' = inReset
    BY <1>2, WriteStaysHalted DEF MaskInterrupts
  <2>4. /\ runToken' = runToken /\ filledAt' = filledAt /\ call' = call
        /\ ranSince' = ranSince /\ connected' = connected
    BY <1>2 DEF MaskInterrupts, UnchangedCall, UnchangedNotes
  <2> QED BY <2>1, <2>2, <2>3, <2>4, RestTyped, SameConnected, SettledStep
<1>3. CASE StepCore
  <2>1. todo # <<>> /\ Head(todo) \in Unsettling
    BY <1>3 DEF StepCore, At, Unsettling
  <2>2. todo' = Rest \/ Raises
    BY <1>3 DEF StepCore, Continue
  <2>3. cHalt' \in BOOLEAN /\ inReset' \in BOOLEAN /\ ranSince' \in BOOLEAN
    BY <1>3 DEF StepCore, WriteDhcsr, UnchangedNotes, TokenInv, CtlTypes
  <2>4. /\ runToken' = runToken /\ filledAt' = filledAt /\ call' = call
        /\ connected' = connected
    BY <1>3 DEF StepCore, UnchangedCall, UnchangedNotes
  <2> QED BY <2>1, <2>2, <2>3, <2>4, RestTyped, UnsettlingStep
<1>4. CASE AwaitStep
  <2>1. todo # <<>> /\ Head(todo) \in Unsettling
    BY <1>4 DEF AwaitStep, At, Unsettling
  <2>2. PICK steps \in {Rest, todo, <<"step">> \o todo} : todo' = steps \/ Raises
    BY <1>4 DEF AwaitStep, Continue, Ends
  <2>3. steps \in Seq(CtlSteps)
    <3>1. "step" \in CtlSteps
      BY DEF CtlSteps
    <3>2. <<"step">> \o todo \in Seq(CtlSteps)
      BY <3>1, TodoTyped, ConsTyped
    <3> QED BY <2>1, <2>2, <3>2, RestTyped, TodoTyped
  <2>4. cHalt' \in BOOLEAN /\ inReset' \in BOOLEAN /\ ranSince' \in BOOLEAN
    BY <1>4 DEF AwaitStep, ReadDhcsr, ctlCore, UnchangedNotes, TokenInv, CtlTypes
  <2>5. /\ runToken' = runToken /\ filledAt' = filledAt /\ call' = call
        /\ connected' = connected
    BY <1>4 DEF AwaitStep, UnchangedCall, UnchangedNotes
  <2> QED BY <2>1, <2>2, <2>3, <2>4, <2>5, RestTyped, UnsettlingStep
<1>5. CASE UnmaskInterrupts
  <2>1. todo # <<>> /\ Head(todo) # "token" /\ Head(todo) \notin Unsettling
    BY <1>5 DEF UnmaskInterrupts, At, Unsettling
  <2>2. todo' = Rest \/ Raises
    BY <1>5 DEF UnmaskInterrupts, Continue
  <2>3. cHalt' \in BOOLEAN /\ (cHalt => cHalt') /\ inReset' = inReset
    BY <1>5, WriteStaysHalted DEF UnmaskInterrupts
  <2>4. /\ runToken' = runToken /\ filledAt' = filledAt /\ call' = call
        /\ ranSince' = ranSince /\ connected' = connected
    BY <1>5 DEF UnmaskInterrupts, UnchangedCall, UnchangedNotes
  <2> QED BY <2>1, <2>2, <2>3, <2>4, RestTyped, SameConnected, SettledStep
<1> QED BY <1>1, <1>2, <1>3, <1>4, <1>5 DEF StepSteps

(* An access that fails: nothing happened to the core.                     *)
LEMMA AccessFailsKeeps ==
  ASSUME TokenInv, AccessFails
  PROVE  TokenInv'
<1>1. todo # <<>> /\ Raises
  BY DEF AccessFails
<1>2. /\ runToken' = runToken /\ filledAt' = filledAt /\ call' = call
      /\ ranSince' = ranSince /\ connected' = connected /\ cHalt' = cHalt /\ inReset' = inReset
  BY DEF AccessFails, UnchangedCall, UnchangedNotes, ctlCore
<1>3. cHalt' \in BOOLEAN /\ inReset' \in BOOLEAN /\ ranSince' \in BOOLEAN
  BY <1>2, Zenon DEF TokenInv, CtlTypes
<1>4. cHalt /\ ~inReset /\ ~ranSince => cHalt' /\ ~inReset' /\ ~ranSince'
  BY <1>2, Zenon
<1> QED BY <1>1, <1>2, <1>3, <1>4, RaisesKeeps, SameConnected, StepKeeps

(* Nothing changes.                                                        *)
LEMMA StutterKeeps ==
  ASSUME TokenInv, UNCHANGED ctlVars
  PROVE  TokenInv'
  BY DEF TokenInv, CtlTypes, Guarded, ctlVars, ctlCore, ctlCalls, ctlNotes

-----------------------------------------------------------------------------
(* While the run token is the one a cache was last checked with and the    *)
(* core is halted, nothing was executed or reset since: for any number of  *)
(* calls, in any order, with any number of accesses that fail.             *)
THEOREM TokenTellsAlways == CtlSpec => []TokenTells
<1>1. CtlInit => TokenInv
  BY TokenInvHolds
<1>2. TokenInv /\ [CtlNext]_ctlVars => TokenInv'
  BY CoreMovesKeep, StateStepsKeep, ResetCallsKeep, ConnectingStepsKeep, CatchStepsKeep,
     StepStepsKeep, AccessFailsKeeps, NewCallKeeps, StutterKeeps DEF CtlNext
<1>3. TokenInv => TokenTells
  BY DEF TokenInv, TokenTells
<1> QED BY <1>1, <1>2, <1>3, PTL DEF CtlSpec

-----------------------------------------------------------------------------
(* What is left of a call: a step, one that follows, one that comes no     *)
(* more.                                                                   *)
Left(s, a) == \E i \in 1..Len(s) : s[i] = a
Follows(s, A, b) == \A i \in 1..Len(s) : s[i] \in A => \E j \in (i + 1)..Len(s) : s[j] = b
NotAfter(s, A, B) == \A i \in 1..Len(s) : s[i] \in A => \A j \in (i + 1)..Len(s) : s[j] \notin B

(* Nothing is left of nothing.                                             *)
LEMMA LeftEmpty == ASSUME NEW a PROVE ~Left(<<>>, a)
  BY DEF Left

(* A step is left if it is the next one, or left after that.               *)
LEMMA LeftTail ==
  ASSUME NEW s \in Seq(CtlSteps), s # <<>>, NEW a
  PROVE  Left(s, a) <=> Head(s) = a \/ Left(Tail(s), a)
<1>1. ASSUME Left(s, a), Head(s) # a PROVE Left(Tail(s), a)
  <2>1. PICK i \in 1..Len(s) : s[i] = a
    BY <1>1 DEF Left
  <2>2. i - 1 \in 1..Len(Tail(s)) /\ Tail(s)[i - 1] = a
    BY <1>1, <2>1
  <2> QED BY <2>2 DEF Left
<1>2. ASSUME Left(Tail(s), a) PROVE Left(s, a)
  <2>1. PICK i \in 1..Len(Tail(s)) : Tail(s)[i] = a
    BY <1>2 DEF Left
  <2>2. i + 1 \in 1..Len(s) /\ s[i + 1] = a
    BY <2>1
  <2> QED BY <2>2 DEF Left
<1>3. Head(s) = a => Left(s, a)
  BY DEF Left
<1> QED BY <1>1, <1>2, <1>3

(* The same, of a step put before the others.                              *)
LEMMA LeftCons ==
  ASSUME NEW s \in Seq(CtlSteps), NEW e \in CtlSteps, NEW a
  PROVE  Left(<<e>> \o s, a) <=> e = a \/ Left(s, a)
<1> DEFINE t == <<e>> \o s
<1>1. t \in Seq(CtlSteps) /\ t # <<>> /\ Head(t) = e /\ Tail(t) = s
  OBVIOUS
<1> HIDE DEF t
<1>2. Left(t, a) <=> e = a \/ Left(s, a)
  BY <1>1, LeftTail
<1> QED BY <1>2 DEF t

(* Taking a step keeps what is to follow the others, and leaves what was   *)
(* to follow it.                                                           *)
LEMMA FollowsTail ==
  ASSUME NEW s \in Seq(CtlSteps), s # <<>>, NEW A, NEW b, Follows(s, A, b)
  PROVE  Follows(Tail(s), A, b) /\ (Head(s) \in A => Left(Tail(s), b))
<1>1. ASSUME NEW i \in 1..Len(Tail(s)), Tail(s)[i] \in A
      PROVE  \E j \in (i + 1)..Len(Tail(s)) : Tail(s)[j] = b
  <2>1. i + 1 \in 1..Len(s) /\ s[i + 1] \in A
    BY <1>1
  <2>2. PICK j \in (i + 1 + 1)..Len(s) : s[j] = b
    BY <2>1 DEF Follows
  <2>3. j - 1 \in (i + 1)..Len(Tail(s)) /\ Tail(s)[j - 1] = b
    BY <2>2
  <2> QED BY <2>3
<1>2. ASSUME Head(s) \in A PROVE Left(Tail(s), b)
  <2>1. PICK j \in (1 + 1)..Len(s) : s[j] = b
    BY <1>2 DEF Follows
  <2>2. j - 1 \in 1..Len(Tail(s)) /\ Tail(s)[j - 1] = b
    BY <2>1
  <2> QED BY <2>2 DEF Left
<1> QED BY <1>1, <1>2 DEF Follows

(* A step may come before the others if what must follow it is left.       *)
LEMMA FollowsCons ==
  ASSUME NEW s \in Seq(CtlSteps), NEW e \in CtlSteps, NEW A, NEW b,
         Follows(s, A, b), e \in A => Left(s, b)
  PROVE  Follows(<<e>> \o s, A, b)
<1> DEFINE t == <<e>> \o s
<1>1. Len(t) = Len(s) + 1 /\ t[1] = e /\ \A i \in 1..Len(s) : t[i + 1] = s[i]
  OBVIOUS
<1> HIDE DEF t
<1> SUFFICES ASSUME NEW i \in 1..Len(t), t[i] \in A
             PROVE  \E j \in (i + 1)..Len(t) : t[j] = b
  BY DEF Follows, t
<1>2. CASE i = 1
  <2>1. PICK j \in 1..Len(s) : s[j] = b
    BY <1>1, <1>2 DEF Left
  <2>2. j + 1 \in (i + 1)..Len(t) /\ t[j + 1] = b
    BY <1>1, <1>2, <2>1
  <2> QED BY <2>2
<1>3. CASE i # 1
  <2>1. i - 1 \in 1..Len(s) /\ t[(i - 1) + 1] = s[i - 1]
    BY <1>1, <1>3
  <2>2. PICK j \in ((i - 1) + 1)..Len(s) : s[j] = b
    BY <2>1 DEF Follows
  <2>3. j + 1 \in (i + 1)..Len(t) /\ t[j + 1] = b
    BY <1>1, <2>2
  <2> QED BY <2>3
<1> QED BY <1>2, <1>3

(* Taking a step keeps what must not come after the others, and leaves     *)
(* none of what must not come after it.                                    *)
LEMMA NotAfterTail ==
  ASSUME NEW s \in Seq(CtlSteps), s # <<>>, NEW A, NEW B, NotAfter(s, A, B)
  PROVE  NotAfter(Tail(s), A, B) /\ (Head(s) \in A => \A b \in B : ~Left(Tail(s), b))
<1>1. NotAfter(Tail(s), A, B)
  BY DEF NotAfter
<1>2. ASSUME Head(s) \in A, NEW b \in B, Left(Tail(s), b) PROVE FALSE
  <2>1. PICK j \in 1..Len(Tail(s)) : Tail(s)[j] = b
    BY <1>2 DEF Left
  <2>2. j + 1 \in (1 + 1)..Len(s) /\ s[j + 1] = b
    BY <2>1
  <2> QED BY <1>2, <2>2 DEF NotAfter
<1> QED BY <1>1, <1>2

(* A step may come before the others if none that must not follow it is    *)
(* left.                                                                   *)
LEMMA NotAfterCons ==
  ASSUME NEW s \in Seq(CtlSteps), NEW e \in CtlSteps, NEW A, NEW B,
         NotAfter(s, A, B), e \in A => \A b \in B : ~Left(s, b)
  PROVE  NotAfter(<<e>> \o s, A, B)
<1> DEFINE t == <<e>> \o s
<1>1. Len(t) = Len(s) + 1 /\ t[1] = e /\ \A i \in 1..Len(s) : t[i + 1] = s[i]
  OBVIOUS
<1> HIDE DEF t
<1> SUFFICES ASSUME NEW i \in 1..Len(t), t[i] \in A, NEW j \in (i + 1)..Len(t)
             PROVE  t[j] \notin B
  BY DEF NotAfter, t
<1>2. j - 1 \in 1..Len(s) /\ t[(j - 1) + 1] = s[j - 1]
  BY <1>1
<1>3. CASE i = 1
  BY <1>1, <1>2, <1>3 DEF Left
<1>4. CASE i # 1
  <2>1. i - 1 \in 1..Len(s) /\ t[(i - 1) + 1] = s[i - 1]
    BY <1>1, <1>4
  <2>2. j - 1 \in ((i - 1) + 1)..Len(s)
    BY <1>1, <1>4
  <2> QED BY <1>2, <2>1, <2>2 DEF NotAfter
<1> QED BY <1>3, <1>4

Within(s, A) == \A i \in 1..Len(s) : s[i] \in A

(* What is left is among the steps that all of them were among.            *)
LEMMA WithinTail ==
  ASSUME NEW s \in Seq(CtlSteps), s # <<>>, NEW A, Within(s, A)
  PROVE  Head(s) \in A /\ Within(Tail(s), A)
  BY DEF Within

(* A step of the same kind may come first.                                 *)
LEMMA WithinCons ==
  ASSUME NEW s \in Seq(CtlSteps), NEW A, NEW e \in A, Within(s, A)
  PROVE  Within(<<e>> \o s, A)
  BY DEF Within

(* A step that is left is among them.                                      *)
LEMMA WithinLeft ==
  ASSUME NEW s \in Seq(CtlSteps), NEW A, Within(s, A), NEW a, Left(s, a)
  PROVE  a \in A
  BY DEF Within, Left

-----------------------------------------------------------------------------
(* The shape of a call.                                                    *)
Catching == {"halt", "setCatch", "token", "pulse", "recover", "aircr", "registers",
             "unlessCaught", "await"}
Stepping == {"check", "token", "mask", "step", "wait", "unmask"}
Attaching == {"read", "enable", "adopt", "halt"}
Holding == {"assert", "setCatch"} \cup Attaching

StepsOf(c) ==
  CASE c.op = "halt"   -> {"halt"}
    [] c.op = "resume" -> {"state", "again", "resume", "token", "run"}
    [] c.op = "step"   -> Stepping
    [] c.op = "reset"  -> {"token", "pulse", "recover", "aircr", "halt", "registers",
                           "unlessCaught", "state", "again", "resume", "run"}
    [] c.op = "reset_and_halt"   -> Catching \cup {"state", "again", "clearCatch"}
    [] c.op = "set_vector_catch" -> {"writeCatch"}
    [] c.op = "get_vector_catch" -> {"adopt"}
    [] c.op = "connect" ->
         IF c.mode = "halt" THEN Attaching
         ELSE IF c.mode = "under-reset" THEN Holding \cup {"deassert", "clearCatch"}
         ELSE Attaching \cup {"pulse"}
    [] OTHER -> {}

CatchShape(s) ==
  /\ Follows(s, Catching, "clearCatch")
  /\ NotAfter(s, {"clearCatch"}, Catching \cup {"clearCatch"})
  /\ Follows(s, {"pulse", "aircr"}, "await")
  /\ NotAfter(s, {"pulse", "aircr", "registers", "unlessCaught"}, {"setCatch"})
  /\ NotAfter(s, {"state", "again", "await"}, {"pulse", "aircr"})

HoldShape(s) ==
  /\ Follows(s, Holding, "deassert") /\ Follows(s, {"deassert"}, "clearCatch")
  /\ NotAfter(s, {"deassert"}, {"deassert"})
  /\ NotAfter(s, {"clearCatch"}, Holding \cup {"deassert", "clearCatch"})
  /\ NotAfter(s, Attaching \cup {"setCatch", "deassert"}, {"assert"})

StepShape(s) ==
  /\ Follows(s, {"mask"}, "unmask") /\ Follows(s, {"mask"}, "step")
  /\ Follows(s, {"step"}, "wait")
  /\ NotAfter(s, {"wait"}, Stepping \ {"unmask"}) /\ NotAfter(s, {"unmask"}, Stepping)

Shaped(c, s) ==
  /\ Within(s, StepsOf(c))
  /\ c.op = "reset_and_halt" => CatchShape(s)
  /\ c.op = "connect" /\ c.mode = "halt" => Follows(s, Attaching \ {"halt"}, "halt")
  /\ c.op = "connect" /\ c.mode = "under-reset" => HoldShape(s)
  /\ c.op = "step" => StepShape(s)

(* A call may end at any time.                                             *)
LEMMA ShapedEmpty == ASSUME NEW c PROVE Shaped(c, <<>>)
  BY DEF Shaped, Within, Follows, NotAfter, CatchShape, HoldShape, StepShape

(* What is left after a step has the shape the call has.                   *)
LEMMA ShapedTail ==
  ASSUME NEW c, NEW s \in Seq(CtlSteps), s # <<>>, Shaped(c, s)
  PROVE  Shaped(c, Tail(s)) /\ Head(s) \in StepsOf(c)
<1>1. Within(Tail(s), StepsOf(c)) /\ Head(s) \in StepsOf(c)
  BY WithinTail DEF Shaped
<1>2. CatchShape(s) => CatchShape(Tail(s))
  BY FollowsTail, NotAfterTail DEF CatchShape
<1>3. HoldShape(s) => HoldShape(Tail(s))
  BY FollowsTail, NotAfterTail DEF HoldShape
<1>4. StepShape(s) => StepShape(Tail(s))
  BY FollowsTail, NotAfterTail DEF StepShape
<1>5. Follows(s, Attaching \ {"halt"}, "halt") => Follows(Tail(s), Attaching \ {"halt"}, "halt")
  BY FollowsTail
<1> QED BY <1>1, <1>2, <1>3, <1>4, <1>5 DEF Shaped

(* One step more, of those that calls do put before the rest.              *)
LEMMA ShapedCons ==
  ASSUME NEW c, NEW s \in Seq(CtlSteps), NEW e \in CtlSteps, Shaped(c, s), e \in StepsOf(c),
         c.op # "connect",
         c.op = "reset_and_halt" =>
           e \in {"state", "again"} /\ ~Left(s, "pulse") /\ ~Left(s, "aircr"),
         c.op = "step" => e = "step" /\ Left(s, "wait")
  PROVE  Shaped(c, <<e>> \o s)
<1>1. Within(<<e>> \o s, StepsOf(c))
  BY WithinCons DEF Shaped
<1>2. CASE c.op = "reset_and_halt"
  <2>1. /\ Follows(<<e>> \o s, Catching, "clearCatch")
        /\ Follows(<<e>> \o s, {"pulse", "aircr"}, "await")
    BY <1>2, FollowsCons DEF Shaped, CatchShape, Catching
  <2>2. /\ NotAfter(<<e>> \o s, {"clearCatch"}, Catching \cup {"clearCatch"})
        /\ NotAfter(<<e>> \o s, {"pulse", "aircr", "registers", "unlessCaught"}, {"setCatch"})
        /\ NotAfter(<<e>> \o s, {"state", "again", "await"}, {"pulse", "aircr"})
    BY <1>2, NotAfterCons DEF Shaped, CatchShape
  <2> QED BY <1>1, <1>2, <2>1, <2>2 DEF Shaped, CatchShape
<1>3. CASE c.op = "step"
  <2>1. /\ Follows(<<e>> \o s, {"mask"}, "unmask") /\ Follows(<<e>> \o s, {"mask"}, "step")
        /\ Follows(<<e>> \o s, {"step"}, "wait")
    BY <1>3, FollowsCons DEF Shaped, StepShape
  <2>2. /\ NotAfter(<<e>> \o s, {"wait"}, Stepping \ {"unmask"})
        /\ NotAfter(<<e>> \o s, {"unmask"}, Stepping)
    BY <1>3, NotAfterCons DEF Shaped, StepShape
  <2> QED BY <1>1, <1>3, <2>1, <2>2 DEF Shaped, StepShape
<1>4. CASE c.op \notin {"reset_and_halt", "step"}
  BY <1>1, <1>4 DEF Shaped
<1> QED BY <1>2, <1>3, <1>4

(* What the error handler of connect does when the reset is held.          *)
LEMMA HandlerShaped ==
  ASSUME NEW c, c.op = "connect", c.mode = "under-reset"
  PROVE  Shaped(c, <<"deassert", "clearCatch">>)
<1> DEFINE s == <<"deassert", "clearCatch">>
<1>1. Within(s, StepsOf(c))
  BY DEF Within, StepsOf
<1>2. HoldShape(s)
  BY DEF HoldShape, Follows, NotAfter, Holding, Attaching
<1> QED BY <1>1, <1>2 DEF Shaped

(* The steps of step().                                                    *)
LEMMA StepStepsShaped ==
  ASSUME NEW c, c.op = "step"
  PROVE  /\ Shaped(c, <<"check">>)
         /\ Shaped(c, <<"token", "mask", "step", "wait", "unmask">>)
         /\ Shaped(c, <<"token", "step", "wait">>)
<1>1. Shaped(c, <<"check">>)
  BY DEF Shaped, Within, StepsOf, StepShape, Follows, NotAfter, Stepping
<1>2. Shaped(c, <<"token", "mask", "step", "wait", "unmask">>)
  BY DEF Shaped, Within, StepsOf, StepShape, Follows, NotAfter, Stepping
<1>3. Shaped(c, <<"token", "step", "wait">>)
  BY DEF Shaped, Within, StepsOf, StepShape, Follows, NotAfter, Stepping
<1> QED BY <1>1, <1>2, <1>3

(* The steps of reset().                                                   *)
LEMMA ResetShaped ==
  ASSUME NEW type \in ResetTypes, NEW c, c.op = "reset"
  PROVE  Shaped(c, ResetSteps(type))
<1> DEFINE s == ResetSteps(type)
<1>1. CASE type = "nsrst"
  BY <1>1 DEF ResetSteps, Shaped, Within, StepsOf
<1>2. CASE type = "sysresetreq"
  BY <1>2 DEF ResetSteps, Shaped, Within, StepsOf
<1>3. CASE type \in {"core", "vectreset"}
  BY <1>3 DEF ResetSteps, Shaped, Within, StepsOf
<1>4. CASE type = "emulated"
  BY <1>4 DEF ResetSteps, Shaped, Within, StepsOf
<1> QED BY <1>1, <1>2, <1>3, <1>4 DEF ResetTypes

(* The steps of reset_and_halt(), for each way to reset.                   *)
LEMMA ResetAndHaltShaped ==
  ASSUME NEW type \in ResetTypes, NEW c, c.op = "reset_and_halt"
  PROVE  Shaped(c, ResetAndHaltSteps(type))
<1>1. ASSUME NEW s, s = <<"halt", "setCatch">> \o (<<"token">> \o <<"pulse", "recover">>)
                        \o <<"state", "await">> \o <<"clearCatch", "state">>
      PROVE  Shaped(c, s)
  <2>1. Within(s, StepsOf(c))
    BY <1>1 DEF Within, StepsOf, Catching
  <2>2. /\ Follows(s, Catching, "clearCatch") /\ Follows(s, {"pulse", "aircr"}, "await")
        /\ NotAfter(s, {"clearCatch"}, Catching \cup {"clearCatch"})
    BY <1>1 DEF Follows, NotAfter, Catching
  <2>3. /\ NotAfter(s, {"pulse", "aircr", "registers", "unlessCaught"}, {"setCatch"})
        /\ NotAfter(s, {"state", "again", "await"}, {"pulse", "aircr"})
    BY <1>1 DEF NotAfter
  <2> QED BY <2>1, <2>2, <2>3 DEF Shaped, CatchShape
<1>2. ASSUME NEW s, s = <<"halt", "setCatch">> \o (<<"token">> \o <<"aircr", "recover">>)
                        \o <<"state", "await">> \o <<"clearCatch", "state">>
      PROVE  Shaped(c, s)
  <2>1. Within(s, StepsOf(c))
    BY <1>2 DEF Within, StepsOf, Catching
  <2>2. /\ Follows(s, Catching, "clearCatch") /\ Follows(s, {"pulse", "aircr"}, "await")
        /\ NotAfter(s, {"clearCatch"}, Catching \cup {"clearCatch"})
    BY <1>2 DEF Follows, NotAfter, Catching
  <2>3. /\ NotAfter(s, {"pulse", "aircr", "registers", "unlessCaught"}, {"setCatch"})
        /\ NotAfter(s, {"state", "again", "await"}, {"pulse", "aircr"})
    BY <1>2 DEF NotAfter
  <2> QED BY <2>1, <2>2, <2>3 DEF Shaped, CatchShape
<1>3. ASSUME NEW s, s = <<"halt", "setCatch">> \o (<<"token">> \o <<"aircr">>)
                        \o <<"state", "await">> \o <<"clearCatch", "state">>
      PROVE  Shaped(c, s)
  <2>1. Within(s, StepsOf(c))
    BY <1>3 DEF Within, StepsOf, Catching
  <2>2. /\ Follows(s, Catching, "clearCatch") /\ Follows(s, {"pulse", "aircr"}, "await")
        /\ NotAfter(s, {"clearCatch"}, Catching \cup {"clearCatch"})
    BY <1>3 DEF Follows, NotAfter, Catching
  <2>3. /\ NotAfter(s, {"pulse", "aircr", "registers", "unlessCaught"}, {"setCatch"})
        /\ NotAfter(s, {"state", "again", "await"}, {"pulse", "aircr"})
    BY <1>3 DEF NotAfter
  <2> QED BY <2>1, <2>2, <2>3 DEF Shaped, CatchShape
<1>4. ASSUME NEW s, s = <<"halt", "setCatch">> \o (<<"token">> \o <<"halt", "registers", "unlessCaught">>)
                        \o <<>> \o <<"clearCatch", "state">>
      PROVE  Shaped(c, s)
  <2>1. Within(s, StepsOf(c))
    BY <1>4 DEF Within, StepsOf, Catching
  <2>2. /\ Follows(s, Catching, "clearCatch") /\ Follows(s, {"pulse", "aircr"}, "await")
        /\ NotAfter(s, {"clearCatch"}, Catching \cup {"clearCatch"})
    BY <1>4 DEF Follows, NotAfter, Catching
  <2>3. /\ NotAfter(s, {"pulse", "aircr", "registers", "unlessCaught"}, {"setCatch"})
        /\ NotAfter(s, {"state", "again", "await"}, {"pulse", "aircr"})
    BY <1>4 DEF NotAfter
  <2> QED BY <2>1, <2>2, <2>3 DEF Shaped, CatchShape
<1>5. CASE type = "nsrst"
  BY <1>1, <1>5 DEF ResetAndHaltSteps, ResetSteps
<1>6. CASE type = "sysresetreq"
  BY <1>2, <1>6 DEF ResetAndHaltSteps, ResetSteps
<1>7. CASE type \in {"core", "vectreset"}
  BY <1>3, <1>7 DEF ResetAndHaltSteps, ResetSteps
<1>8. CASE type = "emulated"
  BY <1>4, <1>8 DEF ResetAndHaltSteps, ResetSteps
<1> QED BY <1>5, <1>6, <1>7, <1>8 DEF ResetTypes

(* The steps of a connection, for each connect mode.                       *)
LEMMA ConnectShaped ==
  ASSUME NEW mode \in {"attach", "halt", "pre-reset", "under-reset"},
         NEW c, c.op = "connect", c.mode = mode
  PROVE  Shaped(c, ConnectSteps(mode))
<1>1. CASE mode = "attach"
  BY <1>1 DEF ConnectSteps, Shaped, Within, StepsOf, Attaching
<1>2. CASE mode = "halt"
  BY <1>2 DEF ConnectSteps, Shaped, Within, StepsOf, Attaching, Follows
<1>3. CASE mode = "pre-reset"
  BY <1>3 DEF ConnectSteps, Shaped, Within, StepsOf, Attaching
<1>4. CASE mode = "under-reset"
  <2> DEFINE s == ConnectSteps(mode)
  <2>1. s = <<"assert">> \o <<"read", "enable", "adopt">>
              \o <<"halt", "setCatch", "deassert", "clearCatch">>
    BY <1>4 DEF ConnectSteps
  <2> HIDE DEF s
  <2>2. Within(s, StepsOf(c))
    BY <1>4, <2>1 DEF Within, StepsOf, Holding, Attaching
  <2>3. Follows(s, Holding, "deassert") /\ Follows(s, {"deassert"}, "clearCatch")
    BY <2>1 DEF Follows, Holding, Attaching
  <2>4. /\ NotAfter(s, {"deassert"}, {"deassert"})
        /\ NotAfter(s, {"clearCatch"}, Holding \cup {"deassert", "clearCatch"})
    BY <2>1 DEF NotAfter, Holding, Attaching
  <2>5. NotAfter(s, Attaching \cup {"setCatch", "deassert"}, {"assert"})
    BY <2>1 DEF NotAfter, Attaching
  <2> QED BY <1>4, <2>2, <2>3, <2>4, <2>5 DEF Shaped, HoldShape, s
<1> QED BY <1>1, <1>2, <1>3, <1>4

-----------------------------------------------------------------------------
(* The invariant.                                                          *)
CallTypes ==
  /\ todo \in Seq(CtlSteps)
  /\ vcReset \in BOOLEAN /\ lastCatch \in BOOLEAN /\ seen \in States

CatchInv ==
  /\ call.op = "reset_and_halt" \/ outcome = "ok" =>
       (Left(todo, "clearCatch") /\ ~Left(todo, "setCatch") => vcReset)
  /\ connected /\ ~unsure =>
       vcReset = lastCatch \/ Left(todo, "writeCatch") \/ (vcReset /\ Left(todo, "clearCatch"))

ShapeInv == CallTypes /\ Shaped(call, todo) /\ CatchInv

(* Two steps put before the others.                                        *)
LEMMA TwoCons ==
  ASSUME NEW s \in Seq(CtlSteps), NEW a \in CtlSteps, NEW b \in CtlSteps
  PROVE  /\ <<a, b>> \o s \in Seq(CtlSteps)
         /\ \A A : a \in A /\ b \in A /\ Within(s, A) => Within(<<a, b>> \o s, A)
         /\ \A x : Left(<<a, b>> \o s, x) <=> x \in {a, b} \/ Left(s, x)
<1> DEFINE t == <<a, b>> \o s
<1>1. <<a, b>> \in Seq(CtlSteps)
  OBVIOUS
<1>2. /\ t \in Seq(CtlSteps) /\ Len(t) = Len(s) + 2 /\ t[1] = a /\ t[2] = b
      /\ \A i \in 1..Len(s) : t[i + 2] = s[i]
  BY <1>1
<1> HIDE DEF t
<1>3. \A i \in 1..Len(t) : i = 1 \/ i = 2 \/ (i - 2 \in 1..Len(s) /\ t[i] = s[i - 2])
  <2> SUFFICES ASSUME NEW i \in 1..Len(t), i # 1, i # 2
               PROVE  i - 2 \in 1..Len(s) /\ t[i] = s[i - 2]
    OBVIOUS
  <2>1. i - 2 \in 1..Len(s) /\ t[(i - 2) + 2] = s[i - 2]
    BY <1>2
  <2> QED BY <2>1
<1>4. \A A : a \in A /\ b \in A /\ Within(s, A) => Within(t, A)
  BY <1>2, <1>3 DEF Within
<1>5. ASSUME NEW x PROVE Left(t, x) <=> x \in {a, b} \/ Left(s, x)
  <2>1. Left(t, x) => x \in {a, b} \/ Left(s, x)
    BY <1>2, <1>3 DEF Left
  <2>2. x \in {a, b} => Left(t, x)
    BY <1>2 DEF Left
  <2>3. ASSUME Left(s, x) PROVE Left(t, x)
    <3>1. PICK i \in 1..Len(s) : s[i] = x
      BY <2>3 DEF Left
    <3>2. i + 2 \in 1..Len(t) /\ t[i + 2] = x
      BY <1>2, <3>1
    <3> QED BY <3>2 DEF Left
  <2> QED BY <2>1, <2>2, <2>3
<1> QED BY <1>2, <1>4, <1>5 DEF t

(* What a step of a call puts before the rest.                             *)
NewSteps(h) ==
  CASE h = "state"        -> {"again"}
    [] h = "resume"       -> {"token", "run"}
    [] h = "recover"      -> {"recover"}
    [] h = "unlessCaught" -> {"state", "resume"}
    [] h = "await"        -> {"state", "await"}
    [] h = "wait"         -> {"step", "wait"}
    [] OTHER              -> {}

GoesOn(s) ==
  /\ s \in Seq(CtlSteps) /\ Shaped(call, s)
  /\ \A a : Left(Rest, a) => Left(s, a)
  /\ \A a : Left(s, a) => Left(Rest, a) \/ a \in NewSteps(Head(todo))

Raised ==
  /\ outcome' = "raised"
  /\ unsure' = (unsure \/ call.op \in {"connect", "reset_and_halt", "set_vector_catch"})
  /\ todo' = <<>> \/ (call.op = "connect" /\ call.mode = "under-reset"
                      /\ todo' = <<"deassert", "clearCatch">>)

(* What is known of the next step and of those after it.                   *)
LEMMA RestFacts ==
  ASSUME ShapeInv, todo # <<>>
  PROVE  /\ Rest \in Seq(CtlSteps) /\ Shaped(call, Rest)
         /\ Head(todo) \in StepsOf(call) /\ Head(todo) \in CtlSteps
         /\ \A a : Left(todo, a) <=> Head(todo) = a \/ Left(Rest, a)
<1>1. Rest \in Seq(CtlSteps) /\ Head(todo) \in CtlSteps
  BY DEF ShapeInv, CallTypes, Rest
<1> QED BY <1>1, ShapedTail, LeftTail DEF ShapeInv, CallTypes, Rest

(* To take the next step is to go on.                                      *)
LEMMA RestGoesOn ==
  ASSUME ShapeInv, todo # <<>>
  PROVE  GoesOn(Rest)
  BY RestFacts DEF GoesOn

(* An access that fails ends the call, or leaves its handler.              *)
LEMMA RaisesRaised == ASSUME Raises PROVE Raised
  BY DEF Raises, Raised, Handler

(* All that is left then is what the handler of connect does.              *)
LEMMA RaisedShaped ==
  ASSUME Raised
  PROVE  /\ todo' \in Seq(CtlSteps) /\ Shaped(call, todo')
         /\ \A a : Left(todo', a) =>
              call.op = "connect" /\ call.mode = "under-reset" /\ a \in {"deassert", "clearCatch"}
<1>1. CASE todo' = <<>>
  BY <1>1, ShapedEmpty, LeftEmpty
<1>2. CASE call.op = "connect" /\ call.mode = "under-reset" /\ todo' = <<"deassert", "clearCatch">>
  BY <1>2, HandlerShaped DEF CtlSteps, Left
<1> QED BY <1>1, <1>2 DEF Raised

(* The steps of a call, and the one with which it begins.                  *)
CallStep ==
  StateSteps \/ ResetCalls \/ ConnectingSteps \/ CatchSteps \/ StepSteps \/ AccessFails

(* get_state() reads again.                                                *)
LEMMA AgainGoesOn ==
  ASSUME ShapeInv, At("state")
  PROVE  GoesOn(<<"again">> \o Rest)
<1>1. todo # <<>> /\ Head(todo) = "state"
  BY DEF At
<1>2. call.op \in {"resume", "reset", "reset_and_halt"} /\ "again" \in StepsOf(call)
  BY <1>1, RestFacts DEF StepsOf, Stepping, Attaching, Holding
<1>3. call.op = "reset_and_halt" => ~Left(Rest, "pulse") /\ ~Left(Rest, "aircr")
  BY <1>1, NotAfterTail DEF ShapeInv, CallTypes, Shaped, CatchShape, Rest
<1>4. "again" \in CtlSteps
  BY DEF CtlSteps
<1>5. <<"again">> \o Rest \in Seq(CtlSteps) /\ Shaped(call, <<"again">> \o Rest)
  BY <1>1, <1>2, <1>3, <1>4, RestFacts, ShapedCons
<1> QED BY <1>1, <1>4, <1>5, RestFacts, LeftCons DEF GoesOn, NewSteps

(* The wait for the halt reads the state once more.                        *)
LEMMA AwaitGoesOn ==
  ASSUME ShapeInv, At("await")
  PROVE  GoesOn(<<"state">> \o todo) /\ GoesOn(<<"state">> \o Rest)
<1>1. todo # <<>> /\ Head(todo) = "await"
  BY DEF At
<1>2. call.op = "reset_and_halt" /\ "state" \in StepsOf(call)
  BY <1>1, RestFacts DEF StepsOf, Stepping, Attaching, Holding
<1>3. ~Left(Rest, "pulse") /\ ~Left(Rest, "aircr")
  BY <1>1, <1>2, NotAfterTail DEF ShapeInv, CallTypes, Shaped, CatchShape, Rest
<1>4. ~Left(todo, "pulse") /\ ~Left(todo, "aircr")
  BY <1>1, <1>3, RestFacts
<1>5. "state" \in CtlSteps /\ todo \in Seq(CtlSteps) /\ Shaped(call, todo)
  BY DEF CtlSteps, ShapeInv, CallTypes
<1>6. /\ <<"state">> \o Rest \in Seq(CtlSteps) /\ Shaped(call, <<"state">> \o Rest)
      /\ <<"state">> \o todo \in Seq(CtlSteps) /\ Shaped(call, <<"state">> \o todo)
  BY <1>1, <1>2, <1>3, <1>4, <1>5, RestFacts, ShapedCons
<1> QED BY <1>1, <1>5, <1>6, RestFacts, LeftCons DEF GoesOn, NewSteps

(* The next step over a range.                                             *)
LEMMA WaitGoesOn ==
  ASSUME ShapeInv, At("wait")
  PROVE  GoesOn(todo) /\ GoesOn(<<"step">> \o todo)
<1>1. todo # <<>> /\ Head(todo) = "wait"
  BY DEF At
<1>2. call.op = "step" /\ "step" \in StepsOf(call)
  BY <1>1, RestFacts DEF StepsOf, Stepping, Attaching, Holding, Catching
<1>3. "step" \in CtlSteps /\ todo \in Seq(CtlSteps) /\ Shaped(call, todo) /\ Left(todo, "wait")
  BY <1>1, RestFacts DEF CtlSteps, ShapeInv, CallTypes
<1>4. <<"step">> \o todo \in Seq(CtlSteps) /\ Shaped(call, <<"step">> \o todo)
  BY <1>2, <1>3, ShapedCons
<1> QED BY <1>1, <1>3, <1>4, RestFacts, LeftCons DEF GoesOn, NewSteps

(* resume() of a core that is halted, also after an emulated reset.        *)
LEMMA ResumeGoesOn ==
  ASSUME ShapeInv
  PROVE  /\ At("resume") => GoesOn(<<"token", "run">> \o Rest)
         /\ At("unlessCaught") /\ ~vcReset => GoesOn(<<"state", "resume">> \o Rest)
<1>1. {"token", "run", "state", "resume"} \subseteq CtlSteps
  BY DEF CtlSteps
<1>2. CASE At("resume")
  <2>1. todo # <<>> /\ Head(todo) = "resume"
    BY <1>2 DEF At
  <2>2. call.op \in {"resume", "reset"} /\ "token" \in StepsOf(call) /\ "run" \in StepsOf(call)
    BY <2>1, RestFacts DEF StepsOf, Stepping, Attaching, Holding, Catching
  <2>3. /\ <<"token", "run">> \o Rest \in Seq(CtlSteps)
        /\ Shaped(call, <<"token", "run">> \o Rest)
    BY <1>1, <2>1, <2>2, RestFacts, TwoCons DEF Shaped
  <2>4. GoesOn(<<"token", "run">> \o Rest)
    BY <1>1, <2>1, <2>3, RestFacts, TwoCons DEF GoesOn, NewSteps
  <2> QED BY <2>1, <2>4 DEF At
<1>3. CASE At("unlessCaught") /\ ~vcReset
  <2>1. todo # <<>> /\ Head(todo) = "unlessCaught"
    BY <1>3 DEF At
  <2>2. call.op \in {"reset", "reset_and_halt"}
    BY <2>1, RestFacts DEF StepsOf, Stepping, Attaching, Holding, Catching
  <2>3. call.op # "reset_and_halt"
    <3> SUFFICES ASSUME call.op = "reset_and_halt" PROVE FALSE
      OBVIOUS
    <3>1. Left(Rest, "clearCatch") /\ ~Left(Rest, "setCatch")
      BY <2>1, FollowsTail, NotAfterTail DEF ShapeInv, CallTypes, Shaped, CatchShape, Rest, Catching
    <3>2. Left(todo, "clearCatch") /\ ~Left(todo, "setCatch")
      BY <2>1, <3>1, RestFacts
    <3> QED BY <1>3, <3>2 DEF ShapeInv, CatchInv
  <2>4. "state" \in StepsOf(call) /\ "resume" \in StepsOf(call)
    BY <2>2, <2>3 DEF StepsOf
  <2>5. /\ <<"state", "resume">> \o Rest \in Seq(CtlSteps)
        /\ Shaped(call, <<"state", "resume">> \o Rest)
    BY <1>1, <2>1, <2>2, <2>3, <2>4, RestFacts, TwoCons DEF Shaped
  <2>6. GoesOn(<<"state", "resume">> \o Rest)
    BY <1>1, <2>1, <2>5, RestFacts, TwoCons DEF GoesOn, NewSteps
  <2> QED BY <2>1, <2>6 DEF At
<1> QED BY <1>2, <1>3

(* Each step of a call raises, or goes on with what it was to do.          *)
LEMMA StepsGoOn ==
  ASSUME ShapeInv, CallStep
  PROVE  /\ todo # <<>> /\ call' = call
         /\ \/ Raised
            \/ GoesOn(todo')
            \/ At("check") /\ todo' \in {<<>>, <<"token", "step", "wait">>,
                                        <<"token", "mask", "step", "wait", "unmask">>}
<1>1. CASE StateSteps
  BY <1>1, RestGoesOn, RaisesRaised, AgainGoesOn, ResumeGoesOn
  DEF StateSteps, ReadState, ReadAgain, DecideResume, HaltCore, NextToken, RunCore,
      Continue, UnchangedCall, At
<1>2. CASE ResetCalls
  <2>1. RecoverCore => GoesOn(todo') /\ call' = call /\ todo # <<>>
    <3>1. ASSUME RecoverCore PROVE GoesOn(todo)
      BY <3>1, RestFacts DEF RecoverCore, At, GoesOn, NewSteps, ShapeInv, CallTypes
    <3> QED BY <3>1, RestGoesOn DEF RecoverCore, UnchangedCall, At
  <2>2. AwaitHalt => GoesOn(todo') /\ call' = call /\ todo # <<>>
    BY RestGoesOn, AwaitGoesOn DEF AwaitHalt, Ends, UnchangedCall, At
  <2>3. AircrLost => GoesOn(todo') /\ call' = call /\ todo # <<>>
    BY RestGoesOn DEF AircrLost, UnchangedCall, At
  <2>4. ASSUME PulseReset \/ WriteAircr \/ EmulateReset
        PROVE  todo # <<>> /\ call' = call /\ (Raised \/ GoesOn(todo'))
    BY <2>4, RestGoesOn, RaisesRaised
    DEF PulseReset, WriteAircr, EmulateReset, Continue, UnchangedCall, At
  <2>5. ASSUME ResumeUnlessCaught
        PROVE  todo # <<>> /\ call' = call /\ (Raised \/ GoesOn(todo'))
    BY <2>5, RestGoesOn, RaisesRaised, ResumeGoesOn
    DEF ResumeUnlessCaught, Continue, UnchangedCall, At
  <2> QED BY <1>2, <2>1, <2>2, <2>3, <2>4, <2>5 DEF ResetCalls
<1>3. CASE ConnectingSteps
  BY <1>3, RestGoesOn, RaisesRaised
  DEF ConnectingSteps, ReadControls, EnableDebug, AssertReset, ReleaseReset,
      Continue, UnchangedCall, At
<1>4. CASE CatchSteps
  BY <1>4, RestGoesOn, RaisesRaised
  DEF CatchSteps, SetCatch, ClearCatch, AdoptCatch, WriteCatch, Continue, Ends, UnchangedCall, At
<1>5. CASE StepSteps
  <2>1. CASE CheckHalted
    <3>1. call' = call /\ At("check") /\ todo # <<>>
      BY <2>1 DEF CheckHalted, At
    <3> QED BY <2>1, <3>1, RaisesRaised DEF CheckHalted, Continue, Ends
  <2>2. CASE AwaitStep
    <3>1. call' = call /\ At("wait") /\ todo # <<>>
      BY <2>2 DEF AwaitStep, UnchangedCall, At
    <3>2. Raises \/ todo' \in {Rest, todo, <<"step">> \o todo}
      BY <2>2 DEF AwaitStep, Continue, Ends
    <3>3. GoesOn(Rest) /\ GoesOn(todo) /\ GoesOn(<<"step">> \o todo)
      BY <3>1, WaitGoesOn, RestGoesOn
    <3>4. CASE Raises
      BY <3>1, <3>4, RaisesRaised
    <3>5. CASE todo' \in {Rest, todo, <<"step">> \o todo}
      BY <3>1, <3>3, <3>5
    <3> QED BY <3>2, <3>4, <3>5
  <2>3. CASE MaskInterrupts \/ StepCore \/ UnmaskInterrupts
    BY <2>3, RestGoesOn, RaisesRaised
    DEF MaskInterrupts, StepCore, UnmaskInterrupts, Continue, UnchangedCall, At
  <2> QED BY <1>5, <2>1, <2>2, <2>3 DEF StepSteps
<1>6. CASE AccessFails
  BY <1>6, RaisesRaised DEF AccessFails, UnchangedCall
<1> QED BY <1>1, <1>2, <1>3, <1>4, <1>5, <1>6 DEF CallStep

(* So what is left of a call keeps its shape.                              *)
LEMMA ShapeKept ==
  ASSUME ShapeInv, CallStep
  PROVE  todo' \in Seq(CtlSteps) /\ Shaped(call', todo')
<1>1. CASE At("check") /\ todo' \in {<<>>, <<"token", "step", "wait">>,
                                   <<"token", "mask", "step", "wait", "unmask">>}
  <2>1. call.op = "step"
    BY <1>1, RestFacts DEF At, StepsOf, Stepping, Attaching, Holding, Catching
  <2>2. /\ <<>> \in Seq(CtlSteps) /\ <<"token", "step", "wait">> \in Seq(CtlSteps)
        /\ <<"token", "mask", "step", "wait", "unmask">> \in Seq(CtlSteps)
    BY DEF CtlSteps
  <2>3. \A s \in {<<>>, <<"token", "step", "wait">>, <<"token", "mask", "step", "wait", "unmask">>} :
          s \in Seq(CtlSteps) /\ Shaped(call, s)
    BY <2>1, <2>2, StepStepsShaped, ShapedEmpty
  <2>4. call' = call
    BY StepsGoOn
  <2> QED BY <1>1, <2>3, <2>4
<1> QED BY <1>1, StepsGoOn, RaisedShaped DEF GoesOn

(* What the steps leave alone.                                             *)
LEMMA StepFrame ==
  ASSUME CallStep
  PROVE  /\ vcReset' = vcReset \/ SetCatch \/ ClearCatch \/ WriteCatch
         /\ (lastCatch' = lastCatch /\ connected' = connected) \/ AdoptCatch
         /\ unsure' = unsure \/ Raised \/ AdoptCatch \/ WriteCatch
         /\ outcome' = outcome
              \/ outcome' \in {"raised", "timeout", "early", "uncaught", "refused"}
<1>1. CASE StateSteps
  BY <1>1, RaisesRaised DEF StateSteps, ReadState, ReadAgain, DecideResume, HaltCore, NextToken, RunCore,
      Continue, Ends, ReadDhcsr, WriteDhcsr, UnchangedCall, UnchangedNotes, At, Raised, ctlCore,
      ctlNotes
<1>2. CASE ResetCalls
  BY <1>2, RaisesRaised DEF ResetCalls, PulseReset, WriteAircr, AircrLost, RecoverCore, EmulateReset,
      ResumeUnlessCaught, AwaitHalt, ResetBegins,
      Continue, Ends, ReadDhcsr, WriteDhcsr, UnchangedCall, UnchangedNotes, At, Raised, ctlCore,
      ctlNotes
<1>3. CASE ConnectingSteps
  BY <1>3, RaisesRaised DEF ConnectingSteps, ReadControls, EnableDebug, AssertReset, ReleaseReset, ResetBegins,
      Continue, Ends, ReadDhcsr, WriteDhcsr, UnchangedCall, UnchangedNotes, At, Raised, ctlCore,
      ctlNotes
<1>4. CASE CatchSteps
  BY <1>4, RaisesRaised DEF CatchSteps, SetCatch, ClearCatch, AdoptCatch, WriteCatch,
      Continue, Ends, ReadDhcsr, WriteDhcsr, UnchangedCall, UnchangedNotes, At, Raised, ctlCore,
      ctlNotes
<1>5. CASE StepSteps
  BY <1>5, RaisesRaised DEF StepSteps, CheckHalted, MaskInterrupts, StepCore, AwaitStep, UnmaskInterrupts,
      Continue, Ends, ReadDhcsr, WriteDhcsr, UnchangedCall, UnchangedNotes, At, Raised, ctlCore,
      ctlNotes
<1>6. CASE AccessFails
  BY <1>6, RaisesRaised DEF AccessFails, 
      Continue, Ends, ReadDhcsr, WriteDhcsr, UnchangedCall, UnchangedNotes, At, Raised, ctlCore,
      ctlNotes
<1> QED BY <1>1, <1>2, <1>3, <1>4, <1>5, <1>6 DEF CallStep

(* Which step is to come says which action takes it.                       *)
LEMMA ActionAt ==
  ASSUME CallStep, ~AccessFails
  PROVE  \/ Head(todo) = "state" /\ ReadState
         \/ Head(todo) = "again" /\ ReadAgain
         \/ Head(todo) = "resume" /\ DecideResume
         \/ Head(todo) = "halt" /\ HaltCore
         \/ Head(todo) = "token" /\ NextToken
         \/ Head(todo) = "run" /\ RunCore
         \/ Head(todo) = "pulse" /\ PulseReset
         \/ Head(todo) = "aircr" /\ (WriteAircr \/ AircrLost)
         \/ Head(todo) = "recover" /\ RecoverCore
         \/ Head(todo) = "registers" /\ EmulateReset
         \/ Head(todo) = "unlessCaught" /\ ResumeUnlessCaught
         \/ Head(todo) = "await" /\ AwaitHalt
         \/ Head(todo) = "read" /\ ReadControls
         \/ Head(todo) = "enable" /\ EnableDebug
         \/ Head(todo) = "assert" /\ AssertReset
         \/ Head(todo) = "deassert" /\ ReleaseReset
         \/ Head(todo) = "setCatch" /\ SetCatch
         \/ Head(todo) = "clearCatch" /\ ClearCatch
         \/ Head(todo) = "adopt" /\ AdoptCatch
         \/ Head(todo) = "writeCatch" /\ WriteCatch
         \/ Head(todo) = "check" /\ CheckHalted
         \/ Head(todo) = "mask" /\ MaskInterrupts
         \/ Head(todo) = "step" /\ StepCore
         \/ Head(todo) = "wait" /\ AwaitStep
         \/ Head(todo) = "unmask" /\ UnmaskInterrupts
<1>1. CASE StateSteps
  BY <1>1 DEF StateSteps, ReadState, ReadAgain, DecideResume, HaltCore, NextToken, RunCore, At
<1>2. CASE ResetCalls
  <2>1. CASE PulseReset \/ WriteAircr \/ AircrLost
    BY <2>1 DEF PulseReset, WriteAircr, AircrLost, At
  <2>2. CASE RecoverCore \/ EmulateReset
    BY <2>2 DEF RecoverCore, EmulateReset, At
  <2>3. CASE ResumeUnlessCaught \/ AwaitHalt
    BY <2>3 DEF ResumeUnlessCaught, AwaitHalt, At
  <2> QED BY <1>2, <2>1, <2>2, <2>3 DEF ResetCalls
<1>3. CASE ConnectingSteps
  BY <1>3 DEF ConnectingSteps, ReadControls, EnableDebug, AssertReset, ReleaseReset, At
<1>4. CASE CatchSteps
  BY <1>4 DEF CatchSteps, SetCatch, ClearCatch, AdoptCatch, WriteCatch, At
<1>5. CASE StepSteps
  BY <1>5 DEF StepSteps, CheckHalted, MaskInterrupts, StepCore, AwaitStep, UnmaskInterrupts, At
<1> QED BY <1>1, <1>2, <1>3, <1>4, <1>5 DEF CallStep

(* The catch of resets and what remembers it.                              *)
LEMMA CatchKept ==
  ASSUME ShapeInv, CallStep
  PROVE  CatchInv'
<1> DEFINE h == Head(todo)
           Set(op, out) == op = "reset_and_halt" \/ out = "ok"
<1>1. /\ todo # <<>> /\ call' = call
      /\ \A a : Left(todo, a) <=> h = a \/ Left(Rest, a)
      /\ h \in StepsOf(call)
  BY StepsGoOn, RestFacts
<1>2. Set(call'.op, outcome') => Set(call.op, outcome)
  BY <1>1, StepFrame
<1>3. \A a : Left(todo, a) => a \in StepsOf(call)
  BY WithinLeft DEF ShapeInv, CallTypes, Shaped
<1>4. CASE Raised
  <2>1. Set(call'.op, outcome') => ~Left(todo', "clearCatch")
    BY <1>1, <1>4, RaisedShaped DEF Raised
  <2>2. connected' /\ ~unsure' => vcReset' = lastCatch'
    <3> SUFFICES ASSUME connected', ~unsure' PROVE vcReset' = lastCatch'
      OBVIOUS
    <3>1. call.op \notin {"connect", "reset_and_halt", "set_vector_catch"} /\ ~unsure
      BY <1>4 DEF Raised
    <3>2. /\ ~Left(todo, "clearCatch") /\ ~Left(todo, "writeCatch")
          /\ h \notin {"setCatch", "clearCatch", "writeCatch"}
      BY <1>1, <1>3, <3>1 DEF StepsOf, Stepping
    <3>3. ~SetCatch /\ ~ClearCatch /\ ~WriteCatch
      BY <3>2 DEF SetCatch, ClearCatch, WriteCatch, At
    <3>4. CASE AdoptCatch
      BY <3>4 DEF AdoptCatch, ctlCore
    <3>5. CASE ~AdoptCatch
      BY <3>1, <3>2, <3>3, <3>5, StepFrame DEF ShapeInv, CatchInv
    <3> QED BY <3>4, <3>5
  <2> QED BY <1>1, <2>1, <2>2 DEF CatchInv
<1>5. CASE At("check") /\ ~Raised
  <2>1. call.op = "step"
    BY <1>1, <1>5 DEF At, StepsOf, Stepping, Attaching, Holding, Catching
  <2>2. \A a : Left(todo', a) => a \in Stepping
    BY <1>1, <2>1, ShapeKept, WithinLeft DEF Shaped, StepsOf
  <2>3. \A a : Left(todo, a) => a \in Stepping
    BY <1>3, <2>1 DEF StepsOf
  <2>4. ~SetCatch /\ ~ClearCatch /\ ~WriteCatch /\ ~AdoptCatch
    BY <1>5 DEF SetCatch, ClearCatch, WriteCatch, AdoptCatch, At
  <2>5. vcReset' = vcReset /\ lastCatch' = lastCatch /\ connected' = connected /\ unsure' = unsure
    BY <1>5, <2>4, StepFrame
  <2> QED BY <2>2, <2>3, <2>5 DEF ShapeInv, CatchInv, Stepping
<1>6. CASE GoesOn(todo') /\ ~Raised
  <2>1. \A a \in {"setCatch", "clearCatch", "writeCatch"} : Left(todo', a) <=> Left(Rest, a)
    BY <1>6 DEF GoesOn, NewSteps
  <2>2. CASE SetCatch
    <3>1. h = "setCatch" /\ vcReset' = TRUE
      BY <2>2 DEF SetCatch, At
    <3>2. Left(Rest, "clearCatch")
      <4>1. call.op \in {"connect", "reset_and_halt"}
        BY <1>1, <3>1 DEF StepsOf, Stepping, Attaching
      <4>2. CASE call.op = "reset_and_halt"
        BY <1>1, <3>1, <4>2, FollowsTail
        DEF ShapeInv, CallTypes, Shaped, CatchShape, Catching, Rest
      <4>3. CASE call.op = "connect"
        <5>1. call.mode = "under-reset"
          BY <1>1, <3>1, <4>3 DEF StepsOf, Attaching
        <5>2. Left(Rest, "deassert") /\ HoldShape(Rest)
          BY <1>1, <3>1, <4>3, <5>1, FollowsTail, RestFacts
          DEF ShapeInv, CallTypes, Shaped, HoldShape, Holding, Rest
        <5> QED BY <5>2 DEF HoldShape, Follows, Left
      <4> QED BY <4>1, <4>2, <4>3
    <3> QED BY <2>1, <3>1, <3>2 DEF CatchInv
  <2>3. CASE ClearCatch
    <3>1. h = "clearCatch" /\ vcReset' = (vcReset /\ lastCatch)
      BY <2>3 DEF ClearCatch, At
    <3>2. ~Left(Rest, "clearCatch") /\ ~Left(todo, "writeCatch")
      BY <1>1, <1>3, <3>1, NotAfterTail
      DEF ShapeInv, CallTypes, Shaped, CatchShape, HoldShape, Rest, StepsOf, Stepping, Attaching
    <3>3. lastCatch' = lastCatch /\ connected' = connected /\ unsure' = unsure
      <4>1. ~AdoptCatch /\ ~WriteCatch
        BY <3>1 DEF AdoptCatch, WriteCatch, At
      <4> QED BY <1>6, <4>1, StepFrame
    <3>4. connected /\ ~unsure => vcReset' = lastCatch
      BY <3>1, <3>2 DEF ShapeInv, CallTypes, CatchInv
    <3> QED BY <2>1, <3>2, <3>3, <3>4 DEF CatchInv
  <2>4. CASE WriteCatch
    <3>1. h = "writeCatch" /\ vcReset' = lastCatch
      BY <2>4 DEF WriteCatch, At
    <3>2. lastCatch' = lastCatch
      BY <2>4 DEF WriteCatch, UnchangedCall
    <3>3. call.op = "set_vector_catch" /\ ~Left(Rest, "clearCatch")
      BY <1>1, <1>3, <3>1 DEF StepsOf, Stepping, Attaching, Holding, Catching
    <3> QED BY <1>1, <2>1, <3>1, <3>2, <3>3 DEF CatchInv
  <2>5. CASE AdoptCatch
    <3>1. h = "adopt" /\ vcReset' = vcReset /\ lastCatch' = vcReset /\ outcome' = outcome
      BY <2>5 DEF AdoptCatch, At, ctlCore
    <3> QED BY <1>1, <1>2, <2>1, <3>1 DEF CatchInv, ShapeInv
  <2>6. CASE ~SetCatch /\ ~ClearCatch /\ ~WriteCatch /\ ~AdoptCatch
    <3>1. /\ vcReset' = vcReset /\ lastCatch' = lastCatch /\ connected' = connected
          /\ unsure' = unsure
      BY <1>6, <2>6, StepFrame
    <3>2. h \notin {"setCatch", "clearCatch", "writeCatch"}
      <4>1. ~AccessFails
        BY <1>6, RaisesRaised DEF AccessFails
      <4> QED BY <2>6, <4>1, ActionAt
    <3> QED BY <1>1, <1>2, <2>1, <3>1, <3>2 DEF CatchInv, ShapeInv
  <2> QED BY <2>2, <2>3, <2>4, <2>5, <2>6
<1> QED BY <1>4, <1>5, <1>6, StepsGoOn

(* Every step of a call keeps the types.                                   *)
LEMMA TypesKept ==
  ASSUME ShapeInv, CallStep
  PROVE  CallTypes'
<1>1. todo' \in Seq(CtlSteps)
  BY ShapeKept
<1>2. seen' \in States
  <2>1. seen' = seen \/ ReadState \/ ReadAgain \/ ReadControls
    <3>1. CASE AccessFails
      BY <3>1 DEF AccessFails
    <3>2. CASE ~AccessFails
      BY <3>2, ActionAt
      DEF DecideResume, HaltCore, NextToken, RunCore, PulseReset, WriteAircr, AircrLost,
          RecoverCore, EmulateReset, ResumeUnlessCaught, AwaitHalt, EnableDebug, AssertReset,
          ReleaseReset, SetCatch, ClearCatch, AdoptCatch, WriteCatch, CheckHalted,
          MaskInterrupts, StepCore, AwaitStep, UnmaskInterrupts
    <3> QED BY <3>1, <3>2
  <2> QED BY <2>1 DEF ReadState, ReadAgain, ReadControls, ShapeInv, CallTypes, States
<1>3. vcReset' \in BOOLEAN /\ lastCatch' \in BOOLEAN
  BY StepFrame DEF ShapeInv, CallTypes, SetCatch, ClearCatch, WriteCatch, AdoptCatch
<1> QED BY <1>1, <1>2, <1>3 DEF CallTypes

(* Every step of a call keeps its shape and what is known of the catch.    *)
LEMMA ShapeInvKept == ASSUME ShapeInv, CallStep PROVE ShapeInv'
<1>1. CallTypes'
  BY TypesKept
<1>2. Shaped(call', todo')
  BY ShapeKept
<1>3. CatchInv'
  BY CatchKept
<1> QED BY <1>1, <1>2, <1>3 DEF ShapeInv

-----------------------------------------------------------------------------
(* What reset_and_halt() knows.                                            *)
ResetHaltInv ==
  call.op = "reset_and_halt" =>
    /\ seen = "halted" => IsHalted
    /\ Left(todo, "pulse") \/ Left(todo, "aircr") => seen = "running"
    /\ outcome = "ok" /\ didReset =>
         /\ fresh
         /\ IsHalted \/ (inReset /\ Left(todo, "clearCatch") /\ ~Left(todo, "setCatch"))
    /\ outcome = "ok" /\ didReset /\ ~Left(todo, "await") => IsHalted

(* Every step of reset_and_halt() keeps it.                                *)
LEMMA ResetHaltKept ==
  ASSUME ShapeInv, ResetHaltInv, CallStep
  PROVE  ResetHaltInv'
<1> DEFINE h == Head(todo)
<1>1. /\ todo # <<>> /\ call' = call
      /\ \A a : Left(todo, a) <=> h = a \/ Left(Rest, a)
      /\ h \in StepsOf(call)
  BY StepsGoOn, RestFacts
<1> SUFFICES ASSUME call.op = "reset_and_halt" PROVE ResetHaltInv'
  BY <1>1 DEF ResetHaltInv
<1>2. h \in Catching \cup {"state", "again", "clearCatch"}
  BY <1>1 DEF StepsOf
<1>3. /\ h \in {"pulse", "aircr"} => Left(Rest, "await")
      /\ h \in Catching => Left(Rest, "clearCatch")
      /\ h = "clearCatch" => ~Left(Rest, "await")
      /\ h \in {"pulse", "aircr"} => ~Left(Rest, "setCatch")
      /\ h \in {"state", "again", "await"} => ~Left(Rest, "pulse") /\ ~Left(Rest, "aircr")
  BY <1>1, FollowsTail, NotAfterTail
  DEF ShapeInv, CallTypes, Shaped, CatchShape, Rest, Catching
<1>4. CASE AccessFails
  <2>1. Raised /\ seen' = seen /\ IsHalted' = IsHalted
    BY <1>4, RaisesRaised DEF AccessFails, ctlCore, IsHalted
  <2> QED BY <1>1, <2>1, RaisedShaped DEF ResetHaltInv, Raised
<1>5. CASE ~AccessFails
  <2>1. seen' = "halted" => IsHalted'
    BY <1>1, <1>2, <1>5, ActionAt
    DEF ResetHaltInv, Catching, IsHalted, HaltCore, NextToken, PulseReset, WriteAircr,
        AircrLost, RecoverCore, EmulateReset, ResumeUnlessCaught, AwaitHalt, SetCatch,
        ClearCatch, ReadState, ReadAgain, ReadDhcsr, WriteDhcsr, ResetBegins, ctlCore
  <2>2. CASE Raised
    BY <1>1, <2>1, <2>2, RaisedShaped DEF ResetHaltInv, Raised
  <2>3. CASE ~Raised
    <3>1. GoesOn(todo')
      BY <1>2, <2>3, StepsGoOn DEF At, Catching
    <3>2. /\ \A a : Left(Rest, a) => Left(todo', a)
          /\ \A a : Left(todo', a) => Left(Rest, a) \/ a \in NewSteps(h)
      BY <3>1 DEF GoesOn
    <3>3. \A a \in {"pulse", "aircr", "clearCatch", "setCatch"} :
            Left(todo', a) <=> Left(Rest, a)
      BY <3>2 DEF NewSteps
    <3>4. Left(todo', "pulse") \/ Left(todo', "aircr") => seen' = "running"
      BY <1>1, <1>2, <1>3, <1>5, <3>3, ActionAt
      DEF ResetHaltInv, Catching, HaltCore, NextToken, PulseReset, WriteAircr,
          AircrLost, RecoverCore, EmulateReset, ResumeUnlessCaught, AwaitHalt, SetCatch,
          ClearCatch
    <3>5. outcome' = "ok" => outcome = "ok"
      BY StepFrame
    <3>6. outcome' = "ok" /\ didReset' =>
            fresh' /\ (IsHalted' \/ (inReset' /\ Left(todo', "clearCatch")
                                       /\ ~Left(todo', "setCatch")))
      <4> USE <1>1, <1>3, <1>5, <3>3, <3>5, ActionAt DEF ResetHaltInv, IsHalted, ctlCore
      <4>1. CASE h \in {"pulse", "aircr"}
        BY <4>1 DEF PulseReset, WriteAircr, AircrLost, ResetBegins, UnchangedNotes, Catching
      <4>2. CASE h \in {"halt", "setCatch"}
        BY <4>2 DEF HaltCore, SetCatch, UnchangedNotes, WriteDhcsr
      <4>3. CASE h \in {"token", "recover", "unlessCaught", "await"}
        BY <4>3 DEF NextToken, RecoverCore, ResumeUnlessCaught, AwaitHalt, UnchangedNotes,
                    ctlNotes, ReadDhcsr
      <4>4. CASE h = "registers"
        BY <4>4 DEF EmulateReset
      <4>5. CASE h \in {"state", "again", "clearCatch"}
        BY <4>5 DEF ReadState, ReadAgain, ClearCatch, ReadDhcsr, UnchangedNotes
      <4> QED BY <1>2, <4>1, <4>2, <4>3, <4>4, <4>5 DEF Catching
    <3>7. outcome' = "ok" /\ didReset' /\ ~Left(todo', "await") => IsHalted'
      <4> USE <1>1, <1>3, <1>5, <3>2, <3>5, ActionAt DEF ResetHaltInv, IsHalted, ctlCore
      <4>1. CASE h \in {"pulse", "aircr"}
        BY <4>1
      <4>2. CASE h \in {"halt", "setCatch"}
        BY <4>2 DEF HaltCore, SetCatch, UnchangedNotes, WriteDhcsr
      <4>3. CASE h \in {"token", "recover", "unlessCaught"}
        BY <4>3 DEF NextToken, RecoverCore, ResumeUnlessCaught, UnchangedNotes,
                    ctlNotes, ReadDhcsr
      <4>4. CASE h = "registers"
        BY <4>4 DEF EmulateReset
      <4>5. CASE h \in {"state", "again", "clearCatch"}
        BY <4>5 DEF ReadState, ReadAgain, ClearCatch, ReadDhcsr, UnchangedNotes
      <4>6. CASE h = "await"
        <5>1. AwaitHalt
          BY <4>6
        <5>2. CASE seen = "halted"
          BY <5>1, <5>2 DEF AwaitHalt
        <5>3. CASE seen # "halted"
          <6>1. seen \in {"reset", "running"}
            BY <5>3 DEF ShapeInv, CallTypes, States
          <6>2. todo' = <<"state">> \o todo \/ outcome' = "timeout"
            BY <5>1, <6>1 DEF AwaitHalt, Ends
          <6>3. todo' = <<"state">> \o todo => Left(todo', "await")
            BY <4>6, LeftCons DEF ShapeInv, CallTypes, CtlSteps
          <6> QED BY <6>2, <6>3
        <5> QED BY <5>2, <5>3
      <4> QED BY <1>2, <4>1, <4>2, <4>3, <4>4, <4>5, <4>6 DEF Catching
    <3> QED BY <1>1, <2>1, <3>4, <3>6, <3>7 DEF ResetHaltInv
  <2> QED BY <2>2, <2>3
<1> QED BY <1>4, <1>5

(* What is to follow a step that is left is left.                          *)
LEMMA FollowsLeft ==
  ASSUME NEW s \in Seq(CtlSteps), NEW A, NEW b, Follows(s, A, b), NEW a \in A, Left(s, a)
  PROVE  Left(s, b)
<1>1. PICK i \in 1..Len(s) : s[i] = a
  BY DEF Left
<1>2. PICK j \in (i + 1)..Len(s) : s[j] = b
  BY <1>1 DEF Follows
<1>3. j \in 1..Len(s)
  BY <1>2
<1> QED BY <1>2, <1>3 DEF Left

-----------------------------------------------------------------------------
(* What connecting knows.                                                  *)
ConnectInv ==
  /\ call.op = "none" => ~inReset /\ todo = <<>>
  /\ call.op = "connect" =>
       /\ call.mode = "halt" => ~inReset /\ (outcome = "ok" /\ ~Left(todo, "halt") => cHalt)
       /\ call.mode = "under-reset" /\ outcome = "ok" =>
            /\ Left(todo, "deassert") /\ ~Left(todo, "assert") => pin /\ inReset
            /\ ~Left(todo, "deassert") => inReset \/ cHalt
            /\ ~Left(todo, "clearCatch") => IsHalted

(* Every step of a connection keeps it.                                    *)
LEMMA ConnectKept ==
  ASSUME ShapeInv, ConnectInv, CallStep
  PROVE  ConnectInv'
<1> DEFINE h == Head(todo)
<1>1. /\ todo # <<>> /\ call' = call
      /\ \A a : Left(todo, a) <=> h = a \/ Left(Rest, a)
      /\ h \in StepsOf(call)
  BY StepsGoOn, RestFacts
<1>2. outcome' = "ok" => outcome = "ok"
  BY StepFrame
<1>3. h # "check" => Raised \/ GoesOn(todo')
  BY StepsGoOn DEF At
<1>4. call.op # "none"
  BY <1>1 DEF ConnectInv
<1>5. CASE call.op = "connect" /\ call.mode = "halt"
  <2>1. h \in Attaching /\ ~inReset
    BY <1>1, <1>5 DEF StepsOf, ConnectInv
  <2>2. ~inReset'
    BY <1>1, <2>1, ActionAt
    DEF AccessFails, Attaching, ReadControls, EnableDebug, AdoptCatch, HaltCore, ReadDhcsr,
        WriteDhcsr, ctlCore
  <2>3. ASSUME outcome' = "ok", ~Left(todo', "halt") PROVE cHalt'
    <3>1. ~Raised /\ ~AccessFails
      BY <2>3, RaisesRaised DEF Raised, AccessFails
    <3>2. ~Left(Rest, "halt")
      BY <1>3, <2>1, <2>3, <3>1 DEF GoesOn, Attaching
    <3>3. h = "halt"
      BY <1>1, <1>5, <2>1, <3>2, FollowsTail DEF ShapeInv, CallTypes, Shaped, Rest
    <3> QED BY <3>1, <3>3, ActionAt DEF HaltCore, WriteDhcsr
  <2> QED BY <1>1, <1>5, <2>2, <2>3 DEF ConnectInv
<1>6. CASE call.op = "connect" /\ call.mode = "under-reset"
  <2> SUFFICES ASSUME outcome' = "ok"
               PROVE  /\ Left(todo', "deassert") /\ ~Left(todo', "assert") => pin' /\ inReset'
                      /\ ~Left(todo', "deassert") => inReset' \/ cHalt'
                      /\ ~Left(todo', "clearCatch") => IsHalted'
    BY <1>1, <1>6 DEF ConnectInv
  <2>1. ~Raised /\ ~AccessFails /\ outcome = "ok"
    BY <1>2, RaisesRaised DEF Raised, AccessFails
  <2>2. h \in Holding \cup {"deassert", "clearCatch"}
    BY <1>1, <1>6 DEF StepsOf
  <2>3. /\ h \in Holding => Left(Rest, "deassert")
        /\ h = "deassert" => Left(Rest, "clearCatch") /\ ~Left(Rest, "deassert")
        /\ h = "clearCatch" => ~Left(Rest, "deassert") /\ ~Left(Rest, "clearCatch")
        /\ h \in Attaching \cup {"setCatch", "deassert"} => ~Left(Rest, "assert")
        /\ Left(Rest, "deassert") => Left(Rest, "clearCatch")
    BY <1>1, <1>6, FollowsTail, NotAfterTail, RestFacts, FollowsLeft
    DEF ShapeInv, CallTypes, Shaped, HoldShape, Rest
  <2>4. \A a : Left(todo', a) <=> Left(Rest, a)
    BY <1>3, <2>1, <2>2 DEF GoesOn, NewSteps, Holding, Attaching
  <2>5. CASE h = "assert"
    BY <2>1, <2>3, <2>4, <2>5, ActionAt DEF Holding, AssertReset, ResetBegins
  <2>6. CASE h \in Attaching \cup {"setCatch"}
    <3>1. Left(todo, "deassert") /\ ~Left(todo, "assert") /\ pin /\ inReset
      BY <1>1, <1>6, <2>1, <2>3, <2>6 DEF ConnectInv, Holding, Attaching
    <3>2. pin' = pin /\ inReset' = inReset
      BY <2>1, <2>6, ActionAt
      DEF Attaching, ReadControls, EnableDebug, AdoptCatch, HaltCore, SetCatch, ReadDhcsr,
          WriteDhcsr, ctlCore
    <3> QED BY <2>3, <2>4, <2>6, <3>1, <3>2 DEF Holding
  <2>7. CASE h = "deassert"
    <3>1. inReset
      BY <1>1, <1>6, <2>1, <2>3, <2>7 DEF ConnectInv
    <3>2. inReset' = inReset
      BY <2>1, <2>7, ActionAt DEF ReleaseReset
    <3> QED BY <2>3, <2>4, <2>7, <3>1, <3>2
  <2>8. CASE h = "clearCatch"
    <3>1. inReset \/ cHalt
      BY <1>1, <1>6, <2>1, <2>3, <2>8 DEF ConnectInv
    <3>2. ~inReset /\ inReset' = inReset /\ cHalt' = cHalt
      BY <1>6, <2>1, <2>8, ActionAt, RaisesRaised DEF ClearCatch, Ends
    <3> QED BY <2>3, <2>4, <2>8, <3>1, <3>2 DEF IsHalted
  <2> QED BY <2>2, <2>5, <2>6, <2>7, <2>8 DEF Holding
<1>7. CASE call.op # "connect" \/ call.mode \notin {"halt", "under-reset"}
  BY <1>1, <1>4, <1>7 DEF ConnectInv
<1> QED BY <1>5, <1>6, <1>7

-----------------------------------------------------------------------------
(* What step() knows.                                                      *)
StepInv ==
  call.op = "step" =>
    /\ Left(todo, "wait") /\ ~Left(todo, "step") => ~(inReset /\ cHalt)
    /\ outcome = "ok" /\ ~Left(todo, "check") =>
         /\ ~Left(todo, "wait") => IsHalted
         /\ ~Left(todo, "unmask") => maskInts = saved /\ (Left(todo, "wait") => saved = call.mask)

(* The steps of step(), one by one.                                        *)
LEMMA LeftSteps ==
  /\ \A a : Left(<<"check">>, a) <=> a = "check"
  /\ \A a : Left(<<"token", "step", "wait">>, a) <=> a \in {"token", "step", "wait"}
  /\ \A a : Left(<<"token", "mask", "step", "wait", "unmask">>, a)
               <=> a \in {"token", "mask", "step", "wait", "unmask"}
  BY DEF Left

(* Every step of step() keeps it.                                          *)
LEMMA StepKept ==
  ASSUME ShapeInv, StepInv, CallStep
  PROVE  StepInv'
<1> DEFINE h == Head(todo)
<1>1. /\ todo # <<>> /\ call' = call
      /\ \A a : Left(todo, a) <=> h = a \/ Left(Rest, a)
      /\ h \in StepsOf(call)
  BY StepsGoOn, RestFacts
<1>2. outcome' = "ok" => outcome = "ok"
  BY StepFrame
<1> SUFFICES ASSUME call.op = "step" PROVE StepInv'
  BY <1>1 DEF StepInv
<1>3. CASE Raised
  <2>1. \A a : ~Left(todo', a)
    BY <1>3, RaisedShaped
  <2> QED BY <1>1, <1>3, <2>1 DEF StepInv, Raised
<1>4. CASE ~Raised
  <2>1. ~AccessFails /\ h \in Stepping
    BY <1>1, <1>4, RaisesRaised DEF AccessFails, StepsOf
  <2>2. /\ h = "mask" => Left(Rest, "step") /\ Left(Rest, "unmask") /\ Left(Rest, "wait")
        /\ h = "step" => Left(Rest, "wait")
        /\ h = "wait" => /\ ~Left(Rest, "step") /\ ~Left(Rest, "wait") /\ ~Left(Rest, "check")
        /\ h = "unmask" => ~Left(Rest, "wait") /\ ~Left(Rest, "check") /\ ~Left(Rest, "unmask")
    BY <1>1, FollowsTail, NotAfterTail, RestFacts, FollowsLeft
    DEF ShapeInv, CallTypes, Shaped, StepShape, Rest, Stepping
  <2>3. h # "check" => GoesOn(todo')
    BY <1>4, StepsGoOn DEF At
  <2>4. h \notin {"check", "wait"} => \A a : Left(todo', a) <=> Left(Rest, a)
    BY <2>1, <2>3 DEF GoesOn, NewSteps, Stepping
  <2>5. CASE h = "check"
    <3>1. CheckHalted
      BY <2>1, <2>5, ActionAt
    <3>2. \/ todo' = <<>> /\ outcome' = "refused"
          \/ todo' = <<"token", "mask", "step", "wait", "unmask">>
          \/ todo' = <<"token", "step", "wait">> /\ saved' = call.mask /\ maskInts' = saved'
      BY <1>4, <3>1, RaisesRaised DEF CheckHalted, Continue, Ends, ReadDhcsr
    <3>3. CASE todo' = <<>> /\ outcome' = "refused"
      BY <3>3, LeftEmpty DEF StepInv
    <3>4. CASE todo' = <<"token", "mask", "step", "wait", "unmask">>
      BY <3>4, LeftSteps DEF StepInv
    <3>5. CASE todo' = <<"token", "step", "wait">> /\ saved' = call.mask /\ maskInts' = saved'
      BY <1>1, <3>5, LeftSteps DEF StepInv
    <3> QED BY <3>2, <3>3, <3>4, <3>5
  <2>6. CASE h = "token"
    BY <1>1, <1>2, <2>1, <2>4, <2>6, ActionAt DEF StepInv, NextToken, ctlCore, IsHalted
  <2>7. CASE h = "mask"
    BY <1>1, <2>2, <2>4, <2>7 DEF StepInv
  <2>8. CASE h = "step"
    <3>1. StepCore
      BY <2>1, <2>8, ActionAt
    <3>2. ~cHalt' /\ maskInts' \in {call.mask, maskInts} /\ saved' = saved
      BY <3>1 DEF StepCore, WriteDhcsr, UnchangedCall
    <3> QED BY <1>1, <1>2, <2>2, <2>4, <2>8, <3>2 DEF StepInv
  <2>9. CASE h = "wait"
    <3>1. AwaitStep
      BY <2>1, <2>9, ActionAt
    <3>2. inReset' = inReset /\ cHalt' = cHalt /\ maskInts' = maskInts /\ saved' = saved
      BY <3>1 DEF AwaitStep, ReadDhcsr, UnchangedCall, ctlCore
    <3>3. \/ todo' = Rest /\ (outcome' = "early" \/ cHalt)
          \/ todo' = todo
          \/ todo' = <<"step">> \o todo
      BY <1>4, <3>1, RaisesRaised DEF AwaitStep, Continue, Ends
    <3>4. CASE todo' = Rest /\ (outcome' = "early" \/ cHalt)
      BY <1>1, <1>2, <2>2, <2>9, <3>2, <3>4 DEF StepInv, IsHalted
    <3>5. CASE todo' = todo
      BY <1>1, <1>2, <2>2, <2>9, <3>2, <3>5 DEF StepInv, IsHalted
    <3>6. CASE todo' = <<"step">> \o todo
      <4>1. \A a : Left(todo', a) <=> "step" = a \/ Left(todo, a)
        BY <3>6, LeftCons DEF ShapeInv, CallTypes, CtlSteps
      <4> QED BY <1>1, <1>2, <2>9, <3>2, <4>1 DEF StepInv, IsHalted
    <3> QED BY <3>3, <3>4, <3>5, <3>6
  <2>10. CASE h = "unmask"
    <3>1. UnmaskInterrupts
      BY <2>1, <2>10, ActionAt
    <3>2. cHalt' /\ inReset' = inReset /\ saved' = saved /\ (cHalt => maskInts' = saved)
      BY <3>1 DEF UnmaskInterrupts, WriteDhcsr, UnchangedCall
    <3> QED BY <1>1, <1>2, <2>2, <2>4, <2>10, <3>2 DEF StepInv, IsHalted
  <2> QED BY <2>1, <2>5, <2>6, <2>7, <2>8, <2>9, <2>10 DEF Stepping
<1> QED BY <1>3, <1>4

-----------------------------------------------------------------------------
StopInv == ShapeInv /\ ResetHaltInv /\ ConnectInv /\ StepInv

(* The invariant before the first call.                                    *)
LEMMA StopInvHolds == CtlInit => StopInv
<1> SUFFICES ASSUME CtlInit PROVE StopInv
  OBVIOUS
<1>1. todo = <<>> /\ call = NoCall /\ call.op = "none"
  BY DEF CtlInit, NoCall
<1>2. ShapeInv
  <2>1. CallTypes
    <3>1. <<>> \in Seq(CtlSteps)
      OBVIOUS
    <3>2. vcReset \in BOOLEAN /\ lastCatch \in BOOLEAN
      BY DEF CtlInit
    <3>3. seen \in States
      BY DEF CtlInit, States
    <3> QED BY <1>1, <3>1, <3>2, <3>3 DEF CallTypes
  <2>2. CatchInv
    BY <1>1, LeftEmpty DEF CtlInit, CatchInv
  <2>3. Shaped(call, todo)
    BY <1>1, ShapedEmpty
  <2> QED BY <2>1, <2>2, <2>3 DEF ShapeInv
<1> QED BY <1>1, <1>2 DEF CtlInit, StopInv, ResetHaltInv, ConnectInv, StepInv

(* The core by itself.                                                     *)
LEMMA CoreMovesStop == ASSUME StopInv, CoreMoves PROVE StopInv'
<1>1. /\ todo' = todo /\ call' = call /\ outcome' = outcome /\ seen' = seen /\ saved' = saved
      /\ lastCatch' = lastCatch /\ connected' = connected /\ vcReset' = vcReset
      /\ unsure' = unsure /\ didReset' = didReset /\ maskInts' = maskInts /\ pin' = pin
  BY DEF CoreMoves, CoreExecutes, LeavesReset, ctlCalls, ctlNotes
<1>2. ShapeInv'
  BY <1>1 DEF StopInv, ShapeInv, CallTypes, CatchInv
<1>3. \/ ~inReset /\ ~cHalt /\ inReset' = inReset
      \/ inReset /\ ~inReset' /\ ~pin /\ fresh' = fresh /\ (vcReset => cHalt')
  BY DEF CoreMoves, CoreExecutes, LeavesReset
<1>4. ResetHaltInv'
  BY <1>1, <1>3 DEF StopInv, ShapeInv, CatchInv, ResetHaltInv, IsHalted
<1>5. ConnectInv'
  <2>1. call.op = "connect" /\ call.mode = "under-reset" /\ Left(todo, "setCatch") =>
          Left(todo, "deassert")
    BY FollowsLeft DEF StopInv, ShapeInv, CallTypes, Shaped, HoldShape, Holding
  <2> QED BY <1>1, <1>3, <2>1 DEF StopInv, ShapeInv, CatchInv, ConnectInv, IsHalted
<1>6. StepInv'
  BY <1>1, <1>3 DEF StopInv, StepInv, IsHalted
<1> QED BY <1>2, <1>4, <1>5, <1>6 DEF StopInv

(* Where a call begins.                                                    *)
LEMMA CallBegins ==
  ASSUME StopInv, NEW c, NEW steps \in Seq(CtlSteps), Calls(c, steps), lastCatch' \in BOOLEAN,
         Shaped(c, steps), c.op # "none",
         lastCatch' = lastCatch \/ Left(steps, "writeCatch"),
         Left(steps, "clearCatch") => Left(steps, "setCatch"),
         c.op = "connect" => (c.mode = "halt" => Left(steps, "halt") /\ call.op = "none"),
         c.op = "connect" /\ c.mode = "under-reset" =>
           Left(steps, "assert") /\ Left(steps, "deassert") /\ Left(steps, "clearCatch"),
         c.op = "step" => steps = <<"check">>
  PROVE  StopInv'
<1>1. /\ call' = c /\ todo' = steps /\ todo = <<>> /\ outcome' = "ok" /\ seen' = "running"
      /\ ~didReset' /\ vcReset' = vcReset /\ connected' = connected /\ unsure' = unsure
      /\ inReset' = inReset
  BY DEF Calls, CtlIdle, ctlCore
<1>2. \A a : ~Left(todo, a)
  BY <1>1, LeftEmpty
<1>3. CatchInv'
  BY <1>1, <1>2 DEF CatchInv, StopInv, ShapeInv
<1>4. ShapeInv'
  BY <1>1, <1>3 DEF ShapeInv, StopInv, CallTypes, States
<1>5. ResetHaltInv'
  BY <1>1 DEF ResetHaltInv
<1>6. ConnectInv'
  BY <1>1 DEF StopInv, ConnectInv
<1>7. StepInv'
  BY <1>1, LeftSteps DEF StepInv
<1> QED BY <1>4, <1>5, <1>6, <1>7 DEF StopInv

(* Resets alone do not touch the catch; reset_and_halt() sets it before    *)
(* it clears it.                                                           *)
LEMMA CallSteps ==
  /\ \A type \in ResetTypes : /\ ResetSteps(type) \in Seq(CtlSteps)
                              /\ ~Left(ResetSteps(type), "clearCatch")
  /\ \A type \in ResetTypes : /\ ResetAndHaltSteps(type) \in Seq(CtlSteps)
                              /\ Left(ResetAndHaltSteps(type), "setCatch")
<1>1. ASSUME NEW type \in ResetTypes
      PROVE  ResetSteps(type) \in Seq(CtlSteps) /\ ~Left(ResetSteps(type), "clearCatch")
  <2>1. CASE type = "nsrst"
    BY <2>1 DEF ResetSteps, CtlSteps, Left
  <2>2. CASE type = "sysresetreq"
    BY <2>2 DEF ResetSteps, CtlSteps, Left
  <2>3. CASE type \in {"core", "vectreset"}
    <3>1. ResetSteps(type) = <<"token">> \o <<"aircr">>
      BY <2>3 DEF ResetSteps
    <3>2. \A s : s = <<"token">> \o <<"aircr">> => s \in Seq(CtlSteps) /\ ~Left(s, "clearCatch")
      BY DEF CtlSteps, Left
    <3> QED BY <3>1, <3>2
  <2>4. CASE type = "emulated"
    BY <2>4 DEF ResetSteps, CtlSteps, Left
  <2> QED BY <2>1, <2>2, <2>3, <2>4 DEF ResetTypes
<1>2. ASSUME NEW type \in ResetTypes
      PROVE  ResetAndHaltSteps(type) \in Seq(CtlSteps) /\ Left(ResetAndHaltSteps(type), "setCatch")
  <2>1. ASSUME NEW r \in Seq(CtlSteps), NEW m \in Seq(CtlSteps), NEW e \in Seq(CtlSteps), NEW s,
               s = <<"halt", "setCatch">> \o r \o m \o e
        PROVE  s \in Seq(CtlSteps) /\ Left(s, "setCatch")
    <3>1. <<"halt", "setCatch">> \in Seq(CtlSteps)
      BY DEF CtlSteps
    <3>2. s \in Seq(CtlSteps) /\ 2 \in 1..Len(s) /\ s[2] = "setCatch"
      BY <2>1, <3>1
    <3> QED BY <3>2 DEF Left
  <2>2. /\ <<>> \in Seq(CtlSteps) /\ <<"state", "await">> \in Seq(CtlSteps)
        /\ <<"clearCatch", "state">> \in Seq(CtlSteps)
    BY DEF CtlSteps
  <2> DEFINE m == IF type = "emulated" THEN <<>> ELSE <<"state", "await">>
  <2>3. m \in Seq(CtlSteps)
    BY <2>2
  <2> HIDE DEF m
  <2>4. ResetAndHaltSteps(type)
          = <<"halt", "setCatch">> \o ResetSteps(type) \o m \o <<"clearCatch", "state">>
    BY DEF ResetAndHaltSteps, m
  <2> QED BY <1>1, <2>1, <2>2, <2>3, <2>4
<1> QED BY <1>1, <1>2

(* The steps of a connection that the invariant speaks of.                 *)
LEMMA ConnectStepsKnown ==
  ASSUME NEW mode \in {"attach", "halt", "pre-reset", "under-reset"}
  PROVE  /\ ConnectSteps(mode) \in Seq(CtlSteps)
         /\ mode = "halt" => Left(ConnectSteps(mode), "halt")
         /\ mode = "under-reset" =>
              \A a \in {"assert", "setCatch", "deassert", "clearCatch"} : Left(ConnectSteps(mode), a)
         /\ Left(ConnectSteps(mode), "clearCatch") => mode = "under-reset"
<1>1. CASE mode = "attach"
  BY <1>1 DEF ConnectSteps, CtlSteps, Left
<1>2. CASE mode = "halt"
  BY <1>2 DEF ConnectSteps, CtlSteps, Left
<1>3. CASE mode = "pre-reset"
  BY <1>3 DEF ConnectSteps, CtlSteps, Left
<1>4. CASE mode = "under-reset"
  <2>1. ASSUME NEW s, s = <<"assert">> \o <<"read", "enable", "adopt">>
                            \o <<"halt", "setCatch", "deassert", "clearCatch">>
        PROVE  /\ s \in Seq(CtlSteps)
               /\ \A a \in {"assert", "setCatch", "deassert", "clearCatch"} : Left(s, a)
    <3>1. s \in Seq(CtlSteps)
      BY <2>1 DEF CtlSteps
    <3>2. /\ Len(s) = 8 /\ s[1] = "assert" /\ s[6] = "setCatch" /\ s[7] = "deassert"
          /\ s[8] = "clearCatch"
      BY <2>1
    <3> QED BY <3>1, <3>2 DEF Left
  <2> QED BY <1>4, <2>1 DEF ConnectSteps
<1> QED BY <1>1, <1>2, <1>3, <1>4

(* A new call.                                                             *)
LEMMA NewCallStops == ASSUME StopInv, NewCall PROVE StopInv'
<1>1. lastCatch \in BOOLEAN
  BY DEF StopInv, ShapeInv, CallTypes
<1>2. CASE Connect
  <2>1. PICK mode \in {"attach", "halt", "pre-reset", "under-reset"} :
          Calls([op |-> "connect", mode |-> mode], ConnectSteps(mode))
    BY <1>2 DEF Connect
  <2>2. call.op = "none" /\ lastCatch' = lastCatch
    BY <1>2 DEF Connect
  <2> DEFINE c == [op |-> "connect", mode |-> mode]
  <2>3. c.op = "connect" /\ c.mode = mode
    OBVIOUS
  <2> HIDE DEF c
  <2>4. Shaped(c, ConnectSteps(mode))
    BY <2>3, ConnectShaped
  <2> QED BY <1>1, <2>1, <2>2, <2>3, <2>4, ConnectStepsKnown, CallBegins DEF c
<1>3. CASE HaltCall \/ ResumeCall \/ GetVectorCatch
  <2>1. \A c, s : c.op \in {"halt", "resume", "get_vector_catch"} /\ Within(s, StepsOf(c)) => Shaped(c, s)
    BY DEF Shaped
  <2>2. Shaped([op |-> "halt"], <<"halt">>)
    BY <2>1 DEF Within, StepsOf
  <2>3. Shaped([op |-> "resume"], <<"state", "resume">>)
    BY <2>1 DEF Within, StepsOf
  <2>4. Shaped([op |-> "get_vector_catch"], <<"adopt">>)
    BY <2>1 DEF Within, StepsOf
  <2>6. CASE HaltCall
    <3>1. <<"halt">> \in Seq(CtlSteps) /\ ~Left(<<"halt">>, "clearCatch")
      BY DEF CtlSteps, Left
    <3> QED BY <1>1, <2>2, <2>6, <3>1, CallBegins DEF HaltCall
  <2>7. CASE ResumeCall
    <3>1. <<"state", "resume">> \in Seq(CtlSteps) /\ ~Left(<<"state", "resume">>, "clearCatch")
      BY DEF CtlSteps, Left
    <3>2. Calls([op |-> "resume"], <<"state", "resume">>) /\ lastCatch' = lastCatch
      BY <2>7 DEF ResumeCall
    <3> DEFINE c == [op |-> "resume"]
               s == <<"state", "resume">>
    <3>3. c.op = "resume"
      OBVIOUS
    <3>4. s \in Seq(CtlSteps) /\ ~Left(s, "clearCatch") /\ Shaped(c, s) /\ Calls(c, s)
      BY <2>3, <3>1, <3>2
    <3> HIDE DEF c, s
    <3> QED BY <1>1, <3>2, <3>3, <3>4, CallBegins
  <2>8. CASE GetVectorCatch
    <3>1. <<"adopt">> \in Seq(CtlSteps) /\ ~Left(<<"adopt">>, "clearCatch")
      BY DEF CtlSteps, Left
    <3> QED BY <1>1, <2>4, <2>8, <3>1, CallBegins DEF GetVectorCatch
  <2> QED BY <1>3, <2>6, <2>7, <2>8
<1>4. CASE StepCall
  <2>1. PICK mask \in BOOLEAN, ranged \in BOOLEAN :
          Calls([op |-> "step", mask |-> mask, ranged |-> ranged], <<"check">>)
    BY <1>4 DEF StepCall
  <2> DEFINE c == [op |-> "step", mask |-> mask, ranged |-> ranged]
  <2>2. c.op = "step" /\ lastCatch' = lastCatch
    BY <1>4 DEF StepCall
  <2> HIDE DEF c
  <2>3. Shaped(c, <<"check">>)
    BY <2>2, StepStepsShaped
  <2>4. <<"check">> \in Seq(CtlSteps)
    BY DEF CtlSteps
  <2> QED BY <1>1, <2>1, <2>2, <2>3, <2>4, LeftSteps, CallBegins DEF c
<1>5. CASE ResetCall
  <2>1. PICK type \in ResetTypes :
          Calls([op |-> "reset", type |-> ActualType(type)], ResetSteps(ActualType(type)))
    BY <1>5 DEF ResetCall
  <2> DEFINE t == ActualType(type)
             c == [op |-> "reset", type |-> t]
  <2>2. c.op = "reset" /\ lastCatch' = lastCatch /\ t \in ResetTypes
    BY <1>5 DEF ResetCall, ActualType, ResetTypes
  <2> HIDE DEF t, c
  <2>3. Shaped(c, ResetSteps(t))
    BY <2>2, ResetShaped
  <2>4. Calls(c, ResetSteps(t))
    BY <2>1 DEF c, t
  <2> QED BY <1>1, <2>2, <2>3, <2>4, CallSteps, CallBegins
<1>6. CASE ResetAndHaltCall
  <2>1. PICK type \in ResetTypes :
          Calls([op |-> "reset_and_halt", type |-> ActualType(type)],
                ResetAndHaltSteps(ActualType(type)))
    BY <1>6 DEF ResetAndHaltCall
  <2> DEFINE t == ActualType(type)
             c == [op |-> "reset_and_halt", type |-> t]
  <2>2. c.op = "reset_and_halt" /\ lastCatch' = lastCatch /\ t \in ResetTypes
    BY <1>6 DEF ResetAndHaltCall, ActualType, ResetTypes
  <2> HIDE DEF t, c
  <2>3. Shaped(c, ResetAndHaltSteps(t))
    BY <2>2, ResetAndHaltShaped
  <2>4. Calls(c, ResetAndHaltSteps(t))
    BY <2>1 DEF c, t
  <2> QED BY <1>1, <2>2, <2>3, <2>4, CallSteps, CallBegins
<1>7. CASE SetVectorCatch
  <2>1. Shaped([op |-> "set_vector_catch"], <<"writeCatch">>)
    BY DEF Shaped, Within, StepsOf
  <2>2. /\ <<"writeCatch">> \in Seq(CtlSteps) /\ Left(<<"writeCatch">>, "writeCatch")
        /\ ~Left(<<"writeCatch">>, "clearCatch")
    BY DEF CtlSteps, Left
  <2> QED BY <1>7, <2>1, <2>2, CallBegins DEF SetVectorCatch
<1>8. CASE FillCache
  <2>1. /\ todo' = todo /\ call' = call /\ outcome' = outcome /\ seen' = seen /\ saved' = saved
        /\ lastCatch' = lastCatch /\ connected' = connected /\ vcReset' = vcReset
        /\ unsure' = unsure /\ didReset' = didReset /\ maskInts' = maskInts /\ pin' = pin
        /\ inReset' = inReset /\ cHalt' = cHalt /\ fresh' = fresh
    BY <1>8 DEF FillCache, ReadDhcsr, ctlCalls
  <2> QED BY <2>1 DEF StopInv, ShapeInv, CallTypes, CatchInv, ResetHaltInv, ConnectInv, StepInv, IsHalted
<1> QED BY <1>2, <1>3, <1>4, <1>5, <1>6, <1>7, <1>8 DEF NewCall

(* The invariant is inductive.                                             *)
LEMMA StopInvKept == StopInv /\ [CtlNext]_ctlVars => StopInv'
<1> SUFFICES ASSUME StopInv, [CtlNext]_ctlVars PROVE StopInv'
  OBVIOUS
<1>1. CASE CallStep
  BY <1>1, ShapeInvKept, ResetHaltKept, ConnectKept, StepKept DEF StopInv
<1>2. CASE CoreMoves
  BY <1>2, CoreMovesStop
<1>3. CASE NewCall
  BY <1>3, NewCallStops
<1>4. CASE UNCHANGED ctlVars
  BY <1>4 DEF ctlVars, ctlCore, ctlCalls, ctlNotes, StopInv, ShapeInv, CallTypes, CatchInv,
              ResetHaltInv, ConnectInv, StepInv, IsHalted
<1> QED BY <1>1, <1>2, <1>3, <1>4 DEF CtlNext, CallStep

(* It holds at any time.                                                   *)
LEMMA StopInvAlways == CtlSpec => []StopInv
  BY StopInvHolds, StopInvKept, PTL DEF CtlSpec

(* The vector catch of resets is what the user asked for or was last told  *)
(* whenever no call is under way, unless an error came while it was being  *)
(* changed, and step() gives C_MASKINTS back: for any number of calls and  *)
(* of accesses that fail, whatever the core does between two accesses.     *)
THEOREM ControlsRestoredAlways == CtlSpec => []ControlsRestored
<1>1. StopInv => ControlsRestored
  <2> SUFFICES ASSUME StopInv, CtlIdle PROVE ControlsRestored
    BY DEF ControlsRestored
  <2>1. \A a : ~Left(todo, a)
    BY LeftEmpty DEF CtlIdle
  <2> QED BY <2>1 DEF StopInv, ShapeInv, CatchInv, StepInv, ControlsRestored
<1> QED BY <1>1, StopInvAlways, PTL

(* reset_and_halt(), step() and the connections that halt have stopped     *)
(* the core where they should when they return normally: for any number    *)
(* of calls and of accesses that fail, whatever the core does between two  *)
(* accesses.                                                               *)
THEOREM StopsAsAskedAlways == CtlSpec => []StopsAsAsked
<1>1. StopInv => StopsAsAsked
  <2> SUFFICES ASSUME StopInv, CtlIdle, outcome = "ok" PROVE StopsAsAsked
    BY DEF StopsAsAsked
  <2>1. \A a : ~Left(todo, a)
    BY LeftEmpty DEF CtlIdle
  <2> QED BY <2>1 DEF StopInv, ResetHaltInv, ConnectInv, StepInv, StopsAsAsked, IsHalted
<1> QED BY <1>1, StopInvAlways, PTL

-----------------------------------------------------------------------------
(* Types.  That the run token stays within its bound is what a call has    *)
(* left to do: one that changes it twice (a reset that resumes, emulated)  *)
(* began below it.                                                         *)
Spending == {"token", "resume", "unlessCaught", "check"}

SpendShape(s) ==
  /\ NotAfter(s, Spending, {"token", "resume", "check"})
  /\ NotAfter(s, {"resume", "unlessCaught", "check"}, {"unlessCaught"})

SpendInv ==
  /\ SpendShape(todo)
  /\ runToken \in 0..(CtlTokens + 1) /\ filledAt \in -1..runToken
  /\ \A a \in Spending : Left(todo, a) => runToken <= CtlTokens
  /\ Left(todo, "token") /\ Left(todo, "unlessCaught") => runToken < CtlTokens

Flags ==
  /\ v7m \in BOOLEAN /\ inReset \in BOOLEAN /\ pin \in BOOLEAN /\ cHalt \in BOOLEAN
  /\ cStep \in BOOLEAN /\ maskInts \in BOOLEAN /\ vcReset \in BOOLEAN
  /\ resetSt \in BOOLEAN /\ retireSt \in BOOLEAN /\ fresh \in BOOLEAN

Notes ==
  /\ connected \in BOOLEAN /\ saved \in BOOLEAN /\ lastCatch \in BOOLEAN
  /\ didReset \in BOOLEAN /\ unsure \in BOOLEAN /\ ranSince \in BOOLEAN
  /\ outcome \in Outcomes /\ ctlFaults \in 0..CtlFaults
  /\ call.op = "step" => call.mask \in BOOLEAN

TypeInv == StopInv /\ SpendInv /\ Flags /\ Notes

(* Nothing is left to spend the token.                                     *)
LEMMA SpendEmpty == SpendShape(<<>>)
  BY DEF SpendShape, NotAfter

(* What is left after a step is spent as before.                           *)
LEMMA SpendTail ==
  ASSUME NEW s \in Seq(CtlSteps), s # <<>>, SpendShape(s)
  PROVE  /\ SpendShape(Tail(s))
         /\ Head(s) \in Spending =>
              ~Left(Tail(s), "token") /\ ~Left(Tail(s), "resume") /\ ~Left(Tail(s), "check")
         /\ Head(s) \in Spending \ {"token"} => ~Left(Tail(s), "unlessCaught")
<1>1. /\ NotAfter(s, Spending, {"token", "resume", "check"})
      /\ NotAfter(s, {"resume", "unlessCaught", "check"}, {"unlessCaught"})
  BY DEF SpendShape
<1>2. /\ NotAfter(Tail(s), Spending, {"token", "resume", "check"})
      /\ Head(s) \in Spending =>
           \A b \in {"token", "resume", "check"} : ~Left(Tail(s), b)
  BY <1>1, NotAfterTail
<1>3. /\ NotAfter(Tail(s), {"resume", "unlessCaught", "check"}, {"unlessCaught"})
      /\ Head(s) \in {"resume", "unlessCaught", "check"} =>
           \A b \in {"unlessCaught"} : ~Left(Tail(s), b)
  BY <1>1, NotAfterTail
<1> QED BY <1>2, <1>3 DEF SpendShape, Spending

(* One step before the others.                                             *)
LEMMA SpendCons ==
  ASSUME NEW s \in Seq(CtlSteps), NEW e \in CtlSteps, SpendShape(s),
         e \in Spending => \A b \in Spending : ~Left(s, b)
  PROVE  <<e>> \o s \in Seq(CtlSteps) /\ SpendShape(<<e>> \o s)
<1>1. /\ NotAfter(s, Spending, {"token", "resume", "check"})
      /\ NotAfter(s, {"resume", "unlessCaught", "check"}, {"unlessCaught"})
  BY DEF SpendShape
<1>2. NotAfter(<<e>> \o s, Spending, {"token", "resume", "check"})
  BY <1>1, NotAfterCons DEF Spending
<1>3. NotAfter(<<e>> \o s, {"resume", "unlessCaught", "check"}, {"unlessCaught"})
  BY <1>1, NotAfterCons DEF Spending
<1> QED BY <1>2, <1>3 DEF SpendShape

(* Two before the others.                                                  *)
LEMMA NotAfterCons2 ==
  ASSUME NEW s \in Seq(CtlSteps), NEW a \in CtlSteps, NEW b \in CtlSteps, NEW A, NEW B,
         NotAfter(s, A, B), a \in A => b \notin B,
         a \in A \/ b \in A => \A c \in B : ~Left(s, c)
  PROVE  NotAfter(<<a, b>> \o s, A, B)
<1> DEFINE t == <<a, b>> \o s
<1>1. /\ Len(t) = Len(s) + 2 /\ t[1] = a /\ t[2] = b
      /\ \A i \in 1..Len(s) : t[i + 2] = s[i]
  OBVIOUS
<1> HIDE DEF t
<1> SUFFICES ASSUME NEW i \in 1..Len(t), t[i] \in A, NEW j \in (i + 1)..Len(t)
             PROVE  t[j] \notin B
  BY DEF NotAfter, t
<1>2. CASE j = 2
  BY <1>1, <1>2
<1>3. CASE j # 2
  <2>1. j - 2 \in 1..Len(s) /\ t[(j - 2) + 2] = s[j - 2]
    BY <1>1, <1>3
  <2>2. CASE i \in {1, 2}
    BY <1>1, <2>1, <2>2 DEF Left
  <2>3. CASE i \notin {1, 2}
    <3>1. i - 2 \in 1..Len(s) /\ t[(i - 2) + 2] = s[i - 2]
      BY <1>1, <2>3
    <3>2. j - 2 \in ((i - 2) + 1)..Len(s)
      BY <1>1, <2>3
    <3> QED BY <2>1, <3>1, <3>2 DEF NotAfter
  <2> QED BY <2>2, <2>3
<1> QED BY <1>2, <1>3

(* What a step may do to the token and to what a cache knows.              *)
LEMMA TokenFrame ==
  ASSUME CallStep
  PROVE  filledAt' = filledAt /\ (runToken' = runToken \/ NextToken)
<1>1. CASE AccessFails
  BY <1>1 DEF AccessFails, UnchangedCall, UnchangedNotes
<1>2. CASE StateSteps
  BY <1>2 DEF StateSteps, ReadState, ReadAgain, DecideResume, HaltCore, NextToken, RunCore,
              UnchangedCall, UnchangedNotes, ctlNotes
<1>3. CASE ResetCalls
  BY <1>3 DEF ResetCalls, PulseReset, WriteAircr, AircrLost, RecoverCore, EmulateReset,
              ResumeUnlessCaught, AwaitHalt, UnchangedCall, UnchangedNotes, ctlNotes
<1>4. CASE ConnectingSteps
  BY <1>4 DEF ConnectingSteps, ReadControls, EnableDebug, AssertReset, ReleaseReset,
              UnchangedCall, UnchangedNotes
<1>5. CASE CatchSteps
  BY <1>5 DEF CatchSteps, SetCatch, ClearCatch, AdoptCatch, WriteCatch,
              UnchangedCall, UnchangedNotes
<1>6. CASE StepSteps
  BY <1>6 DEF StepSteps, CheckHalted, MaskInterrupts, StepCore, AwaitStep, UnmaskInterrupts,
              UnchangedCall, UnchangedNotes
<1> QED BY <1>1, <1>2, <1>3, <1>4, <1>5, <1>6 DEF CallStep

(* What the other steps do to those that are left.                         *)
LEMMA PlainSteps ==
  ASSUME CallStep, ~Raises, ~NextToken, ~DecideResume, ~ResumeUnlessCaught, ~CheckHalted
  PROVE  \/ todo' \in {Rest, todo}
         \/ \E e \in {"again", "state", "step"} : todo' \in {<<e>> \o Rest, <<e>> \o todo}
<1>1. CASE StateSteps
  BY <1>1 DEF StateSteps, ReadState, ReadAgain, HaltCore, RunCore, Continue
<1>2. CASE ResetCalls
  BY <1>2 DEF ResetCalls, PulseReset, WriteAircr, AircrLost, RecoverCore, EmulateReset,
              AwaitHalt, Continue, Ends
<1>3. CASE ConnectingSteps
  BY <1>3 DEF ConnectingSteps, ReadControls, EnableDebug, AssertReset, ReleaseReset, Continue
<1>4. CASE CatchSteps
  BY <1>4 DEF CatchSteps, SetCatch, ClearCatch, AdoptCatch, WriteCatch, Continue, Ends
<1>5. CASE StepSteps
  BY <1>5 DEF StepSteps, MaskInterrupts, StepCore, AwaitStep, UnmaskInterrupts, Continue, Ends
<1> QED BY <1>1, <1>2, <1>3, <1>4, <1>5 DEF CallStep, AccessFails

(* What the steps of a call leave in it, of those that spend the token.    *)
LEMMA SpendKept ==
  ASSUME StopInv, SpendInv, CallStep
  PROVE  SpendInv'
<1> DEFINE h == Head(todo)
<1>1. /\ todo # <<>> /\ todo \in Seq(CtlSteps) /\ Rest \in Seq(CtlSteps) /\ h \in CtlSteps
      /\ \A a : Left(todo, a) <=> h = a \/ Left(Rest, a)
  BY StepsGoOn, RestFacts DEF StopInv, ShapeInv, CallTypes
<1>2. /\ SpendShape(todo) /\ SpendShape(Rest)
      /\ h \in Spending => ~Left(Rest, "token") /\ ~Left(Rest, "resume") /\ ~Left(Rest, "check")
      /\ h \in Spending \ {"token"} => ~Left(Rest, "unlessCaught")
  BY <1>1, SpendTail DEF SpendInv, Rest
<1>3. CtlTokens \in Nat /\ runToken \in 0..(CtlTokens + 1) /\ filledAt \in -1..runToken
  BY CtlAssumption DEF SpendInv
<1> HIDE DEF h
<1>4. CASE Raises /\ ~NextToken
  <2>1. todo' \in {<<>>, <<"deassert", "clearCatch">>}
    BY <1>4 DEF Raises, Handler
  <2>2. SpendShape(todo')
    BY <2>1, SpendEmpty DEF SpendShape, NotAfter, Spending
  <2>3. \A a \in Spending : ~Left(todo', a)
    BY <2>1, LeftEmpty DEF Left, Spending
  <2>4. runToken' = runToken /\ filledAt' = filledAt
    BY <1>4, TokenFrame
  <2> QED BY <1>3, <2>2, <2>3, <2>4 DEF SpendInv, Spending
<1>5. CASE NextToken
  <2>1. h = "token" /\ todo' = Rest /\ runToken' = runToken + 1 /\ filledAt' = filledAt
    BY <1>5 DEF NextToken, At, h, ctlNotes
  <2>2. SpendShape(todo') /\ \A a \in Spending \ {"unlessCaught"} : ~Left(todo', a)
    BY <1>2, <2>1 DEF Spending
  <2>3. runToken <= CtlTokens /\ (Left(Rest, "unlessCaught") => runToken < CtlTokens)
    BY <1>1, <2>1 DEF SpendInv, Spending
  <2> QED BY <1>3, <2>1, <2>2, <2>3 DEF SpendInv, Spending
<1>6. CASE ~Raises /\ DecideResume
  <2>1. h = "resume" /\ todo' \in {Rest, <<"token", "run">> \o Rest}
    BY <1>6 DEF DecideResume, At, h
  <2>2. \A a \in Spending : ~Left(Rest, a)
    BY <1>2, <2>1 DEF Spending
  <2>3. "token" \in CtlSteps /\ "run" \in CtlSteps
    BY DEF CtlSteps
  <2>4. SpendShape(<<"token", "run">> \o Rest)
    BY <1>1, <1>2, <2>2, <2>3, NotAfterCons2 DEF SpendShape, Spending
  <2>5. \A a \in Spending : Left(<<"token", "run">> \o Rest, a) => a = "token"
    BY <1>1, <2>2, <2>3, TwoCons DEF Spending
  <2>6. runToken <= CtlTokens
    BY <1>1, <2>1 DEF SpendInv, Spending
  <2>7. runToken' = runToken /\ filledAt' = filledAt
    BY <1>6 DEF DecideResume, UnchangedCall, ctlNotes
  <2> QED BY <1>2, <1>3, <2>1, <2>2, <2>4, <2>5, <2>6, <2>7 DEF SpendInv, Spending
<1>7. CASE ~Raises /\ ResumeUnlessCaught
  <2>1. h = "unlessCaught" /\ todo' \in {Rest, <<"state", "resume">> \o Rest}
    BY <1>7 DEF ResumeUnlessCaught, Continue, At, h
  <2>2. \A a \in Spending : ~Left(Rest, a)
    BY <1>2, <2>1 DEF Spending
  <2>3. "state" \in CtlSteps /\ "resume" \in CtlSteps
    BY DEF CtlSteps
  <2>4. SpendShape(<<"state", "resume">> \o Rest)
    BY <1>1, <1>2, <2>2, <2>3, NotAfterCons2 DEF SpendShape, Spending
  <2>5. \A a \in Spending : Left(<<"state", "resume">> \o Rest, a) => a = "resume"
    BY <1>1, <2>2, <2>3, TwoCons DEF Spending
  <2>6. runToken <= CtlTokens
    BY <1>1, <2>1 DEF SpendInv, Spending
  <2>7. runToken' = runToken /\ filledAt' = filledAt
    BY <1>7 DEF ResumeUnlessCaught, UnchangedCall, UnchangedNotes
  <2> QED BY <1>2, <1>3, <2>1, <2>2, <2>4, <2>5, <2>6, <2>7 DEF SpendInv, Spending
<1>8. CASE ~Raises /\ CheckHalted
  <2> DEFINE short == <<"token", "step", "wait">>
             long  == <<"token", "mask", "step", "wait", "unmask">>
  <2>1. h = "check" /\ todo' \in {<<>>, short, long}
    BY <1>8 DEF CheckHalted, Continue, Ends, At, h
  <2>2. SpendShape(short) /\ \A a \in Spending : Left(short, a) => a = "token"
    BY DEF SpendShape, NotAfter, Spending, Left
  <2>3. SpendShape(long) /\ \A a \in Spending : Left(long, a) => a = "token"
    BY DEF SpendShape, NotAfter, Spending, Left
  <2>4. runToken <= CtlTokens
    BY <1>1, <2>1 DEF SpendInv, Spending
  <2>5. runToken' = runToken /\ filledAt' = filledAt
    BY <1>8 DEF CheckHalted, UnchangedNotes
  <2> HIDE DEF short, long
  <2> QED BY <1>3, <2>1, <2>2, <2>3, <2>4, <2>5, SpendEmpty, LeftEmpty DEF SpendInv, Spending
<1>9. CASE ~Raises /\ ~NextToken /\ ~DecideResume /\ ~ResumeUnlessCaught /\ ~CheckHalted
  <2>1. runToken' = runToken /\ filledAt' = filledAt
    BY <1>9, TokenFrame
  <2>2. \/ todo' \in {Rest, todo}
        \/ \E e \in {"again", "state", "step"} : todo' \in {<<e>> \o Rest, <<e>> \o todo}
    BY <1>9, PlainSteps
  <2>3. SpendShape(todo') /\ \A a \in Spending : Left(todo', a) => Left(todo, a)
    <3>1. CASE todo' \in {Rest, todo}
      BY <1>1, <1>2, <3>1
    <3>2. ASSUME NEW e \in {"again", "state", "step"}, todo' \in {<<e>> \o Rest, <<e>> \o todo}
          PROVE  SpendShape(todo') /\ \A a \in Spending : Left(todo', a) => Left(todo, a)
      <4>1. e \in CtlSteps /\ e \notin Spending
        BY DEF CtlSteps, Spending
      <4>2. SpendShape(<<e>> \o Rest) /\ SpendShape(<<e>> \o todo)
        BY <1>1, <1>2, <4>1, SpendCons
      <4>3. \A a : /\ Left(<<e>> \o Rest, a) <=> e = a \/ Left(Rest, a)
                   /\ Left(<<e>> \o todo, a) <=> e = a \/ Left(todo, a)
        BY <1>1, <4>1, LeftCons
      <4>4. CASE todo' = <<e>> \o Rest
        BY <1>1, <4>1, <4>2, <4>3, <4>4
      <4>5. CASE todo' = <<e>> \o todo
        BY <4>1, <4>2, <4>3, <4>5
      <4> QED BY <3>2, <4>4, <4>5
    <3> QED BY <2>2, <3>1, <3>2
  <2> QED BY <1>3, <2>1, <2>3 DEF SpendInv, Spending
<1> QED BY <1>4, <1>5, <1>6, <1>7, <1>8, <1>9

(* A step that spends nothing is of no concern.                            *)
LEMMA NothingSpent ==
  ASSUME NEW s \in Seq(CtlSteps), NEW A, Within(s, A), \A a \in Spending : a \notin A
  PROVE  SpendShape(s) /\ \A a \in Spending : ~Left(s, a)
  BY DEF SpendShape, NotAfter, Within, Left, Spending

(* A reset changes the token first; only the emulated one, which may have  *)
(* to resume, does so again.                                               *)
LEMMA ResetSpends ==
  ASSUME NEW type \in ResetTypes
  PROVE  SpendShape(ResetSteps(type)) /\ SpendShape(ResetAndHaltSteps(type))
<1>1. SpendShape(ResetSteps(type))
  <2>1. CASE type = "nsrst"
    BY <2>1 DEF ResetSteps, SpendShape, NotAfter, Spending
  <2>2. CASE type = "sysresetreq"
    BY <2>2 DEF ResetSteps, SpendShape, NotAfter, Spending
  <2>3. CASE type \in {"core", "vectreset"}
    BY <2>3 DEF ResetSteps, SpendShape, NotAfter, Spending
  <2>4. CASE type = "emulated"
    BY <2>4 DEF ResetSteps, SpendShape, NotAfter, Spending
  <2> QED BY <2>1, <2>2, <2>3, <2>4 DEF ResetTypes
<1>2. SpendShape(ResetAndHaltSteps(type))
  <2>1. ASSUME NEW s, s = <<"halt", "setCatch">> \o (<<"token">> \o <<"pulse", "recover">>)
                          \o <<"state", "await">> \o <<"clearCatch", "state">>
        PROVE  SpendShape(s)
    BY <2>1 DEF SpendShape, NotAfter, Spending
  <2>2. ASSUME NEW s, s = <<"halt", "setCatch">> \o (<<"token">> \o <<"aircr", "recover">>)
                          \o <<"state", "await">> \o <<"clearCatch", "state">>
        PROVE  SpendShape(s)
    BY <2>2 DEF SpendShape, NotAfter, Spending
  <2>3. ASSUME NEW s, s = <<"halt", "setCatch">> \o (<<"token">> \o <<"aircr">>)
                          \o <<"state", "await">> \o <<"clearCatch", "state">>
        PROVE  SpendShape(s)
    BY <2>3 DEF SpendShape, NotAfter, Spending
  <2>4. ASSUME NEW s, s = <<"halt", "setCatch">> \o (<<"token">> \o <<"halt", "registers", "unlessCaught">>)
                          \o <<>> \o <<"clearCatch", "state">>
        PROVE  SpendShape(s)
    BY <2>4 DEF SpendShape, NotAfter, Spending
  <2>5. CASE type = "nsrst"
    BY <2>1, <2>5 DEF ResetAndHaltSteps, ResetSteps
  <2>6. CASE type = "sysresetreq"
    BY <2>2, <2>6 DEF ResetAndHaltSteps, ResetSteps
  <2>7. CASE type \in {"core", "vectreset"}
    BY <2>3, <2>7 DEF ResetAndHaltSteps, ResetSteps
  <2>8. CASE type = "emulated"
    BY <2>4, <2>8 DEF ResetAndHaltSteps, ResetSteps
  <2> QED BY <2>5, <2>6, <2>7, <2>8 DEF ResetTypes
<1> QED BY <1>1, <1>2

(* Where a call begins that may spend.                                     *)
LEMMA CallSpends ==
  ASSUME SpendInv, NEW c, NEW steps, Calls(c, steps), SpendShape(steps),
         runToken < CtlTokens \/ \A a \in Spending : ~Left(steps, a)
  PROVE  SpendInv'
<1>1. todo' = steps /\ runToken' = runToken /\ filledAt' = filledAt
  BY DEF Calls
<1>2. CtlTokens \in Nat /\ runToken \in 0..(CtlTokens + 1) /\ filledAt \in -1..runToken
  BY CtlAssumption DEF SpendInv
<1> QED BY <1>1, <1>2 DEF SpendInv, Spending

(* Those that may begin at any token spend nothing.                        *)
LEMMA NewCallSpends == ASSUME SpendInv, NewCall PROVE SpendInv'
<1>1. CASE Connect
  <2>1. PICK mode \in {"attach", "halt", "pre-reset", "under-reset"} :
          Calls([op |-> "connect", mode |-> mode], ConnectSteps(mode))
    BY <1>1 DEF Connect
  <2> DEFINE c == [op |-> "connect", mode |-> mode]
  <2>2. c.op = "connect" /\ c.mode = mode
    OBVIOUS
  <2> HIDE DEF c
  <2>3. Within(ConnectSteps(mode), StepsOf(c)) /\ ConnectSteps(mode) \in Seq(CtlSteps)
    BY <2>2, ConnectShaped, ConnectTyped DEF Shaped
  <2>4. \A a \in Spending : a \notin StepsOf(c)
    BY <2>2 DEF StepsOf, Spending, Attaching, Holding
  <2> QED BY <2>1, <2>3, <2>4, NothingSpent, CallSpends DEF c
<1>2. CASE HaltCall
  <2>1. SpendShape(<<"halt">>) /\ \A a \in Spending : ~Left(<<"halt">>, a)
    BY DEF SpendShape, NotAfter, Left, Spending
  <2> QED BY <1>2, <2>1, CallSpends DEF HaltCall
<1>3. CASE ResumeCall
  <2>1. SpendShape(<<"state", "resume">>)
    BY DEF SpendShape, NotAfter, Spending
  <2> QED BY <1>3, <2>1, CallSpends DEF ResumeCall, CallAllowed
<1>4. CASE StepCall
  <2>1. SpendShape(<<"check">>)
    BY DEF SpendShape, NotAfter, Spending
  <2> QED BY <1>4, <2>1, CallSpends DEF StepCall, CallAllowed
<1>5. CASE ResetCall \/ ResetAndHaltCall
  <2>1. \A type \in ResetTypes : ActualType(type) \in ResetTypes
    BY DEF ActualType, ResetTypes
  <2> QED BY <1>5, <2>1, ResetSpends, CallSpends DEF ResetCall, ResetAndHaltCall, CallAllowed
<1>6. CASE SetVectorCatch \/ GetVectorCatch
  <2>1. SpendShape(<<"writeCatch">>) /\ SpendShape(<<"adopt">>)
    BY DEF SpendShape, NotAfter, Spending
  <2> QED BY <1>6, <2>1, CallSpends DEF SetVectorCatch, GetVectorCatch, CallAllowed
<1>7. CASE FillCache
  <2>1. todo' = todo /\ runToken' = runToken /\ filledAt' = runToken
    BY <1>7 DEF FillCache, ctlCalls
  <2>2. runToken \in 0..(CtlTokens + 1) /\ CtlTokens \in Nat
    BY CtlAssumption DEF SpendInv
  <2> QED BY <2>1, <2>2 DEF SpendInv
<1> QED BY <1>1, <1>2, <1>3, <1>4, <1>5, <1>6, <1>7 DEF NewCall

(* Writes of DHCSR keep its bits bits.                                     *)
LEMMA WriteKeepsFlags ==
  ASSUME Flags, NEW halt \in BOOLEAN, NEW step \in BOOLEAN, NEW mask \in BOOLEAN,
         WriteDhcsr(halt, step, mask)
  PROVE  Flags'
  BY DEF WriteDhcsr, Flags

(* Reads of it only change the sticky ones.                                *)
LEMMA ReadKeepsFlags == ASSUME Flags, ReadDhcsr PROVE Flags'
  BY DEF ReadDhcsr, Flags

LEMMA SameKeepsFlags == ASSUME Flags, UNCHANGED ctlCore PROVE Flags'
  BY DEF ctlCore, Flags

LEMMA ResetKeepsFlags ==
  ASSUME Flags, ResetBegins, pin' \in BOOLEAN, UNCHANGED <<v7m, maskInts, vcReset>>
  PROVE  Flags'
  BY DEF ResetBegins, Flags

(* Registers of the core, whatever moves it.                               *)
LEMMA FlagsKept ==
  ASSUME StopInv, Flags, Notes, CtlNext
  PROVE  Flags'
<1>1. CASE CoreMoves
  BY <1>1 DEF CoreMoves, CoreExecutes, LeavesReset, Flags
<1>2. CASE NewCall
  BY <1>2, SameKeepsFlags, ReadKeepsFlags
  DEF NewCall, Connect, HaltCall, ResumeCall, StepCall, ResetCall, ResetAndHaltCall,
      SetVectorCatch, GetVectorCatch, Calls, FillCache
<1>3. CASE AccessFails
  BY <1>3, SameKeepsFlags DEF AccessFails
<1>4. CASE StateSteps
  BY <1>4, SameKeepsFlags, ReadKeepsFlags, WriteKeepsFlags
  DEF StateSteps, ReadState, ReadAgain, DecideResume, HaltCore, NextToken, RunCore
<1>5. CASE ResetCalls
  <2>1. CASE PulseReset
    <3>1. pin' \in BOOLEAN
      BY <2>1 DEF PulseReset
    <3> QED BY <2>1, <3>1, ResetKeepsFlags DEF PulseReset
  <2>2. CASE WriteAircr
    <3>1. CASE ResetBegins
      BY <2>2, <3>1, ResetKeepsFlags DEF WriteAircr, Flags
    <3>2. CASE ~ResetBegins
      BY <2>2, <3>2 DEF WriteAircr, Flags
    <3> QED BY <3>1, <3>2
  <2>3. CASE AircrLost \/ RecoverCore \/ ResumeUnlessCaught \/ AwaitHalt
    BY <2>3, SameKeepsFlags, ReadKeepsFlags
    DEF AircrLost, RecoverCore, ResumeUnlessCaught, AwaitHalt
  <2>4. CASE EmulateReset
    BY <2>4 DEF EmulateReset, Flags
  <2> QED BY <1>5, <2>1, <2>2, <2>3, <2>4 DEF ResetCalls
<1>6. CASE ConnectingSteps
  <2>1. CASE ReadControls
    BY <2>1, ReadKeepsFlags DEF ReadControls
  <2>2. CASE EnableDebug
    <3>1. (seen = "halted") \in BOOLEAN /\ cStep \in BOOLEAN /\ maskInts \in BOOLEAN
      BY DEF Flags
    <3> QED BY <2>2, <3>1, WriteKeepsFlags DEF EnableDebug
  <2>3. CASE AssertReset
    BY <2>3, ResetKeepsFlags DEF AssertReset
  <2>4. CASE ReleaseReset
    BY <2>4 DEF ReleaseReset, Flags
  <2> QED BY <1>6, <2>1, <2>2, <2>3, <2>4 DEF ConnectingSteps
<1>7. CASE CatchSteps
  <2>1. CASE SetCatch \/ ClearCatch
    BY <2>1 DEF SetCatch, ClearCatch, Flags, Notes, ctlCore
  <2>2. CASE AdoptCatch
    BY <2>2 DEF AdoptCatch, Flags, Notes, ctlCore
  <2>3. CASE WriteCatch
    BY <2>3 DEF WriteCatch, Flags, Notes, ctlCore
  <2> QED BY <1>7, <2>1, <2>2, <2>3 DEF CatchSteps
<1>8. CASE StepSteps
  <2>1. CASE CheckHalted \/ AwaitStep
    BY <2>1, SameKeepsFlags, ReadKeepsFlags DEF CheckHalted, AwaitStep
  <2>2. CASE MaskInterrupts \/ StepCore
    <3>1. call.op = "step"
      BY <2>2, RestFacts DEF MaskInterrupts, StepCore, At, StopInv, StepsOf, Stepping, Attaching,
                             Holding, Catching
    <3>2. call.mask \in BOOLEAN
      BY <3>1 DEF Notes
    <3> QED BY <2>2, <3>2, WriteKeepsFlags DEF MaskInterrupts, StepCore
  <2>3. CASE UnmaskInterrupts
    BY <2>3, WriteKeepsFlags DEF UnmaskInterrupts, Notes
  <2> QED BY <1>8, <2>1, <2>2, <2>3 DEF StepSteps
<1> QED BY <1>1, <1>2, <1>3, <1>4, <1>5, <1>6, <1>7, <1>8 DEF CtlNext

(* An access that goes on notes nothing; one that raises says so.          *)
LEMMA ContinueNotes ==
  ASSUME Notes, NEW steps, Continue(steps) \/ Raises
  PROVE  outcome' \in Outcomes /\ unsure' \in BOOLEAN /\ ctlFaults' \in 0..CtlFaults
<1>1. CASE Raises
  <2>1. outcome' \in Outcomes
    BY <1>1 DEF Raises, Outcomes
  <2>2. unsure' \in BOOLEAN
    BY <1>1 DEF Raises, Notes
  <2>3. ctlFaults' \in 0..CtlFaults
    BY <1>1, CtlAssumption DEF Raises, Notes
  <2> QED BY <2>1, <2>2, <2>3
<1>2. CASE ~Raises
  BY <1>2 DEF Continue, Notes
<1> QED BY <1>1, <1>2

(* What the call is and remembers stays as it is.                          *)
LEMMA NotesRest ==
  ASSUME Notes, UnchangedCall, didReset' \in BOOLEAN, ranSince' \in BOOLEAN,
         outcome' \in Outcomes, unsure' \in BOOLEAN, ctlFaults' \in 0..CtlFaults
  PROVE  Notes'
  BY DEF Notes, UnchangedCall

(* The same where nothing is noted of the core either.                     *)
LEMMA AccessNotes ==
  ASSUME Notes, UnchangedCall, UnchangedNotes, NEW steps, Continue(steps) \/ Raises
  PROVE  Notes'
<1>1. didReset' \in BOOLEAN /\ ranSince' \in BOOLEAN
  BY DEF UnchangedNotes, Notes
<1> QED BY <1>1, ContinueNotes, NotesRest

(* And where the call ends, or goes on without an access.                  *)
LEMMA EndNotes ==
  ASSUME Notes, UnchangedCall, UnchangedNotes, NEW steps, NEW how \in Outcomes, Ends(steps, how)
  PROVE  Notes'
<1>1. didReset' \in BOOLEAN /\ ranSince' \in BOOLEAN
  BY DEF UnchangedNotes, Notes
<1>2. outcome' \in Outcomes /\ unsure' \in BOOLEAN /\ ctlFaults' \in 0..CtlFaults
  BY DEF Ends, Notes
<1> QED BY <1>1, <1>2, NotesRest

(* What the steps of a call note.                                          *)
LEMMA StepNotes ==
  ASSUME StopInv, Notes, Flags, CallStep
  PROVE  Notes'
<1>1. CASE AccessFails
  <2>1. Continue(<<>>) \/ Raises
    BY <1>1 DEF AccessFails
  <2> QED BY <1>1, <2>1, AccessNotes DEF AccessFails
<1>2. CASE StateSteps
  <2>1. CASE DecideResume
    BY <2>1 DEF DecideResume, UnchangedCall, ctlNotes, Notes
  <2>2. CASE NextToken
    BY <2>2 DEF NextToken, ctlNotes, Notes
  <2>3. CASE ReadState \/ ReadAgain \/ HaltCore \/ RunCore
    BY <2>3, AccessNotes DEF ReadState, ReadAgain, HaltCore, RunCore
  <2> QED BY <1>2, <2>1, <2>2, <2>3 DEF StateSteps
<1>3. CASE ResetCalls
  <2>1. CASE PulseReset
    BY <2>1, ContinueNotes, NotesRest DEF PulseReset, ResetBegins
  <2>2. CASE WriteAircr
    <3>1. didReset' \in BOOLEAN /\ ranSince' \in BOOLEAN
      BY <2>2 DEF WriteAircr, ResetBegins, Notes
    <3> QED BY <2>2, <3>1, ContinueNotes, NotesRest DEF WriteAircr
  <2>3. CASE AircrLost
    <3>1. ctlFaults' \in 0..CtlFaults
      BY <2>3, CtlAssumption DEF AircrLost, Notes
    <3> QED BY <2>3, <3>1 DEF AircrLost, UnchangedCall, UnchangedNotes, Notes
  <2>4. CASE RecoverCore
    BY <2>4 DEF RecoverCore, UnchangedCall, ctlNotes, Notes
  <2>5. CASE EmulateReset
    <3>1. didReset' \in BOOLEAN /\ ranSince' \in BOOLEAN
      BY <2>5 DEF EmulateReset, Notes
    <3> QED BY <2>5, <3>1, ContinueNotes, NotesRest DEF EmulateReset
  <2>6. CASE ResumeUnlessCaught
    BY <2>6, AccessNotes DEF ResumeUnlessCaught
  <2>7. CASE AwaitHalt
    <3>1. outcome \in Outcomes /\ "timeout" \in Outcomes
      BY DEF Notes, Outcomes
    <3> QED BY <2>7, <3>1, EndNotes DEF AwaitHalt
  <2> QED BY <1>3, <2>1, <2>2, <2>3, <2>4, <2>5, <2>6, <2>7 DEF ResetCalls
<1>4. CASE ConnectingSteps
  <2>1. CASE AssertReset
    BY <2>1, ContinueNotes, NotesRest DEF AssertReset, ResetBegins
  <2>2. CASE ReadControls \/ EnableDebug \/ ReleaseReset
    BY <2>2, AccessNotes DEF ReadControls, EnableDebug, ReleaseReset
  <2> QED BY <1>4, <2>1, <2>2 DEF ConnectingSteps
<1>5. CASE CatchSteps
  <2>1. CASE SetCatch
    BY <2>1, AccessNotes DEF SetCatch
  <2>2. CASE ClearCatch
    <3>1. "uncaught" \in Outcomes
      BY DEF Outcomes
    <3> QED BY <2>2, <3>1, AccessNotes, EndNotes DEF ClearCatch
  <2>3. CASE AdoptCatch
    BY <2>3 DEF AdoptCatch, UnchangedNotes, Notes, Flags
  <2>4. CASE WriteCatch
    <3>1. CASE Raises
      BY <2>4, <3>1, AccessNotes DEF WriteCatch
    <3>2. CASE ~Raises
      BY <2>4, <3>2 DEF WriteCatch, UnchangedCall, UnchangedNotes, Notes
    <3> QED BY <3>1, <3>2
  <2> QED BY <1>5, <2>1, <2>2, <2>3, <2>4 DEF CatchSteps
<1>6. CASE StepSteps
  <2>1. CASE CheckHalted
    <3>1. outcome' \in Outcomes /\ unsure' \in BOOLEAN /\ ctlFaults' \in 0..CtlFaults
      <4>1. CASE ~cHalt
        BY <2>1, <4>1 DEF CheckHalted, Ends, Notes, Outcomes
      <4>2. CASE cHalt
        BY <2>1, <4>2, ContinueNotes DEF CheckHalted
      <4> QED BY <4>1, <4>2
    <3> QED BY <2>1, <3>1 DEF CheckHalted, UnchangedNotes, Notes, Flags
  <2>2. CASE AwaitStep
    <3>1. "early" \in Outcomes
      BY DEF Outcomes
    <3> QED BY <2>2, <3>1, AccessNotes, EndNotes DEF AwaitStep
  <2>3. CASE MaskInterrupts \/ StepCore \/ UnmaskInterrupts
    BY <2>3, AccessNotes DEF MaskInterrupts, StepCore, UnmaskInterrupts
  <2> QED BY <1>6, <2>1, <2>2, <2>3 DEF StepSteps
<1> QED BY <1>1, <1>2, <1>3, <1>4, <1>5, <1>6 DEF CallStep

(* What a new call notes, and the core by itself.                          *)
LEMMA CallNotes ==
  ASSUME Notes, NEW c, NEW steps, Calls(c, steps), lastCatch' \in BOOLEAN,
         c.op = "step" => c.mask \in BOOLEAN
  PROVE  Notes'
  BY DEF Calls, Notes, Outcomes

LEMMA NewCallNotes == ASSUME Notes, Flags, NewCall PROVE Notes'
<1>1. lastCatch \in BOOLEAN
  BY DEF Notes
<1>2. CASE Connect
  BY <1>1, <1>2, CallNotes DEF Connect
<1>3. CASE HaltCall
  BY <1>1, <1>3, CallNotes DEF HaltCall
<1>4. CASE ResumeCall
  BY <1>1, <1>4, CallNotes DEF ResumeCall
<1>5. CASE StepCall
  BY <1>1, <1>5, CallNotes DEF StepCall
<1>6. CASE ResetCall
  BY <1>1, <1>6, CallNotes DEF ResetCall
<1>7. CASE ResetAndHaltCall
  BY <1>1, <1>7, CallNotes DEF ResetAndHaltCall
<1>8. CASE SetVectorCatch
  BY <1>8, CallNotes DEF SetVectorCatch
<1>9. CASE GetVectorCatch
  BY <1>1, <1>9, CallNotes DEF GetVectorCatch
<1>10. CASE FillCache
  BY <1>10 DEF FillCache, ctlCalls, Notes
<1> QED BY <1>2, <1>3, <1>4, <1>5, <1>6, <1>7, <1>8, <1>9, <1>10 DEF NewCall

(* The invariant of the types is inductive.                                *)
LEMMA TypeInvKept == TypeInv /\ [CtlNext]_ctlVars => TypeInv'
<1> SUFFICES ASSUME TypeInv, [CtlNext]_ctlVars PROVE TypeInv'
  OBVIOUS
<1>1. StopInv'
  BY StopInvKept DEF TypeInv
<1>2. CASE UNCHANGED ctlVars
  BY <1>1, <1>2 DEF ctlVars, ctlCore, ctlCalls, ctlNotes, TypeInv, SpendInv, Flags, Notes
<1>3. CASE CtlNext
  <2>1. Flags'
    BY <1>3, FlagsKept DEF TypeInv
  <2>2. CASE CallStep
    BY <1>1, <2>1, <2>2, SpendKept, StepNotes DEF TypeInv
  <2>3. CASE CoreMoves
    <3>1. /\ UNCHANGED ctlCalls /\ didReset' = didReset /\ unsure' = unsure
          /\ filledAt' = filledAt /\ ctlFaults' = ctlFaults /\ ranSince' \in BOOLEAN
      BY <2>3 DEF CoreMoves, CoreExecutes, LeavesReset, ctlNotes, TypeInv, Notes
    <3>2. SpendInv' /\ Notes'
      BY <3>1 DEF ctlCalls, TypeInv, SpendInv, Notes
    <3> QED BY <1>1, <2>1, <3>2 DEF TypeInv
  <2>4. CASE NewCall
    BY <1>1, <2>1, <2>4, NewCallSpends, NewCallNotes DEF TypeInv
  <2> QED BY <1>3, <2>2, <2>3, <2>4 DEF CtlNext, CallStep
<1> QED BY <1>2, <1>3

(* Every variable keeps its type, for any number of calls and of accesses  *)
(* that fail: what is left of a call are steps of CortexM's methods, and a *)
(* call changes the run token at most twice.                               *)
THEOREM CtlTypeCorrect == CtlSpec => []CtlTypeOK
<1>1. CtlInit => TypeInv
  <2> SUFFICES ASSUME CtlInit PROVE TypeInv
    OBVIOUS
  <2>1. SpendInv
    <3>1. todo = <<>> /\ runToken = 0 /\ filledAt = -1
      BY DEF CtlInit
    <3>2. runToken \in 0..(CtlTokens + 1) /\ filledAt \in -1..runToken
      BY <3>1, CtlAssumption
    <3> QED BY <3>1, <3>2, SpendEmpty, LeftEmpty DEF SpendInv, Spending
  <2>2. Flags
    BY DEF CtlInit, Flags
  <2>3. call.op # "step"
    BY DEF CtlInit, NoCall
  <2>4. ctlFaults \in 0..CtlFaults
    BY CtlAssumption DEF CtlInit
  <2>5. Notes
    BY <2>3, <2>4 DEF CtlInit, Notes, Outcomes
  <2> QED BY <2>1, <2>2, <2>5, StopInvHolds DEF TypeInv
<1>2. TypeInv => CtlTypeOK
  <2> SUFFICES ASSUME TypeInv PROVE CtlTypeOK
    OBVIOUS
  <2>1. \A b \in {v7m, inReset, pin, cHalt, cStep, maskInts, vcReset, resetSt, retireSt, fresh,
                  connected, saved, lastCatch, didReset, unsure, ranSince} : b \in BOOLEAN
    BY Zenon DEF TypeInv, Flags, Notes
  <2>2. todo \in Seq(CtlSteps) /\ seen \in States
    BY DEF TypeInv, StopInv, ShapeInv, CallTypes
  <2>3. runToken \in 0..(CtlTokens + 1) /\ filledAt \in -1..runToken
    BY CtlAssumption DEF TypeInv, SpendInv
  <2> QED BY <2>1, <2>2, <2>3 DEF CtlTypeOK, TypeInv, Notes
<1> QED BY <1>1, <1>2, TypeInvKept, PTL DEF CtlSpec
=============================================================================
