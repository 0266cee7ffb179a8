------------------------------ MODULE DebugPort ------------------------------
(***************************************************************************)
(* Register accesses through one DebugPort.  A DP or AP register is named  *)
(* by its address and by a field of the DP's SELECT register, the bank of  *)
(* DP registers or the AP and its bank.  The DebugPort remembers what it   *)
(* last wrote to SELECT and writes it only when a field must change;       *)
(* threads are kept apart by the probe's recursive lock, held from the     *)
(* choice of the bank until the access is done.                            *)
(*                                                                         *)
(* The probe puts every request in a queue that the target executes in     *)
(* order.  With deferred transfers a call returns when its request is      *)
(* queued, and an error surfaces in whichever call notices it; without,    *)
(* a call returns when the queue is empty.  Only one thread at a time is   *)
(* inside a call of the probe.                                             *)
(***************************************************************************)
EXTENDS Integers, Sequences, FiniteSets

CONSTANTS Thread,    \* threads that share the probe
          NoThread,  \* nobody holds the lock
          Bank,      \* values of a field of SELECT
          Base,      \* of each field, the value 0 a cold cache starts from
          Unknown,   \* the cached SELECT is not valid
          Access,    \* the register accesses of this instance
          Programs,  \* what an operation does: accesses, one after the other
          Modes,     \* sessions, see ModeType
          MaxCalls   \* bound: operations begun

Field == {"ap", "dp"}
Kind  == {"fault", "timeout", "protocol", "probe"}

(* deferred: the option cmsis_dap.deferred_transfers.  kinds: the errors   *)
(* that happen.  alone: threads take turns, one call after the other.      *)
ModeType == [deferred : BOOLEAN, kinds : SUBSET Kind, alone : BOOLEAN]

(* Of an access, field: the part of SELECT that must name the register's   *)
(* bank, "none" for the DP registers that ignore it.  wait: a read whose   *)
(* callback is called at once ("now") or by the caller ("later").          *)
(* beyond: the access goes on to the bus behind the AP and may fault there.*)
ASSUME DebugPortAssumption ==
  /\ NoThread \notin Thread
  /\ Base \in [Field -> Bank]
  /\ Unknown \notin [Field -> Bank]
  /\ \A a \in Access : /\ a.field \in Field \cup {"none"}
                       /\ a.field \in Field => a.bank \in Bank
                       /\ a.wait \in {"write", "now", "later"}
                       /\ a.beyond \in BOOLEAN
  /\ Programs \subseteq Seq(Access) \ {<<>>}
  /\ \A p \in Programs : Len(p) = 1 \/ \A i \in DOMAIN p : p[i].field = "ap"
  /\ Modes \subseteq ModeType
  /\ MaxCalls \in Nat

VARIABLES mode,     \* the session
          cached,   \* _cached_dp_select
          select,   \* the target's SELECT register
          queue,    \* requests the target has still to execute
          error,    \* an error nobody has noticed yet, or "none"
          owner,    \* the thread that holds the probe's lock, or NoThread
          depth,    \* how often it holds it
          lost,     \* levels of the lock nobody will give back
          pc,       \* where each thread is
          program,  \* the accesses each thread still has to do, first first
          choice,   \* the SELECT value each thread is writing
          pending,  \* reads of each thread whose callback is still to be called
          calls     \* operations begun (bound)

lockVars   == <<owner, depth, lost>>
threadVars == <<pc, program, choice, pending, calls>>
vars == <<mode, cached, select, queue, error, owner, depth, lost,
          pc, program, choice, pending, calls>>

SelectType == [Field -> Bank]
Places     == {"idle", "select", "selecting", "selected", "access", "accessing",
               "collecting", "flushing", "resetting"}

Request == [kind : {"select"}, value : SelectType] \cup [kind : {"access"}, value : Access]

SelectRequest(value)  == [kind |-> "select", value |-> value]
AccessRequest(access) == [kind |-> "access", value |-> access]

Init == /\ mode \in Modes
        /\ cached = Unknown
        /\ select \in SelectType
        /\ queue = <<>>
        /\ error = "none"
        /\ owner = NoThread /\ depth = 0 /\ lost = 0
        /\ pc = [t \in Thread |-> "idle"]
        /\ program = [t \in Thread |-> <<>>]
        /\ choice = [t \in Thread |-> Unknown]
        /\ pending = [t \in Thread |-> <<>>]
        /\ calls = 0

-----------------------------------------------------------------------------
(* The lock: probe.lock() and probe.unlock().                              *)

Free(t) == owner \in {NoThread, t}

Lock(t) == /\ Free(t)
           /\ owner' = t /\ depth' = depth + 1
           /\ UNCHANGED lost

Unlock(levels, forgotten) ==
  /\ depth' = depth - levels
  /\ owner' = IF depth' = 0 THEN NoThread ELSE owner
  /\ lost' = lost + forgotten

(* Inside a call of the probe the link's own lock is held.                 *)
Calling  == {"selecting", "accessing", "collecting", "flushing"}
LinkFree == \A t \in Thread : pc[t] \notin Calling

(* Whether thread t may make a call now.                                   *)
Turn(t) ==
  mode.alone => \A u \in Thread \ {t} : pc[u] = "idle" /\ pending[u] = <<>>

(* All that was asked of the target is done, without error.                *)
Quiet == queue = <<>> /\ error = "none"

(* AccessPort.read_reg() and write_reg() are locked, so are the methods    *)
(* of MEM_AP; the DP's own registers are accessed without that lock.       *)
Outer(access) == IF access.field = "ap" THEN 1 ELSE 0
Inner(access) == IF access.field \in Field THEN 1 ELSE 0

At(t, place) == pc' = [pc EXCEPT ![t] = place]

-----------------------------------------------------------------------------
(* The target executes the requests in order; after an error it executes   *)
(* none until the error is cleared.                                        *)
Deliver ==
  /\ queue # <<>> /\ error = "none"
  /\ queue' = Tail(queue)
  /\ select' = IF Head(queue).kind = "select" THEN Head(queue).value ELSE select
  /\ UNCHANGED <<mode, cached, error, lockVars, threadVars>>

(* A bus error or a WAIT that does not end concerns an access that leaves  *)
(* the AP, a protocol error and a failure of the probe any request.        *)
CanFail(request, kind) ==
  kind \in {"protocol", "probe"} \/ (request.kind = "access" /\ request.value.beyond)

(* When the probe fails the request may have been executed all the same.   *)
Fail(kind) ==
  /\ queue # <<>> /\ error = "none"
  /\ kind \in mode.kinds
  /\ CanFail(Head(queue), kind)
  /\ error' = kind
  /\ \/ UNCHANGED select
     \/ kind = "probe" /\ Head(queue).kind = "select" /\ select' = Head(queue).value
  /\ UNCHANGED <<mode, cached, queue, lockVars, threadVars>>

-----------------------------------------------------------------------------
(* An access                                                               *)

Begin(t, accesses) ==
  /\ pc[t] = "idle" /\ calls < MaxCalls /\ Turn(t)
  /\ IF Outer(Head(accesses)) = 1 THEN Lock(t) ELSE UNCHANGED lockVars
  /\ calls' = calls + 1
  /\ program' = [program EXCEPT ![t] = accesses]
  /\ At(t, "select")
  /\ UNCHANGED <<mode, cached, select, queue, error, choice, pending>>

(* _write_dp_select(): the value SELECT must have.                         *)
Chosen(access) ==
  IF cached = Unknown THEN [Base EXCEPT ![access.field] = access.bank]
                      ELSE [cached EXCEPT ![access.field] = access.bank]

(* _select_ap(), _set_dpbanksel(): lock, then write SELECT if it changes.  *)
SelectBank(t) ==
  LET access == Head(program[t])
  IN /\ pc[t] = "select" /\ access.field \in Field
     /\ Lock(t)
     /\ IF Chosen(access) = cached
          THEN At(t, "access") /\ UNCHANGED <<queue, choice>>
          ELSE /\ LinkFree
               /\ queue' = Append(queue, SelectRequest(Chosen(access)))
               /\ choice' = [choice EXCEPT ![t] = Chosen(access)]
               /\ At(t, "selecting")
     /\ UNCHANGED <<mode, cached, select, error, program, pending, calls>>

SelectNothing(t) ==
  /\ pc[t] = "select" /\ Head(program[t]).field = "none"
  /\ At(t, "access")
  /\ UNCHANGED <<mode, cached, select, queue, error, lockVars, program, choice,
                 pending, calls>>

(* The write of SELECT returns, ...                                        *)
SelectReturns(t) ==
  /\ pc[t] = "selecting"
  /\ mode.deferred \/ Quiet
  /\ At(t, "selected")
  /\ UNCHANGED <<mode, cached, select, queue, error, lockVars, program, choice,
                 pending, calls>>

(* ... and its value is remembered.                                        *)
Remember(t) ==
  /\ pc[t] = "selected"
  /\ cached' = choice[t]
  /\ choice' = [choice EXCEPT ![t] = Unknown]
  /\ At(t, "access")
  /\ UNCHANGED <<mode, select, queue, error, lockVars, program, pending, calls>>

(* The access is given to the probe ...                                    *)
Issue(t) ==
  /\ pc[t] = "access" /\ LinkFree
  /\ queue' = Append(queue, AccessRequest(Head(program[t])))
  /\ At(t, "accessing")
  /\ UNCHANGED <<mode, cached, select, error, lockVars, program, choice, pending,
                 calls>>

(* Mutant: the lock is not given back after a write.                       *)
Levels_KeepsWrites(access, isLast) ==
  (IF access.wait = "now" THEN Inner(access) ELSE 0)
  + (IF isLast THEN Outer(access) ELSE 0)

(* The levels of the lock an access gives back: a deferred read keeps its  *)
(* own until its callback has run.                                         *)
Levels(access, isLast) ==
  (IF access.wait = "later" THEN 0 ELSE Inner(access))
  + (IF isLast THEN Outer(access) ELSE 0)

(* ... whose call returns; a read that is not deferred waits for its word. *)
Return(t) ==
  LET access == Head(program[t])
      isLast == Len(program[t]) = 1
  IN /\ pc[t] = "accessing"
     /\ (mode.deferred /\ access.wait # "now") \/ Quiet
     /\ Unlock(Levels(access, isLast), 0)
     /\ program' = [program EXCEPT ![t] = Tail(@)]
     /\ pending' = IF access.wait = "later" /\ access.field \in Field
                     THEN [pending EXCEPT ![t] = Append(@, access)] ELSE pending
     /\ At(t, IF isLast THEN "idle" ELSE "select")
     /\ UNCHANGED <<mode, cached, select, queue, error, choice, calls>>

(* The callback of a deferred read: read_ap_cb(), read_dp_cb().            *)
Collect(t) ==
  /\ pc[t] = "idle" /\ pending[t] # <<>> /\ LinkFree /\ Turn(t)
  /\ At(t, "collecting")
  /\ UNCHANGED <<mode, cached, select, queue, error, lockVars, program, choice,
                 pending, calls>>

Collected(t) ==
  /\ pc[t] = "collecting" /\ Quiet
  /\ Unlock(1, 0)
  /\ pending' = [pending EXCEPT ![t] = Tail(@)]
  /\ At(t, "idle")
  /\ UNCHANGED <<mode, cached, select, queue, error, program, choice, calls>>

(* DebugPort.flush() takes no lock.                                        *)
Flush(t) ==
  /\ pc[t] = "idle" /\ calls < MaxCalls
  /\ LinkFree /\ Turn(t)
  /\ calls' = calls + 1
  /\ At(t, "flushing")
  /\ UNCHANGED <<mode, cached, select, queue, error, lockVars, program, choice,
                 pending>>

Flushed(t) ==
  /\ pc[t] = "flushing" /\ Quiet
  /\ At(t, "idle")
  /\ UNCHANGED <<mode, cached, select, queue, error, lockVars, program, choice,
                 pending, calls>>

-----------------------------------------------------------------------------
(* Errors                                                                  *)

(* Mutant: clear_sticky_err() leaves the cached SELECT.                    *)
AfterError_Keeps(kind) == IF kind = "protocol" THEN Unknown ELSE cached

(* _handle_error(): the sticky flags are cleared or the wire is reset, and *)
(* both forget the cached SELECT; DAPABORT does not, and an error that is  *)
(* no TargetError, the probe's own, is not handled at all.                 *)
AfterError(kind) == IF kind \in {"fault", "protocol"} THEN Unknown ELSE cached

(* A call of the probe raises the error: what was queued is dropped.  If   *)
(* it was the write of SELECT, did_lock is not set yet and the level of    *)
(* the lock just taken is never given back.                                *)
Raise(t) ==
  /\ pc[t] \in Calling /\ error # "none"
  /\ queue' = <<>> /\ error' = "none"
  /\ cached' = AfterError(error)
  /\ CASE pc[t] = "selecting"  -> Unlock(Outer(Head(program[t])), 1)
       [] pc[t] = "accessing"  -> Unlock(Outer(Head(program[t])) + Inner(Head(program[t])), 0)
       [] pc[t] = "collecting" -> Unlock(1, 0)
       [] pc[t] = "flushing"   -> UNCHANGED lockVars
  /\ pending' = IF pc[t] = "collecting" THEN [pending EXCEPT ![t] = Tail(@)] ELSE pending
  /\ program' = [program EXCEPT ![t] = <<>>]
  /\ choice' = [choice EXCEPT ![t] = Unknown]
  /\ At(t, "idle")
  /\ UNCHANGED <<mode, select, calls>>

-----------------------------------------------------------------------------
(* A reset of the target is announced before and after, and each time the  *)
(* cached SELECT is forgotten.  Between the reset itself and the second    *)
(* notification no other thread selects a bank.                            *)
Reset(t) ==
  /\ pc[t] = "idle" /\ calls < MaxCalls /\ Turn(t)
  /\ calls' = calls + 1
  /\ cached' = Unknown
  /\ At(t, "resetting")
  /\ UNCHANGED <<mode, select, queue, error, lockVars, program, choice, pending>>

(* The reset may clear SELECT.  An error of an earlier request that shows  *)
(* while the target recovers is ignored, but for a level of the lock if it *)
(* does in the write of SELECT; one of the probe ends the call without the *)
(* second notification.                                                    *)
ResetDone(t) ==
  /\ pc[t] = "resetting" /\ Free(t) /\ LinkFree
  /\ queue = <<>> \/ error # "none"
  /\ queue' = <<>> /\ error' = "none"
  /\ select' \in {select, Base}
  /\ cached' \in (IF error = "probe" THEN {cached, Base, Unknown} ELSE {Unknown})
  /\ \/ UNCHANGED lockVars
     \/ error # "none" /\ owner' = t /\ depth' = depth + 1 /\ lost' = lost + 1
  /\ At(t, "idle")
  /\ UNCHANGED <<mode, program, choice, pending, calls>>

-----------------------------------------------------------------------------
(* What a thread does on its own once it has begun.                        *)
Continue(t) == \/ SelectBank(t) \/ SelectNothing(t) \/ SelectReturns(t) \/ Remember(t)
               \/ Issue(t) \/ Return(t) \/ Raise(t)
               \/ Collect(t) \/ Collected(t) \/ Flushed(t) \/ ResetDone(t)

Call(t) == Flush(t) \/ Reset(t) \/ \E accesses \in Programs : Begin(t, accesses)

Target == Deliver \/ \E kind \in Kind : Fail(kind)

Next == Target \/ \E t \in Thread : Continue(t) \/ Call(t)

Spec == Init /\ [][Next]_vars

(* The threads' own steps are taken, callers collect what they asked for,  *)
(* and the target executes what it was sent.                               *)
FairSpec == /\ Spec /\ WF_vars(Deliver)
            /\ \A t \in Thread : WF_vars(Continue(t))

-----------------------------------------------------------------------------
(* Properties                                                              *)

(* The sessions in which RightBank holds: when errors can come late, no    *)
(* call of another thread comes in between and every error is one after    *)
(* which the cached SELECT is forgotten; and the probe itself does not     *)
(* fail, since the cached SELECT stays when its write fails that way.      *)
Sheltered ==
  /\ "probe" \notin mode.kinds
  /\ mode.deferred /\ mode.kinds # {} => mode.alone /\ "timeout" \notin mode.kinds

(* Every variable keeps its type.                                          *)
TypeOK ==
  /\ mode \in Modes
  /\ cached \in SelectType \cup {Unknown} /\ select \in SelectType
  /\ queue \in Seq(Request)
  /\ error \in Kind \cup {"none"}
  /\ owner \in Thread \cup {NoThread} /\ depth \in Nat /\ lost \in Nat
  /\ (owner = NoThread) <=> (depth = 0)
  /\ pc \in [Thread -> Places]
  /\ program \in [Thread -> Seq(Access)] /\ pending \in [Thread -> Seq(Access)]
  /\ choice \in [Thread -> SelectType \cup {Unknown}]
  /\ calls \in 0..MaxCalls

(* When the target executes an access SELECT names the bank the access was *)
(* meant for, whatever was selected, failed or reset in between.           *)
RightBank ==
  Sheltered /\ error = "none" /\ queue # <<>> /\ Head(queue).kind = "access" =>
    LET access == Head(queue).value
    IN access.field \in Field => select[access.field] = access.bank

(* Threads that have nothing to do hold no level of the lock, except those *)
(* lost when an error was raised while a bank was being selected; only an  *)
(* error of an earlier, deferred request, a protocol error or a failure of *)
(* the probe can do that.                                                  *)
LockBalanced ==
  /\ (\A t \in Thread : pc[t] = "idle" /\ pending[t] = <<>>) => depth = lost
  /\ ~mode.deferred /\ mode.kinds \cap {"protocol", "probe"} = {} => lost = 0

(* Every access, flush and reset returns, if no level of the lock is lost. *)
EveryCallReturns ==
  [](lost = 0) => \A t \in Thread : pc[t] # "idle" ~> pc[t] = "idle"
=============================================================================
