-------------------------- MODULE BreakpointManager --------------------------
(***************************************************************************)
(* The breakpoints of one Cortex-M core: BreakpointManager and its two     *)
(* providers, the FPB comparators and the software breakpoints in memory,  *)
(* with the core operations that drive them.                               *)
(*                                                                         *)
(* The manager keeps two dicts, "live" (_breakpoints) and "updated"        *)
(* (_updated_breakpoints).  Clients edit "updated" only; the PRE_RUN       *)
(* notification of resume() and step() flushes the difference to the       *)
(* providers, one provider call at a time.  A dict is the sequence of its  *)
(* [key, bp] entries in insertion order, because flush() walks it in that  *)
(* order.  A breakpoint object is a "new" one (UnrealizedBreakpoint), a    *)
(* comparator of the FPB, which is a shared mutable object and is named by *)
(* its index, or a software breakpoint with the instruction it replaced.     *)
(***************************************************************************)
EXTENDS Integers, Sequences, FiniteSets

CONSTANTS Addr,       \* instruction addresses, the Thumb bit already cleared
          Writable,   \* those in RAM regions; the others are in flash
          HighAddr,   \* those at or above 0x20000000
          FpbRev,     \* FPB architecture revision, 1 or 2
          NumComps,   \* nb_code, the number of code comparators
          Code,       \* instructions a program is made of
          BKPT,       \* BKPT_INSTR
          NoAddr,     \* the address of a comparator not used yet
          Ops,        \* the client operations of this instance
          Faulty,     \* the providers ("HW", "SW") whose accesses may fail
          MaxFaults   \* bound: memory accesses that raise TransferError

ASSUME BkptAssumption ==
  /\ BKPT \notin Code /\ Code # {}
  /\ NoAddr \notin Addr
  /\ Writable \subseteq Addr /\ HighAddr \subseteq Addr
  /\ Faulty \subseteq {"HW", "SW"}
  /\ FpbRev \in {1, 2} /\ NumComps \in Nat /\ MaxFaults \in Nat

VARIABLES live,     \* _breakpoints
          updated,  \* _updated_breakpoints
          comps,    \* hw_breakpoints: software state and the register's content
          used,     \* num_hw_breakpoint_used
          fpbOn,    \* FPB.enabled, the provider's belief
          hwOn,     \* FP_CTRL.ENABLE in the target
          sw,       \* SoftwareBreakpointProvider._breakpoints: original_instr
          mem,      \* the instructions in RAM
          image,    \* what the clients have written there (history)
          pc,       \* where the thread in the manager is
          removed,  \* live entries flush() or remove_all still has to remove
          added,    \* positions in updated flush() still has to add
          allowAll, \* allow_all_hw_bps
          core,     \* "halted", "running"
          faults,   \* accesses of each provider that have failed so far (history)
          astray,   \* where RAM and the software provider have parted (history)
          unitOff,  \* a reset the manager is not told of reached the FPB (history)
          aliased   \* a walk changed a comparator object still to come (history)

dicts  == <<live, updated>>
fpb    == <<comps, used, fpbOn, hwOn>>
ram    == <<sw, mem>>
work   == <<removed, added, allowAll>>
marks  == <<faults, astray, unitOff, aliased>>
vars   == <<live, updated, comps, used, fpbOn, hwOn, sw, mem, image, pc,
            removed, added, allowAll, core, faults, astray, unitOff, aliased>>

Comp == 0..(NumComps - 1)
Provider == {"HW", "SW"}
Type == {"AUTO", "HW", "SW"}

New(a, t) == [kind |-> "new", addr |-> a, type |-> t]
Hw(i)     == [kind |-> "hw", comp |-> i]
Sw(a, v)  == [kind |-> "sw", addr |-> a, orig |-> v]

Breakpoint == {New(a, t) : a \in Addr, t \in Type}
                \cup {Hw(i) : i \in Comp}
                \cup {Sw(a, v) : a \in Writable, v \in Code \cup {BKPT}}

BpAddr(bp) == IF bp.kind = "hw" THEN comps[bp.comp].addr ELSE bp.addr
BpType(bp) == CASE bp.kind = "hw" -> "HW"
                [] bp.kind = "sw" -> "SW"
                [] OTHER -> bp.type

-----------------------------------------------------------------------------
(* Dicts as sequences of entries.                                          *)

Keys(d)      == {d[i].key : i \in DOMAIN d}
Entries(d)   == {d[i] : i \in DOMAIN d}
Position(d, k) == CHOOSE i \in DOMAIN d : d[i].key = k
Lookup(d, k) == d[Position(d, k)].bp
Put(d, k, bp) ==
  IF k \in Keys(d) THEN [d EXCEPT ![Position(d, k)] = [key |-> k, bp |-> bp]]
                   ELSE Append(d, [key |-> k, bp |-> bp])
Del(d, k) ==
  IF k \notin Keys(d) THEN d
  ELSE [i \in 1..(Len(d) - 1) |-> d[IF i < Position(d, k) THEN i ELSE i + 1]]

-----------------------------------------------------------------------------
(* What the manager computes.                                              *)

(* _get_updated_breakpoints: the values of one dict whose address is not a *)
(* key of the other.  Additions keep the order of the dict; the order of   *)
(* removals makes no difference, but for what an access error cuts off.    *)
Added   == {i \in DOMAIN updated : BpAddr(updated[i].bp) \notin Keys(live)}
Removed == {e \in Entries(live) : BpAddr(e.bp) \notin Keys(updated)}

available == NumComps - used
InHwRange(a) == FpbRev = 2 \/ a \notin HighAddr

(* _select_breakpoint_type, for an address in RAM or elsewhere.  As        *)
(* MIN_HW_BREAKPOINTS is 0, allow_all_hw_bps adds nothing to have_hw_bp.   *)
SelectType(bp, allow) ==
  LET a      == BpAddr(bp)
      haveHw == available > 0 \/ (allow /\ available > 0)
  IN CASE a \notin Writable ->
            IF InHwRange(a) /\ haveHw THEN "HW" ELSE "none"
       [] a \in Writable /\ BpType(bp) = "AUTO" ->
            IF InHwRange(a) /\ haveHw THEN "HW" ELSE "SW"
       [] a \in Writable /\ BpType(bp) = "HW" ->
            IF InHwRange(a) THEN "HW" ELSE "SW"
       [] a \in Writable /\ BpType(bp) = "SW" -> "SW"

(* _check_added_breakpoint: would this breakpoint be added by a flush.     *)
CanAdd(bp) ==
  \/ SelectType(bp, FALSE) = "SW"
  \/ available + Cardinality({e \in Removed : BpType(e.bp) = "HW"})
       - Cardinality({i \in Added : SelectType(updated[i].bp, FALSE) = "HW"}) > 0

-----------------------------------------------------------------------------
Init ==
  /\ live = <<>> /\ updated = <<>>
  /\ comps = [i \in Comp |-> [on |-> FALSE, addr |-> NoAddr, reg |-> NoAddr]]
  /\ used = 0 /\ fpbOn = FALSE /\ hwOn = FALSE
  /\ sw = [a \in {} |-> BKPT]
  /\ image \in [Writable -> Code]
  /\ mem = image
  /\ pc = "idle" /\ removed = {} /\ added = {} /\ allowAll = FALSE
  /\ core \in {"halted", "running"}
  /\ faults = [p \in Provider |-> 0]
  /\ astray = {} /\ unitOff = FALSE /\ aliased = FALSE

(* BreakpointManager.set_breakpoint                                        *)
SetBreakpoint(a, t) ==
  /\ pc = "idle"
  /\ a \notin Keys(updated)
  /\ \/ /\ a \in Keys(live)
        /\ updated' = Append(updated, [key |-> a, bp |-> Lookup(live, a)])
     \/ /\ a \notin Keys(live)
        /\ CanAdd(New(a, t))
        /\ updated' = Append(updated, [key |-> a, bp |-> New(a, t)])
  /\ UNCHANGED <<live, fpb, ram, image, pc, work, core, marks>>

(* BreakpointManager.remove_breakpoint                                     *)
RemoveBreakpoint(a) ==
  /\ pc = "idle"
  /\ a \in Keys(updated)
  /\ updated' = Del(updated, a)
  /\ UNCHANGED <<live, fpb, ram, image, pc, work, core, marks>>

-----------------------------------------------------------------------------
(* flush(), entered from the PRE_RUN notification; pc says what the        *)
(* notifier goes on to do.                                                 *)

StartFlush(isStep) ==
  /\ removed' = Removed
  /\ added' = Added
  /\ allowAll' = (~isStep /\ Cardinality(Added) = 1)

Flushing == {"resume", "step", "other", "detach"}

(* CortexM.resume() and step() do nothing unless the core is halted.       *)
Resume ==
  /\ pc = "idle" /\ "resume" \in Ops /\ core = "halted"
  /\ StartFlush(FALSE)
  /\ pc' = "resume"
  /\ UNCHANGED <<dicts, fpb, ram, image, core, marks>>

Step ==
  /\ pc = "idle" /\ "step" \in Ops /\ core = "halted"
  /\ StartFlush(TRUE)
  /\ pc' = "step"
  /\ UNCHANGED <<dicts, fpb, ram, image, core, marks>>

(* The subscription to PRE_RUN names no source, so the manager flushes     *)
(* when any core of the session is about to run.                           *)
OtherCoreRuns(isStep) ==
  /\ pc = "idle" /\ "other" \in Ops
  /\ StartFlush(isStep)
  /\ pc' = "other"
  /\ UNCHANGED <<dicts, fpb, ram, image, core, marks>>

(* FPB.remove_breakpoint: the first enabled comparator with this address.  *)
Matching(a) == {i \in Comp : comps[i].on /\ comps[i].addr = a}
FirstOf(S)  == CHOOSE i \in S : \A j \in S : i <= j

(* Mutant: the count of used comparators is not decremented.               *)
HwRemove_KeepsCount(a) ==
  IF Matching(a) = {} THEN UNCHANGED fpb
  ELSE /\ comps' = [comps EXCEPT ![FirstOf(Matching(a))].on = FALSE,
                                 ![FirstOf(Matching(a))].reg = NoAddr]
       /\ UNCHANGED <<used, fpbOn, hwOn>>

HwRemove(a) ==
  IF Matching(a) = {} THEN UNCHANGED fpb
  ELSE LET i == FirstOf(Matching(a))
       IN /\ comps' = [comps EXCEPT ![i].on = FALSE, ![i].reg = NoAddr]
          /\ used' = used - 1
          /\ UNCHANGED <<fpbOn, hwOn>>

(* SoftwareBreakpointProvider.remove_breakpoint                            *)
SwRemove(bp) ==
  /\ mem' = [mem EXCEPT ![bp.addr] = bp.orig]
  /\ sw' = [b \in DOMAIN sw \ {bp.addr} |-> sw[b]]

ProviderRemove(bp) ==
  \/ bp.kind = "hw" /\ HwRemove(BpAddr(bp)) /\ UNCHANGED ram
  \/ bp.kind = "sw" /\ SwRemove(bp) /\ UNCHANGED fpb

(* The live dict has no entry for the address, so that flush() ends in a   *)
(* KeyError; or the software provider has none, and its removal does.      *)
NoEntry(bp) == pc \in Flushing /\ BpAddr(bp) \notin Keys(live)
Unknown(bp) == NoEntry(bp) \/ (bp.kind = "sw" /\ bp.addr \notin DOMAIN sw)

(* flush() deletes the live entry after each provider call,                *)
(* remove_all_breakpoints() empties the dict at its end.                   *)
Forget(bp) == live' = IF pc \in Flushing THEN Del(live, BpAddr(bp)) ELSE live

(* One iteration of the removal loops.                                     *)
RemoveOne(e) ==
  /\ e \in removed /\ ~Unknown(e.bp)
  /\ ProviderRemove(e.bp)
  /\ Forget(e.bp)
  /\ removed' = removed \ {e}
  /\ UNCHANGED <<updated, image, pc, added, allowAll, core, marks>>

(* An exception leaves the manager, and resume(), step() or disconnect()   *)
(* with the core as it was.                                                *)
Raise ==
  /\ pc' = IF pc \in {"disconnect", "detach"} THEN "closed" ELSE "idle"
  /\ removed' = {} /\ added' = {} /\ allowAll' = FALSE
  /\ UNCHANGED core

(* A software breakpoint its provider does not know is written back all    *)
(* the same, whatever is in memory by now.                                 *)
RemoveUnknown(e) ==
  /\ e \in removed /\ Unknown(e.bp)
  /\ ProviderRemove(e.bp)
  /\ Raise
  /\ astray' = IF e.bp.kind = "sw" /\ e.bp.addr \notin DOMAIN sw
               THEN astray \cup {e.bp.addr} ELSE astray
  /\ UNCHANGED <<dicts, image, faults, unitOff, aliased>>

Fail(provider) ==
  /\ provider \in Faulty /\ faults["HW"] + faults["SW"] < MaxFaults
  /\ faults' = [faults EXCEPT ![provider] = @ + 1]

(* A failing removal is swallowed: the provider keeps its entry and the    *)
(* manager forgets the breakpoint.  What failed is the write of the        *)
(* original instruction, which may have arrived, or the invalidation of    *)
(* the instruction cache that follows it.                                  *)
(* Mutant: the entry is deleted before the write that fails.               *)
SwRemoveFails_DropsEntry(e) ==
  /\ e \in removed /\ e.bp.kind = "sw" /\ ~NoEntry(e.bp)
  /\ Fail("SW")
  /\ sw' = [b \in DOMAIN sw \ {e.bp.addr} |-> sw[b]]
  /\ Forget(e.bp)
  /\ removed' = removed \ {e}
  /\ UNCHANGED <<updated, fpb, mem, image, pc, added, allowAll, core,
                 astray, unitOff, aliased>>

SwRemoveFails(e) ==
  /\ e \in removed /\ e.bp.kind = "sw" /\ ~NoEntry(e.bp)
  /\ Fail("SW")
  /\ mem' \in {mem, [mem EXCEPT ![e.bp.addr] = e.bp.orig]}
  /\ astray' = IF e.bp.addr \in DOMAIN sw THEN astray ELSE astray \cup {e.bp.addr}
  /\ Forget(e.bp)
  /\ removed' = removed \ {e}
  /\ UNCHANGED <<updated, fpb, sw, image, pc, added, allowAll, core,
                 unitOff, aliased>>

(* A comparator whose clearing raises has been marked free already.        *)
HwRemoveFails(e) ==
  /\ e \in removed /\ e.bp.kind = "hw" /\ Matching(BpAddr(e.bp)) # {}
  /\ Fail("HW")
  /\ LET i == FirstOf(Matching(BpAddr(e.bp)))
     IN comps' \in {[comps EXCEPT ![i].on = FALSE],
                    [comps EXCEPT ![i].on = FALSE, ![i].reg = NoAddr]}
  /\ Raise
  /\ UNCHANGED <<dicts, used, fpbOn, hwOn, ram, image, astray, unitOff, aliased>>

Free == {i \in Comp : ~comps[i].on}

(* The unit is enabled with the first breakpoint set.                      *)
EnableFpb == fpbOn' = TRUE /\ hwOn' = (hwOn \/ ~fpbOn)

FindsFree(a) == InHwRange(a) /\ available # 0 /\ Free # {}

(* FPB.set_breakpoint: take the first comparator that is not enabled.      *)
(* Mutant: the number of available comparators is not checked.             *)
HwSet_Unchecked(a) ==
  /\ EnableFpb
  /\ IF InHwRange(a) /\ Free # {}
       THEN LET i == FirstOf(Free)
            IN /\ comps' = [comps EXCEPT ![i] = [on |-> TRUE, addr |-> a, reg |-> a]]
               /\ used' = used + 1
               /\ live' = Put(live, a, Hw(i))
       ELSE UNCHANGED <<comps, used, live>>

HwSet(a) ==
  /\ EnableFpb
  /\ IF FindsFree(a)
       THEN LET i == FirstOf(Free)
            IN /\ comps' = [comps EXCEPT ![i] = [on |-> TRUE, addr |-> a, reg |-> a]]
               /\ used' = used + 1
               /\ live' = Put(live, a, Hw(i))
       ELSE UNCHANGED <<comps, used, live>>

(* What core.read16() returns: the memory filtered by filter_memory().     *)
Filtered(a) == IF a \in DOMAIN sw THEN sw[a] ELSE mem[a]

Planted(a) == [mem EXCEPT ![a] = BKPT]

(* SoftwareBreakpointProvider.set_breakpoint                               *)
(* Mutant: the BKPT is written before the original is read.                *)
SwSet_PlantsFirst(a) ==
  /\ sw' = [b \in DOMAIN sw \cup {a} |-> IF b = a THEN BKPT ELSE sw[b]]
  /\ mem' = Planted(a)
  /\ live' = Put(live, a, Sw(a, BKPT))

SwSet(a) ==
  /\ sw' = [b \in DOMAIN sw \cup {a} |-> IF b = a THEN Filtered(a) ELSE sw[b]]
  /\ mem' = Planted(a)
  /\ live' = Put(live, a, Sw(a, Filtered(a)))

Adding   == pc \in Flushing /\ removed = {} /\ added # {}
NextType == SelectType(updated[FirstOf(added)].bp, allowAll)
NextAddr == BpAddr(updated[FirstOf(added)].bp)

(* The comparator about to be taken still stands, in the list that flush() *)
(* walks, for a breakpoint at another address, as it may after a reset.    *)
Retakes(a) ==
  FindsFree(a) /\ \E k \in added \ {FirstOf(added)} :
    /\ updated[k].bp.kind = "hw"
    /\ updated[k].bp.comp = FirstOf(Free)
    /\ BpAddr(updated[k].bp) # a

(* One iteration of the adding loop of flush().                            *)
AddOne ==
  /\ Adding
  /\ \/ NextType = "none" /\ UNCHANGED <<live, fpb, ram, aliased>>
     \/ /\ NextType = "HW" /\ HwSet(NextAddr)
        /\ aliased' = (aliased \/ Retakes(NextAddr))
        /\ UNCHANGED ram
     \/ NextType = "SW" /\ SwSet(NextAddr) /\ UNCHANGED <<fpb, aliased>>
  /\ added' = added \ {FirstOf(added)}
  /\ UNCHANGED <<updated, image, pc, removed, allowAll, core, faults, astray, unitOff>>

(* A TransferError while a software breakpoint is set drops it.  The entry *)
(* is made last: reading the original instruction, writing the BKPT and    *)
(* invalidating the instruction cache may fail, and the BKPT may be there  *)
(* already, unknown to the provider unless an older entry remains.         *)
SwSetFails ==
  /\ Adding /\ NextType = "SW"
  /\ Fail("SW")
  /\ mem' \in {mem, Planted(NextAddr)}
  /\ astray' = IF mem' = mem \/ NextAddr \in DOMAIN sw THEN astray
                                                      ELSE astray \cup {NextAddr}
  /\ added' = added \ {FirstOf(added)}
  /\ UNCHANGED <<dicts, fpb, sw, image, pc, removed, allowAll, core,
                 unitOff, aliased>>

(* FPB.enable() raises before the provider believes it, or the write of    *)
(* the comparator, which has been marked enabled already, does.            *)
HwSetFails ==
  /\ Adding /\ NextType = "HW"
  /\ Fail("HW")
  /\ \/ ~fpbOn /\ hwOn' \in {hwOn, TRUE} /\ UNCHANGED <<comps, fpbOn>>
     \/ /\ FindsFree(NextAddr)
        /\ EnableFpb
        /\ comps' \in {[comps EXCEPT ![FirstOf(Free)].on = TRUE],
                       [comps EXCEPT ![FirstOf(Free)].on = TRUE,
                                     ![FirstOf(Free)].reg = NextAddr]}
  /\ Raise
  /\ UNCHANGED <<dicts, used, ram, image, astray, unitOff, aliased>>

(* The end of flush(): the updated dict becomes a copy of the live one.    *)
(* Mutant: the updated dict is not replaced.                               *)
FlushEnd_KeepsUpdated ==
  /\ pc \in Flushing /\ removed = {} /\ added = {}
  /\ core' = IF pc \in {"resume", "detach"} THEN "running" ELSE core
  /\ pc' = IF pc = "detach" THEN "closed" ELSE "idle"
  /\ allowAll' = FALSE
  /\ UNCHANGED <<dicts, fpb, ram, image, removed, added, marks>>

FlushEnd ==
  /\ pc \in Flushing /\ removed = {} /\ added = {}
  /\ updated' = live
  /\ core' = IF pc \in {"resume", "detach"} THEN "running" ELSE core
  /\ pc' = IF pc = "detach" THEN "closed" ELSE "idle"
  /\ allowAll' = FALSE
  /\ UNCHANGED <<live, fpb, ram, image, removed, added, marks>>

-----------------------------------------------------------------------------
(* remove_all_breakpoints(): every live breakpoint is removed at once, the *)
(* updated dict is left as it is.                                          *)
StartRemoveAll(next) ==
  /\ removed' = Entries(live)
  /\ pc' = next
  /\ UNCHANGED <<dicts, fpb, ram, image, added, allowAll, core, marks>>

(* CortexM.set_reset_catch(): PRE_HALT with VECTOR_CATCH.                  *)
ResetAndHalt == pc = "idle" /\ "reset" \in Ops /\ StartRemoveAll("reset")

(* What a reset does to the FPB: nothing, or it is disabled and its        *)
(* comparators keep their contents or are cleared.                         *)
FpbAfterReset ==
  \/ UNCHANGED <<hwOn, comps>>
  \/ /\ hwOn' = FALSE
     /\ comps' \in {comps, [i \in Comp |-> [comps[i] EXCEPT !.reg = NoAddr]]}

(* The rest of reset_and_halt(): the core is reset and halts, or the wait  *)
(* for it times out; POST_HALT with VECTOR_CATCH marks the FPB provider    *)
(* disabled.                                                               *)
(* Mutant: POST_HALT does not mark the FPB disabled.                       *)
ResetEnd_KeepsEnabled ==
  /\ pc = "reset" /\ removed = {}
  /\ live' = <<>>
  /\ FpbAfterReset
  /\ unitOff' = FALSE
  /\ core' \in {"halted", "running"}
  /\ pc' = "idle"
  /\ UNCHANGED <<updated, used, fpbOn, ram, image, work, faults, astray, aliased>>

ResetEnd ==
  /\ pc = "reset" /\ removed = {}
  /\ live' = <<>>
  /\ fpbOn' = FALSE
  /\ FpbAfterReset
  /\ unitOff' = FALSE
  /\ core' \in {"halted", "running"}
  /\ pc' = "idle"
  /\ UNCHANGED <<updated, used, ram, image, work, faults, astray, aliased>>

(* The FPB may have been disabled or cleared behind its provider.          *)
Unnoticed == unitOff' = (unitOff \/ hwOn' # hwOn \/ comps' # comps)

(* An exception after the breakpoints are removed cuts reset_and_halt()    *)
(* short: POST_HALT is never sent.                                         *)
ResetRaises ==
  /\ pc = "reset" /\ removed = {}
  /\ live' = <<>>
  /\ FpbAfterReset /\ Unnoticed
  /\ core' \in {"halted", "running"}
  /\ pc' = "idle"
  /\ UNCHANGED <<updated, used, fpbOn, ram, image, work, faults, astray, aliased>>

(* CortexM.disconnect(resume): breakpoints are removed first ...           *)
Disconnect ==
  /\ pc = "idle" /\ {"disconnect", "disconnect_resume"} \cap Ops # {}
  /\ StartRemoveAll("disconnect")

(* ... and with resume, unless the stop hook did it, resume() is called.   *)
DisconnectResume ==
  /\ pc = "disconnect" /\ removed = {} /\ "disconnect_resume" \in Ops
  /\ core = "halted"
  /\ live' = <<>>
  /\ removed' = {} /\ allowAll' = (Len(updated) = 1)
  /\ added' = DOMAIN updated   \* no key is live any more
  /\ pc' = "detach"
  /\ UNCHANGED <<updated, fpb, ram, image, core, marks>>

DisconnectEnd ==
  /\ pc = "disconnect" /\ removed = {}
  /\ "disconnect" \in Ops \/ core = "running"
  /\ live' = <<>>
  /\ pc' = "closed"
  /\ UNCHANGED <<updated, fpb, ram, image, work, core, marks>>

-----------------------------------------------------------------------------
(* CortexM.reset() without a catch, by the probe, a register or a debug    *)
(* sequence: the manager is not told.  The core runs, halts at a vector    *)
(* catch set by the user, or an access raises.                             *)
Reset ==
  /\ pc = "idle" /\ "reset" \in Ops
  /\ FpbAfterReset /\ Unnoticed
  /\ core' \in {"halted", "running"}
  /\ UNCHANGED <<dicts, used, fpbOn, ram, image, pc, work, faults, astray, aliased>>

(* _perform_emulated_reset(): the core is halted, its registers are        *)
(* written, and it is resumed like by any client unless a vector catch is  *)
(* set; an access may raise on the way.                                    *)
EmulatedReset ==
  /\ pc = "idle" /\ "reset" \in Ops
  /\ \/ core' = "halted" /\ StartFlush(FALSE) /\ pc' = "resume"
     \/ core' \in {core, "halted"} /\ UNCHANGED <<pc, work>>
  /\ UNCHANGED <<dicts, fpb, ram, image, marks>>

(* CortexM.halt(), or the core stopping at a breakpoint or on its own.     *)
CoreHalts ==
  /\ pc # "closed" /\ core = "running"
  /\ core' = "halted"
  /\ UNCHANGED <<dicts, fpb, ram, image, pc, work, marks>>

LiveSw(a) == \E e \in Entries(live) : e.bp.kind = "sw" /\ e.bp.addr = a

(* write_memory() and its block forms go to the AP without a filter.  With *)
(* "write" alone the clients spare the software breakpoints that are live. *)
(* Where the provider has an entry, it now remembers another instruction   *)
(* than the client's; where it has none, it has nothing to get wrong.      *)
WriteMemory(a, v) ==
  /\ pc = "idle" /\ a \in Writable
  /\ "write_over" \in Ops \/ ("write" \in Ops /\ ~LiveSw(a))
  /\ mem' = [mem EXCEPT ![a] = v]
  /\ image' = [image EXCEPT ![a] = v]
  /\ astray' = IF a \in DOMAIN sw THEN astray \cup {a} ELSE astray \ {a}
  /\ UNCHANGED <<dicts, fpb, sw, pc, work, core, faults, unitOff, aliased>>

Closed == pc = "closed" /\ UNCHANGED vars

Next ==
  \/ \E a \in Addr, t \in Type : SetBreakpoint(a, t)
  \/ \E a \in Addr : RemoveBreakpoint(a)
  \/ Resume \/ Step \/ \E s \in BOOLEAN : OtherCoreRuns(s)
  \/ \E e \in removed : \/ RemoveOne(e) \/ RemoveUnknown(e)
                        \/ SwRemoveFails(e) \/ HwRemoveFails(e)
  \/ AddOne \/ SwSetFails \/ HwSetFails \/ FlushEnd
  \/ ResetAndHalt \/ ResetEnd \/ ResetRaises
  \/ Disconnect \/ DisconnectResume \/ DisconnectEnd
  \/ Reset \/ EmulatedReset \/ CoreHalts
  \/ \E a \in Addr, v \in Code : WriteMemory(a, v)
  \/ Closed

Spec == Init /\ [][Next]_vars

-----------------------------------------------------------------------------
(* Properties                                                              *)

Entry == [key : Addr, bp : Breakpoint]

Shapes ==
  /\ live \in Seq(Entry) /\ updated \in Seq(Entry)
  /\ comps \in [Comp -> [on : BOOLEAN, addr : Addr \cup {NoAddr},
                         reg : Addr \cup {NoAddr}]]
  /\ used \in Int /\ fpbOn \in BOOLEAN /\ hwOn \in BOOLEAN
  /\ DOMAIN sw \subseteq Writable /\ sw \in [DOMAIN sw -> Code \cup {BKPT}]
  /\ mem \in [Writable -> Code \cup {BKPT}]
  /\ image \in [Writable -> Code]
  /\ pc \in {"idle", "reset", "disconnect", "closed"} \cup Flushing
  /\ removed \subseteq Entry /\ added \subseteq DOMAIN updated /\ allowAll \in BOOLEAN
  /\ core \in {"halted", "running"}
  /\ faults \in [Provider -> 0..MaxFaults]
  /\ astray \subseteq Writable /\ unitOff \in BOOLEAN /\ aliased \in BOOLEAN

(* The provider takes no BKPT for a program's instruction.                 *)
RemembersCode == \A a \in DOMAIN sw \ astray : sw[a] \in Code

TypeOK == Shapes /\ RemembersCode

(* Comparators that a dict or the removal list refers to have an address.  *)
HwReal ==
  \A e \in Entries(live) \cup Entries(updated) \cup removed :
    e.bp.kind = "hw" => comps[e.bp.comp].addr \in Addr

(* Each software breakpoint among these entries is filed under its own     *)
(* address and, where its provider has an entry and is not astray, holds   *)
(* the instruction that the entry keeps.                                   *)
Backed(es) ==
  \A e \in es : e.bp.kind = "sw" =>
    /\ e.key = e.bp.addr
    /\ e.bp.addr \in DOMAIN sw \ astray => e.bp.orig = sw[e.bp.addr]

KeysDiffer(es) == \A e1, e2 \in es : e1.key = e2.key => e1 = e2

(* What makes Transparent inductive: the software breakpoints that are     *)
(* live and those still to be removed are backed.                          *)
SwBacked ==
  /\ Backed(removed) /\ KeysDiffer(removed)
  /\ Backed(Entries(live))
  /\ \A i, j \in DOMAIN live : live[i].key = live[j].key => i = j

(* Where the target would stop: comparators of an enabled FPB and planted  *)
(* BKPT instructions.                                                      *)
Armed == {a \in Addr : \/ hwOn /\ \E i \in Comp : comps[i].reg = a
                       \/ a \in Writable /\ mem[a] = BKPT}

(* A debugger reading code through the core sees what was last written     *)
(* there, never a planted BKPT (filter_memory), at every point of every    *)
(* flush, reset and disconnect, and also when accesses of the providers    *)
(* fail or cut one of these short.  It is not so, until the next write,    *)
(* where a set failed once the BKPT was written, where a client wrote      *)
(* beneath a planted BKPT, and where a breakpoint that the provider no     *)
(* longer knew has been written back.                                      *)
Transparent == \A a \in Writable \ astray : Filtered(a) = image[a]

(* Whenever no flush is under way, and after the last disconnect, the      *)
(* breakpoints the manager believes live are exactly the places where the  *)
(* target stops: none is lost, no forgotten comparator or BKPT stays       *)
(* behind, the FPB is on when needed, through resets with and without a    *)
(* catch and disconnects with and without resuming.  The four histories    *)
(* name what the code does not recover from: an access that failed, a      *)
(* client's write beneath a BKPT, a reset of the FPB that the manager is   *)
(* not told of, until the next reset_and_halt(), and a flush that reused   *)
(* a comparator object it was still to walk over.                          *)
Unspoilt == /\ \A p \in Provider : faults[p] = 0
            /\ astray = {} /\ ~unitOff /\ ~aliased
ArmedIsLive == pc \in {"idle", "closed"} /\ Unspoilt => Armed = Keys(live)

(* The count stays within the unit when a comparator write fails, so that  *)
(* available_breakpoints never goes negative or beyond the unit.  Each     *)
(* failure leaves one comparator more or less on than is counted; it takes *)
(* three of them to bring the count below zero.                            *)
UsedInRange == used \in 0..NumComps

(* Whatever accesses fail and wherever they cut a flush, a reset or a      *)
(* disconnect short, every BKPT left in RAM is known to the software       *)
(* provider, so that it can still be hidden and replaced, but for those    *)
(* of a set that failed after it wrote the BKPT.                           *)
NoOrphanBkpt == \A a \in Writable \ astray : mem[a] = BKPT => a \in DOMAIN sw

(* A flush never drops an accepted breakpoint while the FPB has as many    *)
(* comparators as there are breakpoints.                                   *)
NothingLostIfRoom ==
  [][FlushEnd /\ Cardinality(Keys(updated)) <= NumComps
       => Keys(updated') = Keys(updated)]_vars

(* A breakpoint for which set_breakpoint() returned True is there after    *)
(* the flush ("If there are enough free hardware breakpoints ... True is   *)
(* returned").                                                             *)
AcceptedIsSet == [][FlushEnd => Keys(updated') = Keys(updated)]_vars

(* The manager, its providers and the core implement the breakpoint        *)
(* service: the target is only armed for what is requested, disarmed of    *)
(* what is not (or while all is removed for a reset or a disconnect), and  *)
(* the core is let go with exactly the reported breakpoints armed.         *)
Service == INSTANCE BreakpointService
  WITH MayReset <- "reset" \in Ops, requested <- Keys(updated), armed <- Armed,
       running <- (core = "running"),
       suspended <- (pc \in {"reset", "disconnect", "closed"})
ServiceSpec == Service!Spec
=============================================================================
