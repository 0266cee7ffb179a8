----------------------- MODULE BreakpointManager_proofs -----------------------
(***************************************************************************)
(* Proofs about BreakpointManager, for any addresses, comparators and      *)
(* instructions: type correctness, that planted BKPT instructions are      *)
(* never seen, that the target is in step with the manager when no access  *)
(* fails, how far failing accesses spoil the count of comparators, and     *)
(* that the manager and its providers implement BreakpointService.         *)
(***************************************************************************)
EXTENDS BreakpointManager, FiniteSetTheorems, WellFoundedInduction, TLAPS

(* A nonempty set of natural numbers has a first element, the one the      *)
(* walks over comparators and pending additions take: of the finite        *)
(* intervals that end in its members one is minimal for inclusion.         *)
LEMMA FirstOfIn ==
  ASSUME NEW S \in SUBSET Nat, S # {}
  PROVE  FirstOf(S) \in S
<1> DEFINE I == {0..n : n \in S}
           R == StrictSubsetOrdering(Nat)
<1>1. I \subseteq FiniteSubsetsOf(Nat) /\ I # {}
  <2>1. \A n \in S : IsFiniteSet(0..n) /\ (0..n) \subseteq Nat
    BY FS_Interval
  <2> QED
    BY <2>1 DEF FiniteSubsetsOf
<1>2. IsWellFoundedOn(R, FiniteSubsetsOf(Nat))
  BY FS_StrictSubsetOrderingWellFounded
<1> HIDE DEF R
<1>3. PICK x \in I : \A y \in I : <<y, x>> \notin R
  BY <1>1, <1>2, WFMin
<1>4. PICK m \in S : x = 0..m
  OBVIOUS
<1>5. \A j \in S : m <= j
  <2> SUFFICES ASSUME NEW j \in S, j < m
               PROVE  FALSE
    OBVIOUS
  <2>1. (0..j) \subseteq Nat /\ (0..m) \subseteq Nat
        /\ (0..j) \subseteq (0..m) /\ m \in (0..m) /\ m \notin (0..j)
    OBVIOUS
  <2>2. <<0..j, 0..m>> \in R
    BY <2>1 DEF R, StrictSubsetOrdering
  <2> QED
    BY <1>3, <1>4, <2>2
<1> QED
  BY <1>5 DEF FirstOf

(* Deleting a key from a dict keeps it a dict.                             *)
LEMMA DelType ==
  ASSUME NEW S, NEW d \in Seq(S), NEW k
  PROVE  /\ Del(d, k) \in Seq(S)
         /\ Entries(Del(d, k)) \subseteq Entries(d)
<1>1. CASE k \notin Keys(d)
  BY <1>1 DEF Del
<1>2. CASE k \in Keys(d)
  <2> DEFINE n == Position(d, k)
  <2>1. n \in 1..Len(d) /\ d[n].key = k
    BY <1>2 DEF Keys, Position
  <2>2. Len(d) - 1 \in Nat
    BY <2>1
  <2>3. \A i \in 1..(Len(d) - 1) : d[IF i < n THEN i ELSE i + 1] \in S
    BY <2>1
  <2> HIDE DEF n
  <2>4. [i \in 1..(Len(d) - 1) |-> d[IF i < n THEN i ELSE i + 1]] \in Seq(S)
    BY <2>2, <2>3
  <2> QED
    BY <1>2, <2>1, <2>4 DEF Del, Entries, n
<1> QED
  BY <1>1, <1>2

(* Filing a breakpoint under a key keeps a dict a dict.                    *)
LEMMA PutType ==
  ASSUME NEW d \in Seq(Entry), NEW k \in Addr, NEW bp \in Breakpoint
  PROVE  /\ Put(d, k, bp) \in Seq(Entry)
         /\ Entries(Put(d, k, bp)) \subseteq Entries(d) \cup {[key |-> k, bp |-> bp]}
<1> DEFINE new == [key |-> k, bp |-> bp]
<1>0. new \in Entry
  BY DEF Entry
<1>1. CASE k \notin Keys(d)
  <2>1. Put(d, k, bp) = Append(d, new)
    BY <1>1 DEF Put
  <2> QED
    BY <2>1, <1>0 DEF Entries
<1>2. CASE k \in Keys(d)
  <2> DEFINE n == Position(d, k)
  <2>1. n \in 1..Len(d) /\ d[n].key = k
    BY <1>2 DEF Keys, Position
  <2> HIDE DEF n
  <2>2. Put(d, k, bp) = [d EXCEPT ![n] = new]
    BY <1>2 DEF Put, n
  <2> QED
    BY <2>1, <2>2, <1>0 DEF Entries
<1> QED
  BY <1>1, <1>2

-----------------------------------------------------------------------------
(* Type correctness                                                        *)

(* Additions are pending only while a flush is under way.                  *)
Quiet == pc \notin Flushing => added = {}

TypeInv == Shapes /\ HwReal /\ Quiet

LEMMA InitType == Init => TypeInv
<1> SUFFICES ASSUME Init PROVE TypeInv
  OBVIOUS
<1>1. Entries(<<>>) = {}
  BY DEF Entries
<1>2. sw \in [DOMAIN sw -> Code \cup {BKPT}] /\ DOMAIN sw = {}
  BY DEF Init
<1>3. HwReal
  BY <1>1 DEF Init, HwReal
<1>4. comps \in [Comp -> [on : BOOLEAN, addr : Addr \cup {NoAddr},
                         reg : Addr \cup {NoAddr}]]
  BY DEF Init
<1>5. live \in Seq(Entry) /\ updated \in Seq(Entry)
  BY DEF Init
<1>6. mem \in [Writable -> Code \cup {BKPT}]
  BY DEF Init
<1>7. image \in [Writable -> Code]
  BY DEF Init
<1>8. used \in Int /\ fpbOn \in BOOLEAN /\ hwOn \in BOOLEAN
  <2>1. used = 0 /\ fpbOn = FALSE /\ hwOn = FALSE
    BY DEF Init
  <2>2. fpbOn \in BOOLEAN /\ hwOn \in BOOLEAN
    BY <2>1
  <2> QED
    BY <2>1, <2>2
<1>9. pc = "idle" /\ core \in {"halted", "running"} /\ allowAll \in BOOLEAN
  BY DEF Init
<1>10. removed \subseteq Entry /\ added \subseteq DOMAIN updated
  BY DEF Init
<1>11. /\ faults \in [Provider -> 0..MaxFaults] /\ astray \subseteq Writable
       /\ unitOff \in BOOLEAN /\ aliased \in BOOLEAN
  <2>1. 0 \in 0..MaxFaults /\ faults = [p \in Provider |-> 0]
    BY BkptAssumption DEF Init
  <2> QED
    BY <2>1 DEF Init
<1>13. Quiet
  BY DEF Init, Quiet
<1> QED
  BY <1>2, <1>3, <1>4, <1>5, <1>6, <1>7, <1>8, <1>9, <1>10, <1>11, <1>13
     DEF TypeInv, Shapes

(* The entry that a dict lookup returns is one of the dict's.              *)
LEMMA LookupType ==
  ASSUME NEW d \in Seq(Entry), NEW k \in Keys(d)
  PROVE  \E e \in Entries(d) : e.bp = Lookup(d, k) /\ e.key = k
<1>1. Position(d, k) \in DOMAIN d /\ d[Position(d, k)].key = k
  BY DEF Keys, Position
<1> QED
  BY <1>1 DEF Lookup, Entries

(* Appending an entry.                                                     *)
LEMMA AppendEntries ==
  ASSUME NEW d \in Seq(Entry), NEW e \in Entry
  PROVE  /\ Append(d, e) \in Seq(Entry)
         /\ Entries(Append(d, e)) \subseteq Entries(d) \cup {e}
         /\ DOMAIN d \subseteq DOMAIN Append(d, e)
BY DEF Entries

LEMMA EntriesType == ASSUME NEW d \in Seq(Entry) PROVE Entries(d) \subseteq Entry
BY DEF Entries

(* Of a breakpoint waiting to be added the address is real, and it is in   *)
(* RAM if the software provider is chosen.                                 *)
LEMMA NextAddrType ==
  ASSUME TypeInv, Adding
  PROVE  /\ NextAddr \in Addr
         /\ NextType = "SW" => NextAddr \in Writable
<1>1. FirstOf(added) \in added
  <2>1. updated \in Seq(Entry) /\ added \subseteq DOMAIN updated /\ added # {}
    BY DEF TypeInv, Shapes, Adding
  <2>2. added \in SUBSET Nat
    BY <2>1
  <2> QED
    BY <2>1, <2>2, FirstOfIn
<1> DEFINE e == updated[FirstOf(added)]
<1>2. e \in Entries(updated) /\ e \in Entry
  BY <1>1, EntriesType DEF TypeInv, Shapes, Entries
<1>3. BpAddr(e.bp) \in Addr
  <2>1. CASE e.bp.kind = "hw"
    BY <1>2, <2>1 DEF TypeInv, HwReal, BpAddr
  <2>2. CASE e.bp.kind # "hw"
    BY <1>2, <2>2, BkptAssumption DEF Entry, Breakpoint, New, Hw, Sw, BpAddr
  <2> QED
    BY <2>1, <2>2
<1>4. NextType = "SW" => BpAddr(e.bp) \in Writable
  BY DEF NextType, SelectType
<1> QED
  BY <1>3, <1>4 DEF NextAddr

(* FPB.set_breakpoint keeps the comparators and the live dict well formed. *)
LEMMA HwSetType ==
  ASSUME TypeInv, NEW a \in Addr, HwSet(a), UNCHANGED <<updated, removed>>
  PROVE  /\ comps' \in [Comp -> [on : BOOLEAN, addr : Addr \cup {NoAddr},
                                 reg : Addr \cup {NoAddr}]]
         /\ used' \in Int /\ fpbOn' \in BOOLEAN /\ hwOn' \in BOOLEAN
         /\ live' \in Seq(Entry)
         /\ HwReal'
<1>1. fpbOn' \in BOOLEAN /\ hwOn' \in BOOLEAN
  BY DEF HwSet, EnableFpb, TypeInv, Shapes
<1>2. CASE UNCHANGED <<comps, used, live>>
  BY <1>1, <1>2 DEF TypeInv, Shapes, HwReal
<1>3. CASE Free # {} /\ ~UNCHANGED <<comps, used, live>>
  <2> DEFINE i == FirstOf(Free)
  <2>1. i \in Comp
    <3>1. Free \in SUBSET Nat /\ Free \subseteq Comp
      BY BkptAssumption DEF Free, Comp
    <3> QED
      BY <3>1, <1>3, FirstOfIn
  <2>2. /\ comps' = [comps EXCEPT ![i] = [on |-> TRUE, addr |-> a, reg |-> a]]
        /\ used' = used + 1
        /\ live' = Put(live, a, Hw(i))
    BY <1>3 DEF HwSet
  <2> HIDE DEF i
  <2>3. Hw(i) \in Breakpoint
    BY <2>1 DEF Breakpoint
  <2>4. /\ live' \in Seq(Entry)
        /\ Entries(live') \subseteq Entries(live) \cup {[key |-> a, bp |-> Hw(i)]}
    BY <2>2, <2>3, PutType DEF TypeInv, Shapes
  <2>5. \A j \in Comp : comps[j].addr \in Addr => comps'[j].addr \in Addr
    BY <2>1, <2>2 DEF TypeInv, Shapes
  <2>6. comps'[i].addr \in Addr
    BY <2>1, <2>2 DEF TypeInv, Shapes
  <2>7. HwReal'
    <3> SUFFICES ASSUME NEW e \in Entries(live') \cup Entries(updated') \cup removed',
                        e.bp.kind = "hw"
                 PROVE  comps'[e.bp.comp].addr \in Addr
      BY DEF HwReal
    <3>1. CASE e = [key |-> a, bp |-> Hw(i)]
      BY <3>1, <2>6 DEF Hw
    <3>2. CASE e \in Entries(live) \cup Entries(updated) \cup removed
      <4>1. e \in Entry /\ comps[e.bp.comp].addr \in Addr
        BY <3>2, EntriesType DEF TypeInv, Shapes, HwReal
      <4>2. e.bp.comp \in Comp
        BY <4>1 DEF Entry, Breakpoint, New, Hw, Sw
      <4> QED
        BY <4>1, <4>2, <2>5
    <3> QED
      BY <3>1, <3>2, <2>4
  <2>8. comps' \in [Comp -> [on : BOOLEAN, addr : Addr \cup {NoAddr},
                             reg : Addr \cup {NoAddr}]]
    BY <2>1, <2>2 DEF TypeInv, Shapes
  <2> QED
    BY <1>1, <2>2, <2>4, <2>7, <2>8 DEF TypeInv, Shapes
<1> QED
  BY <1>2, <1>3 DEF HwSet, FindsFree

(* SoftwareBreakpointProvider keeps a map from RAM addresses to            *)
(* instructions of the program, and memory holds instructions.             *)
LEMMA SwSetType ==
  ASSUME TypeInv, NEW a \in Writable, SwSet(a),
         UNCHANGED <<updated, removed, comps>>
  PROVE  /\ DOMAIN sw' \subseteq Writable /\ sw' \in [DOMAIN sw' -> Code \cup {BKPT}]
         /\ mem' \in [Writable -> Code \cup {BKPT}]
         /\ live' \in Seq(Entry)
         /\ HwReal'
<1>0. Filtered(a) \in Code \cup {BKPT}
  BY DEF Filtered, TypeInv, Shapes
<1>1. Sw(a, Filtered(a)) \in Breakpoint /\ a \in Addr
  BY <1>0, BkptAssumption DEF Breakpoint
<1>2. /\ live' \in Seq(Entry)
      /\ Entries(live') \subseteq Entries(live)
                          \cup {[key |-> a, bp |-> Sw(a, Filtered(a))]}
  BY <1>1, PutType DEF SwSet, TypeInv, Shapes
<1>3. HwReal'
  BY <1>2 DEF TypeInv, HwReal, Sw
<1>4. DOMAIN sw' \subseteq Writable /\ sw' \in [DOMAIN sw' -> Code \cup {BKPT}]
  BY <1>0 DEF SwSet, TypeInv, Shapes
<1>5. mem' \in [Writable -> Code \cup {BKPT}]
  BY DEF SwSet, Planted, TypeInv, Shapes
<1> QED
  BY <1>2, <1>3, <1>4, <1>5

(* Removing through a provider touches neither address nor instruction     *)
(* types.                                                                  *)
LEMMA ProviderRemoveType ==
  ASSUME TypeInv, NEW e \in removed, ProviderRemove(e.bp)
  PROVE  /\ comps' \in [Comp -> [on : BOOLEAN, addr : Addr \cup {NoAddr},
                                 reg : Addr \cup {NoAddr}]]
         /\ \A i \in Comp : comps'[i].addr = comps[i].addr
         /\ used' \in Int /\ fpbOn' \in BOOLEAN /\ hwOn' \in BOOLEAN
         /\ DOMAIN sw' \subseteq Writable /\ sw' \in [DOMAIN sw' -> Code \cup {BKPT}]
         /\ mem' \in [Writable -> Code \cup {BKPT}]
<1>0. e \in Entry
  BY DEF TypeInv, Shapes
<1>1. CASE e.bp.kind = "hw" /\ HwRemove(BpAddr(e.bp)) /\ UNCHANGED ram
  <2>1. UNCHANGED <<sw, mem>>
    BY <1>1 DEF ram
  <2>2. CASE UNCHANGED fpb
    BY <2>1, <2>2 DEF fpb, TypeInv, Shapes
  <2>3. CASE ~UNCHANGED fpb
    <3> DEFINE i == FirstOf(Matching(BpAddr(e.bp)))
    <3>1. /\ comps' = [comps EXCEPT ![i].on = FALSE, ![i].reg = NoAddr]
          /\ used' = used - 1
          /\ UNCHANGED <<fpbOn, hwOn>>
      BY <1>1, <2>3 DEF HwRemove
    <3> HIDE DEF i
    <3>2. comps' \in [Comp -> [on : BOOLEAN, addr : Addr \cup {NoAddr},
                               reg : Addr \cup {NoAddr}]]
          /\ \A j \in Comp : comps'[j].addr = comps[j].addr
      <4>1. comps \in [Comp -> [on : BOOLEAN, addr : Addr \cup {NoAddr}, reg : Addr \cup {NoAddr}]]
        BY DEF TypeInv, Shapes
      <4> QED
        BY Zenon, <3>1, <4>1
    <3>3. used' \in Int
      BY <3>1 DEF TypeInv, Shapes
    <3> QED
      BY <2>1, <3>1, <3>2, <3>3 DEF TypeInv, Shapes
  <2> QED
    BY <2>2, <2>3
<1>2. CASE e.bp.kind = "sw" /\ SwRemove(e.bp) /\ UNCHANGED fpb
  <2>1. e.bp.addr \in Writable /\ e.bp.orig \in Code \cup {BKPT}
    BY <1>0, <1>2 DEF Entry, Breakpoint, New, Hw, Sw
  <2>2. UNCHANGED <<comps, used, fpbOn, hwOn>>
    BY <1>2 DEF fpb
  <2>3. /\ DOMAIN sw' \subseteq Writable /\ sw' \in [DOMAIN sw' -> Code \cup {BKPT}]
        /\ mem' \in [Writable -> Code \cup {BKPT}]
    BY <1>2, <2>1 DEF SwRemove, TypeInv, Shapes
  <2> QED
    BY <2>2, <2>3 DEF TypeInv, Shapes
<1> QED
  BY <1>1, <1>2 DEF ProviderRemove

(* A flush takes its lists from the dicts.                                 *)
LEMMA ListsType ==
  ASSUME TypeInv
  PROVE  /\ Removed \subseteq Entries(live) /\ Removed \subseteq Entry
         /\ Added \subseteq DOMAIN updated
BY EntriesType DEF TypeInv, Shapes, Removed, Added

(* Whatever happens to the dicts, addresses stay real as long as the       *)
(* comparators' addresses stay and entries come from the dicts and lists.  *)
LEMMA HwRealKept ==
  ASSUME TypeInv,
         \A i \in Comp : comps[i].addr \in Addr => comps'[i].addr \in Addr,
         Entries(live') \cup Entries(updated') \cup removed'
           \subseteq Entries(live) \cup Entries(updated) \cup removed
  PROVE  HwReal'
<1> SUFFICES ASSUME NEW e \in Entries(live) \cup Entries(updated) \cup removed,
                    e.bp.kind = "hw"
             PROVE  comps'[e.bp.comp].addr \in Addr
  BY DEF HwReal
<1>1. e \in Entry /\ comps[e.bp.comp].addr \in Addr
  BY EntriesType DEF TypeInv, Shapes, HwReal
<1>2. e.bp.comp \in Comp
  BY <1>1 DEF Entry, Breakpoint, New, Hw, Sw
<1> QED
  BY <1>1, <1>2

(* A reset changes neither the provider's view of a comparator nor the     *)
(* types.                                                                  *)
LEMMA FpbAfterResetType ==
  ASSUME TypeInv, FpbAfterReset
  PROVE  /\ comps' \in [Comp -> [on : BOOLEAN, addr : Addr \cup {NoAddr},
                                 reg : Addr \cup {NoAddr}]]
         /\ \A j \in Comp : /\ comps'[j].addr = comps[j].addr
                            /\ comps'[j].on = comps[j].on
                            /\ comps'[j].reg \in {comps[j].reg, NoAddr}
         /\ hwOn' \in BOOLEAN
<1>1. comps \in [Comp -> [on : BOOLEAN, addr : Addr \cup {NoAddr},
                         reg : Addr \cup {NoAddr}]] /\ hwOn \in BOOLEAN
  BY DEF TypeInv, Shapes
<1>2. CASE comps' = comps /\ hwOn' \in {hwOn, FALSE}
  BY <1>1, <1>2
<1>3. CASE comps' = [i \in Comp |-> [comps[i] EXCEPT !.reg = NoAddr]] /\ hwOn' = FALSE
  BY <1>1, <1>3
<1> QED
  BY <1>2, <1>3 DEF FpbAfterReset

(* A failing access is counted with its provider.                          *)
LEMMA FailType ==
  ASSUME TypeInv, NEW p \in Provider, Fail(p)
  PROVE  /\ faults' \in [Provider -> 0..MaxFaults] /\ p \in Faulty
         /\ faults'[p] = faults[p] + 1
         /\ \A q \in Provider : q # p => faults'[q] = faults[q]
<1>1. /\ faults \in [Provider -> Nat] /\ MaxFaults \in Nat
      /\ "HW" \in Provider /\ "SW" \in Provider
  BY BkptAssumption DEF TypeInv, Shapes, Provider
<1>2. faults["HW"] + faults["SW"] < MaxFaults
  BY DEF Fail
<1>3. \A q \in Provider : faults[q] + 1 \in 0..MaxFaults
  BY <1>1, <1>2 DEF Provider
<1> QED
  BY <1>1, <1>3 DEF Fail, TypeInv, Shapes

(* Each step of Next keeps the type invariant.                             *)
LEMMA StepType == TypeInv /\ [Next]_vars => TypeInv'
<1> SUFFICES ASSUME TypeInv, [Next]_vars PROVE TypeInv'
  OBVIOUS
<1> USE DEF dicts, fpb, ram, work, marks
<1>1. ASSUME NEW a \in Addr, NEW t \in Type, SetBreakpoint(a, t)
      PROVE  TypeInv'
  <2>1. CASE a \in Keys(live)
    <3>1. PICK e \in Entries(live) : e.bp = Lookup(live, a) /\ e.key = a
      BY <2>1, LookupType DEF TypeInv, Shapes
    <3>2. e \in Entry
      BY EntriesType DEF TypeInv, Shapes
    <3>3. e = [key |-> a, bp |-> Lookup(live, a)]
      BY <3>1, <3>2 DEF Entry
    <3>4. updated' = Append(updated, e)
      BY <1>1, <2>1, <3>3 DEF SetBreakpoint
    <3>5. updated' \in Seq(Entry) /\ DOMAIN updated \subseteq DOMAIN updated'
          /\ Entries(updated') \subseteq Entries(updated) \cup Entries(live)
      BY <3>2, <3>4, AppendEntries DEF TypeInv, Shapes
    <3>6. HwReal'
      BY <1>1, <3>5, HwRealKept DEF SetBreakpoint
    <3> QED
      BY <1>1, <3>5, <3>6 DEF SetBreakpoint, TypeInv, Shapes, Quiet
  <2>2. CASE a \notin Keys(live)
    <3> DEFINE e == [key |-> a, bp |-> New(a, t)]
    <3>1. e \in Entry
      BY DEF Entry, Breakpoint
    <3>2. updated' = Append(updated, e)
      BY <1>1, <2>2 DEF SetBreakpoint
    <3>3. updated' \in Seq(Entry) /\ DOMAIN updated \subseteq DOMAIN updated'
          /\ Entries(updated') \subseteq Entries(updated) \cup {e}
      BY <3>1, <3>2, AppendEntries DEF TypeInv, Shapes
    <3>4. HwReal'
      BY <1>1, <3>3 DEF SetBreakpoint, TypeInv, HwReal, New
    <3> QED
      BY <1>1, <3>3, <3>4 DEF SetBreakpoint, TypeInv, Shapes, Quiet
  <2> QED
    BY <2>1, <2>2
<1>2. ASSUME NEW a \in Addr, RemoveBreakpoint(a)
      PROVE  TypeInv'
  <2>1. updated' \in Seq(Entry) /\ Entries(updated') \subseteq Entries(updated)
    BY <1>2, DelType DEF RemoveBreakpoint, TypeInv, Shapes
  <2>2. HwReal'
    BY <1>2, <2>1, HwRealKept DEF RemoveBreakpoint
  <2>3. added = {}
    BY <1>2 DEF RemoveBreakpoint, TypeInv, Quiet, Flushing
  <2> QED
    BY <1>2, <2>1, <2>2, <2>3
       DEF RemoveBreakpoint, TypeInv, Shapes, Quiet
<1>3. ASSUME UNCHANGED <<live, comps, used, fpbOn, hwOn, sw, mem, image, marks>>,
             updated' \in {updated, live}, core' \in {"halted", "running"},
             pc' \in {"idle", "reset", "disconnect", "closed"} \cup Flushing,
             removed' \subseteq Entries(live) \cup removed,
             added' \subseteq DOMAIN updated', allowAll' \in BOOLEAN,
             pc' \notin Flushing => added' = {}
      PROVE  TypeInv'
  <2>1. HwReal'
    BY <1>3, HwRealKept
  <2>2. removed' \subseteq Entry
    BY <1>3, EntriesType DEF TypeInv, Shapes
  <2> QED
    BY <1>3, <2>1, <2>2 DEF TypeInv, Shapes, Quiet
<1>4. CASE Resume
  BY <1>4, <1>3, ListsType DEF Resume, StartFlush, Flushing, TypeInv, Shapes
<1>5. CASE Step
  BY <1>5, <1>3, ListsType DEF Step, StartFlush, Flushing, TypeInv, Shapes
<1>6. ASSUME NEW b \in BOOLEAN, OtherCoreRuns(b)
      PROVE  TypeInv'
  BY <1>6, <1>3, ListsType DEF OtherCoreRuns, StartFlush, Flushing, TypeInv, Shapes
<1>7. ASSUME NEW e \in removed, RemoveOne(e)
      PROVE  TypeInv'
  <2>1. ProviderRemove(e.bp)
    BY <1>7 DEF RemoveOne
  <2>2. live' \in Seq(Entry) /\ Entries(live') \subseteq Entries(live)
    BY <1>7, DelType DEF RemoveOne, Forget, TypeInv, Shapes
  <2>3. HwReal'
    BY <1>7, <2>1, <2>2, ProviderRemoveType, HwRealKept DEF RemoveOne
  <2> QED
    BY <1>7, <2>1, <2>2, <2>3, ProviderRemoveType
       DEF RemoveOne, TypeInv, Shapes, Quiet
<1>8. ASSUME NEW e \in removed, RemoveUnknown(e)
      PROVE  TypeInv'
  <2>1. /\ ProviderRemove(e.bp) /\ Raise
        /\ UNCHANGED <<live, updated, image, faults, unitOff, aliased>>
    BY <1>8 DEF RemoveUnknown
  <2>3. astray' \subseteq Writable
    <3>1. e.bp.kind = "sw" => e.bp.addr \in Writable
      BY DEF TypeInv, Shapes, Entry, Breakpoint, New, Hw, Sw
    <3> QED
      BY <1>8, <3>1 DEF RemoveUnknown, TypeInv, Shapes
  <2>2. HwReal'
    BY <2>1, ProviderRemoveType, HwRealKept DEF Raise
  <2> QED
    BY <2>1, <2>2, <2>3, ProviderRemoveType DEF Raise, TypeInv, Shapes, Quiet
<1>9. ASSUME NEW e \in removed, SwRemoveFails(e)
      PROVE  TypeInv'
  <2>1. live' \in Seq(Entry) /\ Entries(live') \subseteq Entries(live)
    BY <1>9, DelType DEF SwRemoveFails, Forget, TypeInv, Shapes
  <2>2. HwReal'
    BY <1>9, <2>1, HwRealKept DEF SwRemoveFails
  <2>3. faults' \in [Provider -> 0..MaxFaults]
    BY <1>9, FailType DEF SwRemoveFails, Provider
  <2>4. e.bp.addr \in Writable /\ e.bp.orig \in Code \cup {BKPT}
    BY <1>9 DEF SwRemoveFails, TypeInv, Shapes, Entry, Breakpoint, New, Hw, Sw
  <2>5. mem' \in [Writable -> Code \cup {BKPT}] /\ astray' \subseteq Writable
    BY <1>9, <2>4 DEF SwRemoveFails, TypeInv, Shapes
  <2> QED
    BY <1>9, <2>1, <2>2, <2>3, <2>5 DEF SwRemoveFails, TypeInv, Shapes, Quiet
<1>10. ASSUME NEW e \in removed, HwRemoveFails(e)
       PROVE  TypeInv'
  <2> DEFINE i == FirstOf(Matching(BpAddr(e.bp)))
  <2>1. comps' \in {[comps EXCEPT ![i].on = FALSE],
                   [comps EXCEPT ![i].on = FALSE, ![i].reg = NoAddr]}
    BY <1>10 DEF HwRemoveFails
  <2> HIDE DEF i
  <2>2. comps' \in [Comp -> [on : BOOLEAN, addr : Addr \cup {NoAddr},
                             reg : Addr \cup {NoAddr}]]
        /\ \A j \in Comp : comps'[j].addr = comps[j].addr
    <3>1. CASE comps' = [comps EXCEPT ![i].on = FALSE]
      BY <3>1 DEF TypeInv, Shapes
    <3>2. CASE comps' = [comps EXCEPT ![i].on = FALSE, ![i].reg = NoAddr]
      <4>1. comps \in [Comp -> [on : BOOLEAN, addr : Addr \cup {NoAddr}, reg : Addr \cup {NoAddr}]]
        BY DEF TypeInv, Shapes
      <4> QED
        BY Zenon, <3>2, <4>1
    <3> QED
      BY <2>1, <3>1, <3>2
  <2>3. HwReal'
    BY <1>10, <2>2, HwRealKept DEF HwRemoveFails, Raise
  <2>4. faults' \in [Provider -> 0..MaxFaults]
    BY <1>10, FailType DEF HwRemoveFails, Provider
  <2> QED
    BY <1>10, <2>2, <2>3, <2>4
       DEF HwRemoveFails, Raise, TypeInv, Shapes, Quiet
<1>11. CASE AddOne
  <2> DEFINE a == NextAddr
  <2>1. a \in Addr /\ (NextType = "SW" => a \in Writable)
    BY <1>11, NextAddrType DEF AddOne
  <2>2. /\ added' \subseteq DOMAIN updated' /\ pc \in Flushing
        /\ UNCHANGED <<updated, image, pc, removed, allowAll, core, faults, astray, unitOff>>
        /\ aliased' \in BOOLEAN
    BY <1>11 DEF AddOne, Adding, TypeInv, Shapes
  <2>3. CASE NextType = "none" /\ UNCHANGED <<live, fpb, ram>>
    <3>1. HwReal'
      BY <2>2, <2>3, HwRealKept
    <3> QED
      BY <2>2, <2>3, <3>1 DEF TypeInv, Shapes, Quiet
  <2>4. CASE NextType = "HW" /\ HwSet(a) /\ UNCHANGED ram
    BY <2>1, <2>2, <2>4, HwSetType DEF TypeInv, Shapes, Quiet
  <2>5. CASE NextType = "SW" /\ SwSet(a) /\ UNCHANGED fpb
    BY <2>1, <2>2, <2>5, SwSetType DEF TypeInv, Shapes, Quiet
  <2> QED
    BY <1>11, <2>3, <2>4, <2>5 DEF AddOne
<1>12. CASE SwSetFails
  <2>1. HwReal'
    BY <1>12, HwRealKept DEF SwSetFails
  <2>2. faults' \in [Provider -> 0..MaxFaults]
    BY <1>12, FailType DEF SwSetFails, Provider
  <2>3. NextAddr \in Writable
    BY <1>12, NextAddrType DEF SwSetFails
  <2>4. mem' \in [Writable -> Code \cup {BKPT}] /\ astray' \subseteq Writable
    BY <1>12, <2>3 DEF SwSetFails, Planted, TypeInv, Shapes
  <2> QED
    BY <1>12, <2>1, <2>2, <2>4 DEF SwSetFails, Adding, TypeInv, Shapes, Quiet
<1>13. CASE HwSetFails
  <2> DEFINE i == FirstOf(Free)
             a == NextAddr
  <2>0. a \in Addr
    BY <1>13, NextAddrType DEF HwSetFails
  <2>1. comps' \in {comps, [comps EXCEPT ![i].on = TRUE],
                   [comps EXCEPT ![i].on = TRUE, ![i].reg = a]}
    BY <1>13 DEF HwSetFails
  <2> HIDE DEF i, a
  <2>2. comps' \in [Comp -> [on : BOOLEAN, addr : Addr \cup {NoAddr},
                             reg : Addr \cup {NoAddr}]]
        /\ \A j \in Comp : comps'[j].addr = comps[j].addr
    <3>1. CASE comps' = comps
      BY <3>1 DEF TypeInv, Shapes
    <3>2. CASE comps' = [comps EXCEPT ![i].on = TRUE]
      BY <3>2 DEF TypeInv, Shapes
    <3>3. CASE comps' = [comps EXCEPT ![i].on = TRUE, ![i].reg = a]
      <4>1. comps \in [Comp -> [on : BOOLEAN, addr : Addr \cup {NoAddr}, reg : Addr \cup {NoAddr}]]
        BY DEF TypeInv, Shapes
      <4> QED
        BY Zenon, <2>0, <3>3, <4>1
    <3> QED
      BY <2>1, <3>1, <3>2, <3>3
  <2>3. HwReal'
    BY <1>13, <2>2, HwRealKept DEF HwSetFails, Raise
  <2>4. faults' \in [Provider -> 0..MaxFaults]
    BY <1>13, FailType DEF HwSetFails, Provider
  <2>5. fpbOn' \in BOOLEAN /\ hwOn' \in BOOLEAN
    BY <1>13 DEF HwSetFails, EnableFpb, TypeInv, Shapes
  <2> QED
    BY <1>13, <2>2, <2>3, <2>4, <2>5 DEF HwSetFails, Raise, TypeInv, Shapes, Quiet
<1>14. CASE FlushEnd
  BY <1>14, <1>3 DEF FlushEnd, Flushing, TypeInv, Shapes
<1>15. CASE ResetAndHalt
  BY <1>15, <1>3 DEF ResetAndHalt, StartRemoveAll, Flushing, TypeInv, Shapes, Quiet
<1>16. CASE ResetEnd \/ ResetRaises
  <2>1. live' = <<>> /\ Entries(live') = {} /\ live' \in Seq(Entry)
    <3>1. live' = <<>>
      BY <1>16 DEF ResetEnd, ResetRaises
    <3> QED
      BY <3>1 DEF Entries
  <2>2. /\ comps' \in [Comp -> [on : BOOLEAN, addr : Addr \cup {NoAddr},
                                reg : Addr \cup {NoAddr}]]
        /\ \A j \in Comp : comps'[j].addr = comps[j].addr
        /\ hwOn' \in BOOLEAN
    BY <1>16, FpbAfterResetType DEF ResetEnd, ResetRaises
  <2>3. HwReal'
    BY <1>16, <2>1, <2>2, HwRealKept DEF ResetEnd, ResetRaises
  <2>4. fpbOn' \in BOOLEAN /\ unitOff' \in BOOLEAN
    BY <1>16 DEF ResetEnd, ResetRaises, Unnoticed, TypeInv, Shapes
  <2>5. added' = {}
    BY <1>16 DEF ResetEnd, ResetRaises, Flushing, TypeInv, Quiet
  <2> QED
    BY <1>16, <2>1, <2>2, <2>3, <2>4, <2>5 DEF ResetEnd, ResetRaises, TypeInv, Shapes, Quiet
<1>17. CASE Disconnect
  BY <1>17, <1>3 DEF Disconnect, StartRemoveAll, Flushing, TypeInv, Shapes, Quiet
<1>18. CASE DisconnectResume
  <2>1. live' = <<>> /\ Entries(live') = {} /\ live' \in Seq(Entry)
    BY <1>18 DEF DisconnectResume, Entries
  <2>2. HwReal'
    BY <1>18, <2>1, HwRealKept DEF DisconnectResume
  <2> QED
    BY <1>18, <2>1, <2>2
       DEF DisconnectResume, Flushing, TypeInv, Shapes, Quiet
<1>19. CASE DisconnectEnd
  <2>1. live' = <<>> /\ Entries(live') = {} /\ live' \in Seq(Entry)
    BY <1>19 DEF DisconnectEnd, Entries
  <2>2. HwReal'
    BY <1>19, <2>1, HwRealKept DEF DisconnectEnd
  <2>3. added' = {}
    BY <1>19 DEF DisconnectEnd, Flushing, TypeInv, Quiet
  <2> QED
    BY <1>19, <2>1, <2>2, <2>3
       DEF DisconnectEnd, TypeInv, Shapes, Quiet
<1>20. CASE Reset
  <2>1. /\ comps' \in [Comp -> [on : BOOLEAN, addr : Addr \cup {NoAddr},
                                reg : Addr \cup {NoAddr}]]
        /\ \A j \in Comp : comps'[j].addr = comps[j].addr
        /\ hwOn' \in BOOLEAN
    BY <1>20, FpbAfterResetType DEF Reset
  <2>2. HwReal'
    BY <1>20, <2>1, HwRealKept DEF Reset
  <2>3. unitOff' \in BOOLEAN
    BY <1>20 DEF Reset, Unnoticed, TypeInv, Shapes
  <2> QED
    BY <1>20, <2>1, <2>2, <2>3 DEF Reset, TypeInv, Shapes, Quiet
<1>25. CASE EmulatedReset
  BY <1>25, <1>3, ListsType DEF EmulatedReset, StartFlush, Flushing, TypeInv, Shapes, Quiet
<1>21. CASE CoreHalts
  BY <1>21, <1>3 DEF CoreHalts, TypeInv, Shapes, Quiet
<1>22. ASSUME NEW a \in Addr, NEW v \in Code, WriteMemory(a, v)
       PROVE  TypeInv'
  <2>1. HwReal'
    BY <1>22, HwRealKept DEF WriteMemory
  <2>2. /\ mem' \in [Writable -> Code \cup {BKPT}]
        /\ image' \in [Writable -> Code]
    BY <1>22 DEF WriteMemory, TypeInv, Shapes
  <2> QED
    BY <1>22, <2>1, <2>2 DEF WriteMemory, TypeInv, Shapes, Quiet
<1>23. CASE UNCHANGED vars
  BY <1>23, <1>3 DEF vars, TypeInv, Shapes, Quiet
<1>24. CASE Closed
  BY <1>24, <1>23 DEF Closed
<1> QED
  BY <1>1, <1>2, <1>4, <1>5, <1>6, <1>7, <1>8, <1>9, <1>10, <1>11, <1>12,
     <1>13, <1>14, <1>15, <1>16, <1>17, <1>18, <1>19, <1>20, <1>21, <1>22,
     <1>23, <1>24, <1>25 DEF Next

(* In every execution the state keeps its shapes and comparators in use    *)
(* have real addresses.                                                    *)
THEOREM TypeInvariant == Spec => []TypeInv
BY InitType, StepType, PTL DEF Spec

-----------------------------------------------------------------------------
(* Planted instructions are never seen                                     *)

(* The dict has one entry for each key.                                    *)
Keyed(d) == \A i, j \in DOMAIN d : d[i].key = d[j].key => i = j

(* Deleting a key leaves no entry for it, and one for each other key.      *)
LEMMA DelKeyed ==
  ASSUME NEW d \in Seq(Entry), NEW k, Keyed(d)
  PROVE  /\ Keyed(Del(d, k))
         /\ \A e \in Entries(Del(d, k)) : e.key # k
<1>1. CASE k \notin Keys(d)
  BY <1>1 DEF Del, Entries, Keys
<1>2. CASE k \in Keys(d)
  <2> DEFINE n == Position(d, k)
  <2>1. n \in 1..Len(d) /\ d[n].key = k
    BY <1>2 DEF Keys, Position
  <2> HIDE DEF n
  <2> DEFINE from(i) == IF i < n THEN i ELSE i + 1
  <2>2. Del(d, k) = [i \in 1..(Len(d) - 1) |-> d[from(i)]]
    BY <1>2 DEF Del, n
  <2>3. \A i, j \in 1..(Len(d) - 1) :
          /\ from(i) \in DOMAIN d /\ from(i) # n
          /\ from(i) = from(j) => i = j
    BY <2>1
  <2> HIDE DEF from
  <2>4. Keyed(Del(d, k))
    BY <2>2, <2>3 DEF Keyed
  <2>5. \A e \in Entries(Del(d, k)) : e.key # k
    <3> SUFFICES ASSUME NEW i \in 1..(Len(d) - 1), d[from(i)].key = k
                 PROVE  FALSE
      BY <2>2 DEF Entries
    <3> QED
      BY <2>1, <2>3 DEF Keyed
  <2> QED
    BY <2>4, <2>5
<1> QED
  BY <1>1, <1>2

(* Filing a breakpoint leaves the new one as the only entry for its key.   *)
LEMMA PutKeyed ==
  ASSUME NEW d \in Seq(Entry), NEW k \in Addr, NEW bp \in Breakpoint, Keyed(d)
  PROVE  /\ Keyed(Put(d, k, bp))
         /\ \A e \in Entries(Put(d, k, bp)) :
              \/ e = [key |-> k, bp |-> bp]
              \/ e \in Entries(d) /\ e.key # k
<1> DEFINE new == [key |-> k, bp |-> bp]
<1>1. CASE k \notin Keys(d)
  <2>1. Put(d, k, bp) = Append(d, new)
    BY <1>1 DEF Put
  <2>2. \A i \in DOMAIN d : d[i].key # k
    BY <1>1 DEF Keys
  <2>3. Keyed(Put(d, k, bp))
    BY <2>1, <2>2 DEF Keyed
  <2> QED
    BY <2>1, <2>2, <2>3 DEF Entries
<1>2. CASE k \in Keys(d)
  <2> DEFINE n == Position(d, k)
  <2>1. n \in 1..Len(d) /\ d[n].key = k
    BY <1>2 DEF Keys, Position
  <2>2. Put(d, k, bp) = [d EXCEPT ![n] = new]
    BY <1>2 DEF Put
  <2> HIDE DEF n
  <2>3. Keyed(Put(d, k, bp))
    BY <2>1, <2>2 DEF Keyed
  <2>4. \A i \in DOMAIN d : i # n => d[i].key # k
    BY <2>1 DEF Keyed
  <2> QED
    BY <2>1, <2>2, <2>3, <2>4 DEF Entries
<1> QED
  BY <1>1, <1>2

(* The backing of the lists and dicts, in the form the proof uses.         *)
BackedInv ==
  /\ Backed(removed) /\ KeysDiffer(removed)
  /\ Backed(Entries(live)) /\ Keyed(live)

LEMMA BackedInvIsSwBacked == BackedInv <=> SwBacked
BY DEF BackedInv, SwBacked, Keyed

LEMMA KeyedEntries ==
  ASSUME NEW d \in Seq(Entry), Keyed(d), NEW es, es \subseteq Entries(d)
  PROVE  KeysDiffer(es)
BY DEF Keyed, KeysDiffer, Entries

(* Nothing is left to remove between the operations of the manager.        *)
Idle == pc \in {"idle", "closed"} => removed = {}

(* What clients see of RAM, and what the provider knows of it.             *)
RamInv == RemembersCode /\ NoOrphanBkpt /\ Transparent

TransparentInv == TypeInv /\ RamInv /\ BackedInv /\ Idle

LEMMA InitTransparent == Init => TransparentInv
<1> SUFFICES ASSUME Init PROVE TransparentInv
  OBVIOUS
<1>1. TypeInv
  BY InitType
<1>2. live = <<>> /\ Entries(live) = {} /\ removed = {} /\ mem = image
      /\ DOMAIN sw = {} /\ image \in [Writable -> Code]
  BY DEF Init, Entries
<1>3. RamInv
  BY <1>2, BkptAssumption DEF RamInv, RemembersCode, NoOrphanBkpt, Transparent, Filtered
<1>4. BackedInv
  BY <1>2 DEF BackedInv, Backed, KeysDiffer, Keyed
<1>5. Idle
  BY <1>2 DEF Idle
<1> QED
  BY <1>1, <1>3, <1>4, <1>5 DEF TransparentInv

(* Writing the instruction of an entry back and dropping what the provider *)
(* knew there.                                                             *)
LEMMA SwRemoveKeepsRam ==
  ASSUME TransparentInv, NEW e \in removed, e.bp.kind = "sw", SwRemove(e.bp),
         UNCHANGED image,
         astray' = IF e.bp.addr \in DOMAIN sw THEN astray ELSE astray \cup {e.bp.addr}
  PROVE  /\ RamInv'
         /\ \A a \in DOMAIN sw' \ astray' : a \in DOMAIN sw \ astray /\ sw'[a] = sw[a]
<1> DEFINE x == e.bp.addr
<1>1. /\ x \in Writable /\ Shapes
      /\ x \in DOMAIN sw \ astray => e.bp.orig = sw[x]
  BY SMTT(20) DEF TransparentInv, BackedInv, Backed, TypeInv, Shapes, Entry, Breakpoint, New, Hw, Sw
<1>2. x \in DOMAIN sw \ astray => e.bp.orig \in Code /\ e.bp.orig = image[x]
  BY <1>1 DEF TransparentInv, RamInv, RemembersCode, Transparent, Filtered
<1>3. /\ DOMAIN sw' = DOMAIN sw \ {x} /\ \A b \in DOMAIN sw' : sw'[b] = sw[b]
      /\ mem'[x] = e.bp.orig /\ \A b \in Writable : b # x => mem'[b] = mem[b]
  BY <1>1 DEF SwRemove, Shapes
<1>4. astray \subseteq astray' /\ (x \notin astray' => x \in DOMAIN sw)
  OBVIOUS
<1> HIDE DEF x
<1>5. RemembersCode'
  BY <1>3, <1>4 DEF TransparentInv, RamInv, RemembersCode
<1>6. NoOrphanBkpt'
  BY <1>2, <1>3, <1>4, BkptAssumption DEF TransparentInv, RamInv, NoOrphanBkpt
<1>7. Transparent'
  BY <1>2, <1>3, <1>4 DEF TransparentInv, RamInv, Transparent, Filtered
<1> QED
  BY <1>3, <1>4, <1>5, <1>6, <1>7 DEF RamInv

(* Each step keeps the planted instructions known and hidden.              *)
LEMMA StepTransparent ==
  ASSUME TransparentInv, [Next]_vars
  PROVE  TransparentInv'
<1> USE DEF dicts, fpb, ram, work, marks
<1>0. /\ TypeInv /\ TypeInv' /\ Idle /\ live \in Seq(Entry) /\ removed \subseteq Entry
      /\ Keyed(live) /\ Shapes
  BY StepType DEF TransparentInv, BackedInv, TypeInv, Shapes
<1>1. ASSUME UNCHANGED <<live, sw, mem, image, astray>>, Idle',
             removed' \subseteq removed \/ removed' \subseteq Entries(live)
      PROVE  TransparentInv'
  <2>1. RamInv'
    BY <1>1 DEF TransparentInv, RamInv, RemembersCode, NoOrphanBkpt, Transparent, Filtered
  <2>2. Backed(removed)' /\ KeysDiffer(removed)'
    <3>1. CASE removed' \subseteq removed
      BY <1>1, <3>1 DEF TransparentInv, BackedInv, Backed, KeysDiffer
    <3>2. CASE removed' \subseteq Entries(live)
      <4>1. KeysDiffer(removed)'
        BY <1>0, <3>2, KeyedEntries DEF KeysDiffer
      <4> QED
        BY <1>1, <3>2, <4>1 DEF TransparentInv, BackedInv, Backed
    <3> QED
      BY <1>1, <3>1, <3>2
  <2>3. Backed(Entries(live))' /\ Keyed(live)'
    BY <1>0, <1>1 DEF TransparentInv, BackedInv, Backed
  <2> QED
    BY <1>0, <1>1, <2>1, <2>2, <2>3 DEF TransparentInv, BackedInv
<1>2. ASSUME NEW a \in Addr, NEW t \in Type, SetBreakpoint(a, t)
      PROVE  TransparentInv'
  BY <1>0, <1>1, <1>2 DEF SetBreakpoint, Idle
<1>3. ASSUME NEW a \in Addr, RemoveBreakpoint(a)
      PROVE  TransparentInv'
  BY <1>0, <1>1, <1>3 DEF RemoveBreakpoint, Idle
<1>4. CASE Resume
  BY <1>0, <1>1, <1>4, ListsType DEF Resume, StartFlush, Flushing, Idle
<1>5. CASE Step
  BY <1>0, <1>1, <1>5, ListsType DEF Step, StartFlush, Flushing, Idle
<1>6. ASSUME NEW b \in BOOLEAN, OtherCoreRuns(b)
      PROVE  TransparentInv'
  BY <1>0, <1>1, <1>6, ListsType DEF OtherCoreRuns, StartFlush, Flushing, Idle
<1>7. ASSUME RamInv', Idle', removed' \subseteq removed,
             live' = live \/ \E k : live' = Del(live, k),
             \A a \in DOMAIN sw' \ astray' : a \in DOMAIN sw \ astray /\ sw'[a] = sw[a]
      PROVE  TransparentInv'
  <2>1. Entries(live') \subseteq Entries(live) /\ Keyed(live')
    BY <1>0, <1>7, DelType, DelKeyed
  <2>2. Backed(removed)' /\ KeysDiffer(removed)'
    BY <1>7 DEF TransparentInv, BackedInv, Backed, KeysDiffer
  <2>3. Backed(Entries(live))'
    BY <1>7, <2>1 DEF TransparentInv, BackedInv, Backed
  <2> QED
    BY <1>0, <1>7, <2>1, <2>2, <2>3 DEF TransparentInv, BackedInv
<1>8. ASSUME NEW e \in removed,
             RemoveOne(e) \/ RemoveUnknown(e) \/ SwRemoveFails(e) \/ HwRemoveFails(e)
      PROVE  TransparentInv'
  <2>1. ASSUME RemoveOne(e) \/ RemoveUnknown(e)
        PROVE  TransparentInv'
    <3>1. /\ removed' \subseteq removed /\ Idle' /\ image' = image /\ ProviderRemove(e.bp)
          /\ live' = live \/ live' = Del(live, BpAddr(e.bp))
      BY <1>0, <2>1 DEF RemoveOne, RemoveUnknown, Raise, Forget, Idle
    <3>2. astray' = IF e.bp.kind = "sw" /\ e.bp.addr \notin DOMAIN sw
                      THEN astray \cup {e.bp.addr} ELSE astray
      BY <2>1 DEF RemoveOne, RemoveUnknown, Unknown
    <3>3. CASE e.bp.kind = "hw" /\ UNCHANGED ram
      <4>1. RamInv'
        BY <3>1, <3>2, <3>3
           DEF TransparentInv, RamInv, RemembersCode, NoOrphanBkpt, Transparent, Filtered
      <4> QED
        BY <1>7, <3>1, <3>2, <3>3, <4>1
    <3>4. CASE e.bp.kind = "sw" /\ SwRemove(e.bp)
      <4>1. /\ RamInv'
            /\ \A a \in DOMAIN sw' \ astray' : a \in DOMAIN sw \ astray /\ sw'[a] = sw[a]
        BY <3>1, <3>2, <3>4, SwRemoveKeepsRam
      <4> QED
        BY <1>7, <3>1, <4>1
    <3> QED
      BY <3>1, <3>3, <3>4 DEF ProviderRemove
  <2>3. CASE SwRemoveFails(e)
    <3>1. e.bp.addr \in Writable /\ astray \subseteq astray' /\ sw' = sw /\ image' = image
      BY <1>0, <2>3 DEF SwRemoveFails, Entry, Breakpoint, New, Hw, Sw
    <3>2. /\ \A a \in Writable : a # e.bp.addr => mem'[a] = mem[a]
          /\ e.bp.addr \in DOMAIN sw \/ e.bp.addr \in astray'
      BY <1>0, <2>3, <3>1 DEF SwRemoveFails, Shapes
    <3>3. RamInv'
      BY <3>1, <3>2
         DEF TransparentInv, RamInv, RemembersCode, NoOrphanBkpt, Transparent, Filtered
    <3>4. /\ removed' \subseteq removed /\ Idle'
          /\ live' = live \/ live' = Del(live, BpAddr(e.bp))
      BY <1>0, <2>3 DEF SwRemoveFails, Forget, Idle
    <3> QED
      BY <1>7, <3>1, <3>3, <3>4
  <2>4. CASE HwRemoveFails(e)
    BY <1>1, <2>4 DEF HwRemoveFails, Raise, Idle
  <2> QED
    BY <1>8, <2>1, <2>3, <2>4
<1>9. CASE AddOne
  <2> DEFINE a == NextAddr
  <2>1. a \in Addr /\ (NextType = "SW" => a \in Writable)
    BY <1>0, <1>9, NextAddrType DEF AddOne
  <2>2. /\ pc \in Flushing /\ pc' = pc /\ image' = image /\ astray' = astray
        /\ removed = {} /\ removed' = {}
    BY <1>9 DEF AddOne, Adding
  <2>3. live \in Seq(Entry) /\ Keyed(live) /\ Backed(Entries(live))
    BY <1>0 DEF TransparentInv, BackedInv
  <2>4. Backed(removed)' /\ KeysDiffer(removed)' /\ Idle'
    BY <2>2 DEF Backed, KeysDiffer, Idle
  <2>5. CASE UNCHANGED <<live, ram>>
    BY <1>1, <2>2, <2>4, <2>5
  <2>6. ASSUME NEW i \in Comp, live' = Put(live, a, Hw(i)), UNCHANGED ram
        PROVE  TransparentInv'
    <3>1. Hw(i) \in Breakpoint
      BY DEF Breakpoint
    <3>2. /\ Keyed(live')
          /\ \A e \in Entries(live') : e \in Entries(live) \/ e.bp.kind = "hw"
      BY <2>1, <2>3, <2>6, <3>1, PutKeyed DEF Hw
    <3>3. RamInv'
      BY <2>2, <2>6
         DEF TransparentInv, RamInv, RemembersCode, NoOrphanBkpt, Transparent, Filtered
    <3>4. Backed(Entries(live))'
      BY <2>2, <2>3, <2>6, <3>2 DEF Backed
    <3> QED
      BY <1>0, <2>4, <3>2, <3>3, <3>4 DEF TransparentInv, BackedInv
  <2>7. CASE NextType = "HW" /\ HwSet(a) /\ UNCHANGED ram
    <3>1. CASE live' = live
      BY <2>5, <2>7, <3>1
    <3>2. CASE live' = Put(live, a, Hw(FirstOf(Free))) /\ Free # {}
      <4>1. FirstOf(Free) \in Comp
        <5>1. Free \in SUBSET Nat /\ Free \subseteq Comp
          BY BkptAssumption DEF Free, Comp
        <5> QED
          BY <3>2, <5>1, FirstOfIn
      <4> QED
        BY <2>6, <2>7, <3>2, <4>1
    <3> QED
      BY <2>7, <3>1, <3>2 DEF HwSet, FindsFree
  <2>8. CASE NextType = "SW" /\ SwSet(a)
    <3>1. a \in Writable /\ Filtered(a) \in Code \cup {BKPT}
      BY <1>0, <2>1, <2>8 DEF Filtered, Shapes
    <3>2. a \notin astray => Filtered(a) = image[a] /\ Filtered(a) \in Code
      BY <1>0, <3>1
         DEF TransparentInv, RamInv, RemembersCode, NoOrphanBkpt, Transparent, Filtered, Shapes
    <3>3. Sw(a, Filtered(a)) \in Breakpoint
      BY <3>1 DEF Breakpoint
    <3>4. /\ a \in DOMAIN sw' /\ sw'[a] = Filtered(a)
          /\ \A b \in DOMAIN sw : b # a => b \in DOMAIN sw' /\ sw'[b] = sw[b]
          /\ \A b \in DOMAIN sw' : b = a \/ b \in DOMAIN sw
          /\ \A b \in Writable : b # a => mem'[b] = mem[b]
          /\ live' = Put(live, a, Sw(a, Filtered(a)))
      BY <1>0, <2>8 DEF SwSet, Planted, Shapes
    <3> HIDE DEF a
    <3>5. RamInv'
      BY <2>2, <3>1, <3>2, <3>4
         DEF TransparentInv, RamInv, RemembersCode, NoOrphanBkpt, Transparent, Filtered
    <3>6. /\ Keyed(live')
          /\ \A e \in Entries(live') :
               \/ e \in Entries(live) /\ e.key # a
               \/ e = [key |-> a, bp |-> Sw(a, Filtered(a))]
      BY <2>1, <2>3, <3>3, <3>4, PutKeyed
    <3>7. Backed(Entries(live))'
      BY <2>2, <2>3, <3>4, <3>6 DEF Backed, Sw
    <3> QED
      BY <1>0, <2>4, <3>5, <3>6, <3>7 DEF TransparentInv, BackedInv
  <2> QED
    BY <1>9, <2>5, <2>7, <2>8 DEF AddOne
<1>10. CASE SwSetFails
  <2>1. /\ NextAddr \in Writable /\ astray \subseteq astray' /\ UNCHANGED <<live, sw, image>>
        /\ removed' = removed /\ Idle'
    BY <1>0, <1>10, NextAddrType DEF SwSetFails, Adding, Flushing, Idle
  <2>2. /\ \A b \in Writable : b # NextAddr => mem'[b] = mem[b]
        /\ mem' = mem \/ NextAddr \in DOMAIN sw \/ NextAddr \in astray'
    BY <1>0, <1>10 DEF SwSetFails, Planted, Shapes
  <2>3. RamInv'
    BY <2>1, <2>2
       DEF TransparentInv, RamInv, RemembersCode, NoOrphanBkpt, Transparent, Filtered
  <2> QED
    BY <1>7, <2>1, <2>3
<1>11. CASE HwSetFails
  BY <1>1, <1>11 DEF HwSetFails, Raise, Idle
<1>12. CASE FlushEnd
  BY <1>1, <1>12 DEF FlushEnd, Flushing, Idle
<1>13. CASE ResetAndHalt
  BY <1>1, <1>13 DEF ResetAndHalt, StartRemoveAll, Flushing, Idle
<1>14. CASE Disconnect
  BY <1>1, <1>14 DEF Disconnect, StartRemoveAll, Flushing, Idle
<1>15. ASSUME live' = <<>>, removed' = {}, UNCHANGED <<ram, image, astray>>
       PROVE  TransparentInv'
  <2>1. Entries(live') = {} /\ Keyed(live')
    BY <1>15 DEF Entries, Keyed
  <2>2. RamInv'
    BY <1>15 DEF TransparentInv, RamInv, RemembersCode, NoOrphanBkpt, Transparent, Filtered
  <2> QED
    BY <1>0, <1>15, <2>1, <2>2
       DEF TransparentInv, BackedInv, Backed, KeysDiffer, Idle
<1>16. CASE ResetEnd \/ ResetRaises
  BY <1>15, <1>16 DEF ResetEnd, ResetRaises
<1>17. CASE DisconnectResume
  BY <1>15, <1>17 DEF DisconnectResume
<1>18. CASE DisconnectEnd
  BY <1>15, <1>18 DEF DisconnectEnd
<1>19. CASE Reset
  BY <1>0, <1>1, <1>19 DEF Reset, Idle
<1>20. CASE EmulatedReset
  BY <1>0, <1>1, <1>20, ListsType DEF EmulatedReset, StartFlush, Flushing, Idle
<1>21. CASE CoreHalts
  BY <1>0, <1>1, <1>21 DEF CoreHalts, Idle
<1>22. ASSUME NEW a \in Addr, NEW v \in Code, WriteMemory(a, v)
       PROVE  TransparentInv'
  <2>1. /\ a \in Writable /\ UNCHANGED <<live, removed, sw, pc>>
        /\ mem'[a] = v /\ image'[a] = v
        /\ \A b \in Writable : b # a => mem'[b] = mem[b] /\ image'[b] = image[b]
        /\ astray' = IF a \in DOMAIN sw THEN astray \cup {a} ELSE astray \ {a}
    BY <1>0, <1>22 DEF WriteMemory, Shapes
  <2>2. RamInv'
    <3>1. RemembersCode'
      BY <2>1 DEF TransparentInv, RamInv, RemembersCode
    <3>2. NoOrphanBkpt'
      BY <2>1, BkptAssumption DEF TransparentInv, RamInv, NoOrphanBkpt
    <3>3. Transparent'
      BY <2>1 DEF TransparentInv, RamInv, Transparent, Filtered
    <3> QED
      BY <3>1, <3>2, <3>3 DEF RamInv
  <2>3. \A b \in DOMAIN sw' \ astray' : b \in DOMAIN sw \ astray /\ sw'[b] = sw[b]
    BY <2>1
  <2>4. Idle'
    BY <1>0, <2>1 DEF Idle
  <2> QED
    BY <1>7, <2>1, <2>2, <2>3, <2>4
<1>23. CASE UNCHANGED vars
  BY <1>0, <1>1, <1>23 DEF vars, Idle
<1>24. CASE Closed
  BY <1>23, <1>24 DEF Closed
<1> QED
  BY <1>2, <1>3, <1>4, <1>5, <1>6, <1>8, <1>9, <1>10, <1>11, <1>12, <1>13, <1>14,
     <1>16, <1>17, <1>18, <1>19, <1>20, <1>21, <1>22, <1>23, <1>24 DEF Next

(* In every execution what clients see of RAM is right, and backed.        *)
THEOREM TransparentInvariant == Spec => []TransparentInv
BY InitTransparent, StepTransparent, PTL DEF Spec

(* Type correctness of the breakpoint manager and its providers: also that *)
(* a provider never takes a planted BKPT for an instruction of the program *)
(* where it knows what is planted.                                         *)
THEOREM TypeCorrect == Spec => []TypeOK
<1>1. TransparentInv => TypeOK
  BY DEF TransparentInv, TypeInv, RamInv, TypeOK
<1> QED
  BY TransparentInvariant, <1>1, PTL

(* Every BKPT in RAM is known to the software provider, whatever accesses  *)
(* fail and cut a flush, a reset or a disconnect short, except where a set *)
(* failed after it planted one.                                            *)
THEOREM NoOrphan == Spec => []NoOrphanBkpt
<1>1. TransparentInv => NoOrphanBkpt
  BY DEF TransparentInv, RamInv
<1> QED
  BY TransparentInvariant, <1>1, PTL

(* Code read through the core is what was last written, whatever accesses  *)
(* of either provider fail and however flushes, resets and disconnects     *)
(* follow one another, except at the addresses that the history marks.     *)
THEOREM TransparentAlways == Spec => []Transparent
<1>1. TransparentInv => Transparent
  BY DEF TransparentInv, RamInv
<1> QED
  BY TransparentInvariant, <1>1, PTL

-----------------------------------------------------------------------------
(* The target is in step with the manager                                  *)

(* The breakpoints the providers keep: the live ones, or while everything  *)
(* is taken away those that are still to be removed.                       *)
Held == IF pc \in {"reset", "disconnect"} THEN removed ELSE Entries(live)

(* No access has failed, and no flush has reused a comparator object that  *)
(* it was still to walk over.                                              *)
Calm == (\A p \in Provider : faults[p] = 0) /\ ~aliased

(* A comparator is on for just one held breakpoint, at its key.            *)
HwFits ==
  /\ \A i \in Comp :
       IF comps[i].on THEN [key |-> comps[i].addr, bp |-> Hw(i)] \in Held
                      ELSE comps[i].reg = NoAddr
  /\ \A e \in Held : e.bp.kind = "hw" => /\ comps[e.bp.comp].on
                                         /\ comps[e.bp.comp].addr = e.key

(* The registers of the comparators that are on have their addresses, and  *)
(* the FPB is on when there is one.                                        *)
UnitFits ==
  /\ \A i \in Comp : comps[i].on => comps[i].reg = comps[i].addr /\ fpbOn
  /\ fpbOn => hwOn

(* The software provider knows just the held software breakpoints, and     *)
(* there is a BKPT at each that no client has written over.                *)
SwFits ==
  /\ \A e \in Held : e.bp.kind \in {"hw", "sw"}
  /\ DOMAIN sw = {e.key : e \in {x \in Held : x.bp.kind = "sw"}}
  /\ \A a \in DOMAIN sw \ astray : mem[a] = BKPT

(* What clients ask for, or what a flush has still to look at of it, is    *)
(* filed under its own address.                                            *)
Ahead == IF pc \in Flushing THEN added ELSE DOMAIN updated
DictsFit ==
  /\ Keyed(updated)
  /\ \A i \in Ahead : BpAddr(updated[i].bp) = updated[i].key

(* A flush has still to remove live breakpoints that were not asked for    *)
(* any more, and to add new ones.                                          *)
ListsFit ==
  pc \in Flushing =>
    /\ removed \subseteq Entries(live)
    /\ \A e \in Entries(live) : e \in removed <=> e.key \notin Keys(updated)
    /\ \A i \in added : updated[i].key \notin Keys(live)

Fits == HwFits /\ SwFits /\ DictsFit /\ ListsFit

ExactInv ==
  /\ TransparentInv
  /\ Calm => Fits /\ (~unitOff => UnitFits)

(* Of a dict with one entry for each key, all but one remain when its key  *)
(* is deleted.                                                             *)
LEMMA DelEntries ==
  ASSUME NEW d \in Seq(Entry), Keyed(d), NEW e \in Entries(d)
  PROVE  Entries(Del(d, e.key)) = Entries(d) \ {e}
<1>1. e.key \in Keys(d)
  BY DEF Entries, Keys
<1> DEFINE n == Position(d, e.key)
           rest == Del(d, e.key)
           from(i) == IF i < n THEN i ELSE i + 1
<1>2. n \in 1..Len(d) /\ d[n].key = e.key
  BY <1>1 DEF Keys, Position
<1>3. d[n] = e
  BY <1>2 DEF Keyed, Entries
<1>4. rest = [i \in 1..(Len(d) - 1) |-> d[from(i)]]
  BY <1>1 DEF Del
<1> HIDE DEF n, rest
<1>5. \A i \in 1..(Len(d) - 1) : from(i) \in DOMAIN d /\ from(i) # n
  BY <1>2
<1>6. \A j \in DOMAIN d : j # n => \E i \in 1..(Len(d) - 1) : from(i) = j
  <2> SUFFICES ASSUME NEW j \in 1..Len(d), j # n
               PROVE  \E i \in 1..(Len(d) - 1) : from(i) = j
    OBVIOUS
  <2>1. CASE j < n
    <3>1. j \in 1..(Len(d) - 1) /\ from(j) = j
      BY <1>2, <2>1
    <3> QED
      BY <3>1
  <2>2. CASE j > n
    <3>1. j - 1 \in 1..(Len(d) - 1) /\ from(j - 1) = j
      BY <1>2, <2>2
    <3> QED
      BY <3>1
  <2> QED
    BY <1>2, <2>1, <2>2
<1> HIDE DEF from
<1>7. ASSUME NEW x \in Entries(d), x # e
      PROVE  x \in Entries(rest)
  <2>1. PICK j \in DOMAIN d : d[j] = x
    BY DEF Entries
  <2>2. j # n
    BY <1>3, <1>7, <2>1
  <2>3. PICK i \in 1..(Len(d) - 1) : from(i) = j
    BY <1>6, <2>2
  <2> QED
    BY <1>4, <2>1, <2>3 DEF Entries
<1>8. ASSUME NEW x \in Entries(rest)
      PROVE  x \in Entries(d) /\ x # e
  <2>1. PICK i \in 1..(Len(d) - 1) : x = d[from(i)]
    BY <1>4 DEF Entries
  <2>2. d[from(i)] # e
    BY <1>2, <1>3, <1>5 DEF Keyed
  <2> QED
    BY <1>5, <2>1, <2>2 DEF Entries
<1> QED
  BY <1>7, <1>8 DEF rest

(* A breakpoint filed under a new key is one more.                         *)
LEMMA PutEntries ==
  ASSUME NEW d \in Seq(Entry), NEW k \in Addr, NEW bp \in Breakpoint, k \notin Keys(d)
  PROVE  /\ Entries(Put(d, k, bp)) = Entries(d) \cup {[key |-> k, bp |-> bp]}
         /\ Keys(Put(d, k, bp)) = Keys(d) \cup {k}
<1>1. Put(d, k, bp) = Append(d, [key |-> k, bp |-> bp])
  BY DEF Put
<1> QED
  BY <1>1 DEF Entries, Keys

(* So it is with one that is appended.                                     *)
LEMMA AppendKeys ==
  ASSUME NEW S, NEW d \in Seq(S), NEW k, NEW bp
  PROVE  Keys(Append(d, [key |-> k, bp |-> bp])) = Keys(d) \cup {k}
<1> DEFINE new == [key |-> k, bp |-> bp]
           e == Append(d, new)
<1>1. /\ DOMAIN e = DOMAIN d \cup {Len(d) + 1} /\ e[Len(d) + 1] = new
      /\ \A i \in DOMAIN d : e[i] = d[i]
  OBVIOUS
<1>2. new.key = k
  OBVIOUS
<1> HIDE DEF new, e
<1>3. Keys(e) = Keys(d) \cup {k}
  BY <1>1, <1>2 DEF Keys
<1> QED
  BY <1>3 DEF e, new

(* The keys of a dict are those of its entries.                            *)
LEMMA KeysOfEntries ==
  ASSUME NEW d
  PROVE  Keys(d) = {e.key : e \in Entries(d)}
BY DEF Keys, Entries

(* A held breakpoint is one of a provider, at the address of its key, and  *)
(* there is one for each key.                                              *)
LEMMA HeldType ==
  ASSUME ExactInv, Calm
  PROVE  /\ Held \subseteq Entry /\ KeysDiffer(Held) /\ Backed(Held)
         /\ \A e \in Held : BpAddr(e.bp) = e.key /\ e.key \in Addr
<1>1. /\ live \in Seq(Entry) /\ removed \subseteq Entry /\ KeysDiffer(removed)
      /\ Keyed(live) /\ Backed(removed) /\ Backed(Entries(live)) /\ HwFits /\ SwFits
  BY DEF ExactInv, TransparentInv, TypeInv, Shapes, BackedInv, Fits
<1>2. KeysDiffer(Entries(live)) /\ Entries(live) \subseteq Entry
  BY <1>1, KeyedEntries, EntriesType
<1>3. Held \subseteq Entry /\ KeysDiffer(Held) /\ Backed(Held)
  BY <1>1, <1>2 DEF Held
<1>4. ASSUME NEW e \in Held
      PROVE  BpAddr(e.bp) = e.key /\ e.key \in Addr
  <2>1. e.key \in Addr
    BY <1>3, <1>4 DEF Entry
  <2>2. CASE e.bp.kind = "hw"
    BY <1>1, <2>1, <2>2 DEF HwFits, BpAddr
  <2>3. CASE e.bp.kind = "sw"
    BY <1>3, <2>1, <2>3 DEF Backed, BpAddr
  <2> QED
    BY <1>1, <2>2, <2>3 DEF SwFits
<1> QED
  BY <1>3, <1>4

(* Nothing changes in the providers as long as they keep the same.         *)
LEMMA FitsKept ==
  ASSUME HwFits, SwFits, Held' = Held, UNCHANGED <<comps, sw>>, astray \subseteq astray',
         \A a \in DOMAIN sw \ astray' : mem'[a] = mem[a]
  PROVE  HwFits' /\ SwFits'
BY DEF HwFits, SwFits

(* What the clients ask for stays filed under its own address while the    *)
(* comparators keep theirs.                                                *)
LEMMA DictsKept ==
  ASSUME TypeInv, DictsFit, updated' = updated, Ahead' \subseteq Ahead,
         \A i \in Comp : comps'[i].addr = comps[i].addr
  PROVE  DictsFit'
<1>1. Keyed(updated')
  BY DEF DictsFit
<1>2. ASSUME NEW i \in Ahead'
      PROVE  BpAddr(updated[i].bp)' = updated'[i].key
  <2>1. updated[i] \in Entry /\ i \in Ahead
    BY DEF TypeInv, Shapes, Ahead
  <2>2. BpAddr(updated[i].bp) = updated[i].key
    BY <2>1 DEF DictsFit
  <2>3. updated[i].bp.kind = "hw" => updated[i].bp.comp \in Comp
    BY <2>1 DEF Entry, Breakpoint, New, Hw, Sw
  <2> QED
    BY <2>2, <2>3 DEF BpAddr
<1> QED
  BY <1>1, <1>2 DEF DictsFit

(* Removing a held breakpoint through its provider leaves the others.      *)
LEMMA RemovedFits ==
  ASSUME ExactInv, Calm, NEW e \in Held, ProviderRemove(e.bp), Held' = Held \ {e},
         UNCHANGED <<astray, unitOff>>
  PROVE  /\ HwFits' /\ SwFits' /\ (~unitOff' => UnitFits')
         /\ \A i \in Comp : comps'[i].addr = comps[i].addr
<1> USE DEF fpb, ram
<1>0. /\ HwFits /\ SwFits /\ e \in Entry /\ KeysDiffer(Held) /\ Backed(Held)
      /\ BpAddr(e.bp) = e.key /\ Shapes /\ (~unitOff => UnitFits)
      /\ Held \subseteq Entry
  BY HeldType DEF ExactInv, TransparentInv, TypeInv, Fits
<1>1. CASE e.bp.kind = "hw" /\ HwRemove(BpAddr(e.bp)) /\ UNCHANGED ram
  <2> DEFINE i == e.bp.comp
  <2>1. i \in Comp /\ e = [key |-> e.key, bp |-> Hw(i)] /\ e.bp = Hw(i)
    BY <1>0, <1>1 DEF Entry, Breakpoint, New, Hw, Sw
  <2>2. comps[i].on /\ comps[i].addr = e.key
    BY <1>0, <1>1 DEF HwFits
  <2>3. Matching(e.key) = {i}
    <3>1. i \in Matching(e.key)
      BY <2>1, <2>2 DEF Matching
    <3>2. ASSUME NEW j \in Matching(e.key)
          PROVE  j = i
      <4>1. j \in Comp /\ [key |-> e.key, bp |-> Hw(j)] \in Held
        BY <1>0, <3>2 DEF Matching, HwFits
      <4>2. [key |-> e.key, bp |-> Hw(j)] = e
        BY <1>0, <4>1 DEF KeysDiffer
      <4>3. Hw(j) = Hw(i)
        BY <2>1, <4>2
      <4> QED
        BY <4>3 DEF Hw
    <3> QED
      BY <3>1, <3>2
  <2>4. FirstOf(Matching(e.key)) = i
    BY <2>1, <2>3 DEF FirstOf, Comp
  <2>5. /\ comps' = [comps EXCEPT ![i].on = FALSE, ![i].reg = NoAddr]
        /\ UNCHANGED <<fpbOn, hwOn, sw, mem>>
    BY <1>0, <1>1, <2>1, <2>3, <2>4 DEF HwRemove
  <2> HIDE DEF i
  <2>6. /\ ~comps'[i].on /\ comps'[i].reg = NoAddr /\ comps'[i].addr = comps[i].addr
        /\ \A j \in Comp : j # i => comps'[j] = comps[j]
    BY <1>0, <2>1, <2>5 DEF Shapes
  <2>7. HwFits'
    <3>1. ASSUME NEW j \in Comp, comps'[j].on
          PROVE  [key |-> comps'[j].addr, bp |-> Hw(j)] \in Held'
      <4>1. j # i /\ comps'[j] = comps[j]
        BY <2>6, <3>1
      <4>2. [key |-> comps[j].addr, bp |-> Hw(j)] # e
        BY <2>1, <4>1 DEF Hw
      <4> QED
        BY <1>0, <3>1, <4>1, <4>2 DEF HwFits
    <3>2. ASSUME NEW j \in Comp, ~comps'[j].on
          PROVE  comps'[j].reg = NoAddr
      BY <1>0, <2>6, <3>2 DEF HwFits
    <3>3. ASSUME NEW x \in Held', x.bp.kind = "hw"
          PROVE  comps'[x.bp.comp].on /\ comps'[x.bp.comp].addr = x.key
      <4>1. x \in Held /\ x # e /\ x \in Entry
        BY <1>0
      <4>2. x.bp.comp \in Comp /\ x = [key |-> x.key, bp |-> Hw(x.bp.comp)]
        BY <3>3, <4>1 DEF Entry, Breakpoint, New, Hw, Sw
      <4>3. comps[x.bp.comp].on /\ comps[x.bp.comp].addr = x.key
        BY <1>0, <3>3, <4>1 DEF HwFits
      <4>4. x.bp.comp # i
        BY <2>1, <2>2, <4>1, <4>2, <4>3
      <4> QED
        BY <2>6, <4>2, <4>3, <4>4
    <3> QED
      BY <3>1, <3>2, <3>3 DEF HwFits
  <2>8. SwFits'
    BY <1>0, <1>1, <2>5 DEF SwFits
  <2>9. ~unitOff' => UnitFits'
    BY <1>0, <2>5, <2>6 DEF UnitFits
  <2> QED
    BY <2>6, <2>7, <2>8, <2>9
<1>2. CASE e.bp.kind = "sw" /\ SwRemove(e.bp) /\ UNCHANGED fpb
  <2>1. e.bp.addr = e.key /\ e.key \in DOMAIN sw
    BY <1>0, <1>2 DEF Backed, SwFits
  <2>2. /\ DOMAIN sw' = DOMAIN sw \ {e.key}
        /\ \A a \in DOMAIN sw' : mem'[a] = mem[a]
    BY <1>0, <1>2, <2>1 DEF SwRemove, Shapes
  <2>3. HwFits'
    <3>1. ASSUME NEW j \in Comp, comps[j].on
          PROVE  [key |-> comps[j].addr, bp |-> Hw(j)] \in Held'
      <4>1. [key |-> comps[j].addr, bp |-> Hw(j)] # e
        BY <1>2 DEF Hw
      <4> QED
        BY <1>0, <3>1, <4>1 DEF HwFits
    <3> QED
      BY <1>0, <1>2, <3>1 DEF HwFits
  <2>4. DOMAIN sw' = {x.key : x \in {y \in Held' : y.bp.kind = "sw"}}
    <3>1. ASSUME NEW x \in Held', x.bp.kind = "sw"
          PROVE  x.key \in DOMAIN sw'
      <4>1. x \in Held /\ x.key # e.key
        BY <1>0 DEF KeysDiffer
      <4> QED
        BY <1>0, <2>2, <3>1, <4>1 DEF SwFits
    <3>2. ASSUME NEW a \in DOMAIN sw'
          PROVE  \E x \in Held' : x.bp.kind = "sw" /\ x.key = a
      <4>1. a \in DOMAIN sw /\ a # e.key
        BY <2>2
      <4>2. PICK x \in Held : x.bp.kind = "sw" /\ x.key = a
        BY <1>0, <4>1 DEF SwFits
      <4> QED
        BY <4>1, <4>2
    <3> QED
      BY <3>1, <3>2
  <2>5. SwFits'
    BY <1>0, <2>2, <2>4 DEF SwFits
  <2>6. ~unitOff' => UnitFits'
    BY <1>0, <1>2 DEF UnitFits
  <2> QED
    BY <1>2, <2>3, <2>5, <2>6
<1> QED
  BY <1>1, <1>2 DEF ProviderRemove

(* The target is in step at the start.                                     *)
LEMMA ExactInit == Init => ExactInv
<1> SUFFICES ASSUME Init PROVE ExactInv
  OBVIOUS
<1>1. /\ live = <<>> /\ updated = <<>> /\ pc = "idle"
      /\ \A i \in Comp : ~comps[i].on /\ comps[i].reg = NoAddr
      /\ fpbOn = FALSE /\ DOMAIN sw = {}
  BY DEF Init
<1>2. Held = {} /\ DOMAIN updated = {} /\ pc \notin Flushing
  BY <1>1 DEF Held, Entries, Flushing
<1>3. HwFits /\ SwFits /\ UnitFits
  BY <1>1, <1>2 DEF HwFits, SwFits, UnitFits
<1>4. DictsFit /\ ListsFit
  BY <1>2 DEF DictsFit, ListsFit, Keyed, Ahead
<1> QED
  BY <1>3, <1>4, InitTransparent DEF ExactInv, Fits

(* A step does not lead back to where all accesses have succeeded and no   *)
(* comparator was reused.                                                  *)
LEMMA CalmBefore ==
  ASSUME ExactInv, [Next]_vars, Calm'
  PROVE  /\ Calm /\ UNCHANGED <<faults, aliased>>
         /\ ~SwSetFails /\ ~HwSetFails
         /\ \A e \in removed : ~SwRemoveFails(e) /\ ~HwRemoveFails(e)
<1> USE DEF dicts, fpb, ram, work, marks
<1>0. TypeInv /\ faults \in [Provider -> Nat]
  BY BkptAssumption DEF ExactInv, TransparentInv, TypeInv, Shapes
<1>1. ASSUME NEW p \in Provider, Fail(p)
      PROVE  FALSE
  <2>1. faults'[p] = faults[p] + 1
    BY <1>0, <1>1, FailType
  <2> QED
    BY <1>0, <2>1 DEF Calm
<1>2. "HW" \in Provider /\ "SW" \in Provider
  BY DEF Provider
<1>3. /\ ~SwSetFails /\ ~HwSetFails
      /\ \A e \in removed : ~SwRemoveFails(e) /\ ~HwRemoveFails(e)
  BY <1>1, <1>2 DEF SwSetFails, HwSetFails, SwRemoveFails, HwRemoveFails
<1>4. faults' = faults
  BY <1>3 DEF Next, SetBreakpoint, RemoveBreakpoint, Resume, Step, OtherCoreRuns,
         RemoveOne, RemoveUnknown, AddOne, FlushEnd, ResetAndHalt, StartRemoveAll,
         ResetEnd, ResetRaises, Disconnect, DisconnectResume, DisconnectEnd, Reset,
         EmulatedReset, CoreHalts, WriteMemory, Closed, vars
<1>5. aliased' = (aliased \/ Retakes(NextAddr)) \/ aliased' = aliased
  BY <1>3 DEF Next, SetBreakpoint, RemoveBreakpoint, Resume, Step, OtherCoreRuns,
         RemoveOne, RemoveUnknown, AddOne, FlushEnd, ResetAndHalt, StartRemoveAll,
         ResetEnd, ResetRaises, Disconnect, DisconnectResume, DisconnectEnd, Reset,
         EmulatedReset, CoreHalts, WriteMemory, Closed, vars
<1>6. aliased \in BOOLEAN /\ ~aliased'
  BY <1>0 DEF TypeInv, Shapes, Calm
<1> QED
  BY <1>3, <1>4, <1>5, <1>6 DEF Calm

(* The breakpoint to be added next is filed under its own address, where   *)
(* none is live.                                                           *)
LEMMA NextIsNew ==
  ASSUME ExactInv, Calm, pc \in Flushing, added # {}
  PROVE  /\ FirstOf(added) \in added /\ FirstOf(added) \in DOMAIN updated
         /\ NextAddr = updated[FirstOf(added)].key
         /\ NextAddr \in Addr /\ NextAddr \notin Keys(live)
<1>1. /\ FirstOf(added) \in added /\ FirstOf(added) \in DOMAIN updated
      /\ updated \in Seq(Entry)
  <2>1. /\ updated \in Seq(Entry) /\ added \subseteq DOMAIN updated
        /\ added \in SUBSET Nat
    BY DEF ExactInv, TransparentInv, TypeInv, Shapes
  <2> QED
    BY <2>1, FirstOfIn
<1>2. updated[FirstOf(added)] \in Entry
  BY <1>1
<1>3. NextAddr = updated[FirstOf(added)].key
  BY <1>1 DEF ExactInv, Fits, DictsFit, Ahead, NextAddr
<1>4. updated[FirstOf(added)].key \notin Keys(live)
  BY <1>1 DEF ExactInv, Fits, ListsFit
<1> QED
  BY <1>1, <1>2, <1>3, <1>4 DEF Entry

(* Setting a breakpoint at a free address through its provider adds it to  *)
(* the held ones.                                                          *)
LEMMA HwAddedFits ==
  ASSUME ExactInv, Calm, NEW a \in Addr, NEW i \in Free, EnableFpb,
         comps' = [comps EXCEPT ![i] = [on |-> TRUE, addr |-> a, reg |-> a]],
         UNCHANGED <<ram, astray, unitOff>>, \A e \in Held : e.key # a,
         Held' = Held \cup {[key |-> a, bp |-> Hw(i)]}
  PROVE  HwFits' /\ SwFits' /\ (~unitOff' => UnitFits')
<1> USE DEF ram
<1>0. /\ HwFits /\ SwFits /\ Held \subseteq Entry /\ Shapes /\ i \in Comp
      /\ (~unitOff => UnitFits)
  BY HeldType DEF ExactInv, TransparentInv, TypeInv, Free, Fits
<1>1. /\ comps'[i] = [on |-> TRUE, addr |-> a, reg |-> a]
      /\ \A j \in Comp : j # i => comps'[j] = comps[j]
  BY <1>0 DEF Shapes
<1>2. ~unitOff' => UnitFits'
  <2>1. ASSUME NEW j \in Comp, comps'[j].on, ~unitOff
        PROVE  comps'[j].reg = comps'[j].addr
    BY <1>0, <1>1, <2>1 DEF UnitFits
  <2> QED
    BY <1>0, <2>1 DEF EnableFpb, UnitFits, Shapes
<1>3. ASSUME NEW x \in Held', x.bp.kind = "hw"
      PROVE  comps'[x.bp.comp].on /\ comps'[x.bp.comp].addr = x.key
  <2>1. CASE x = [key |-> a, bp |-> Hw(i)]
    BY <1>1, <2>1 DEF Hw
  <2>2. CASE x \in Held
    <3>1. x.bp.comp \in Comp
      BY <1>0, <1>3, <2>2 DEF Entry, Breakpoint, New, Hw, Sw
    <3>2. comps[x.bp.comp].on /\ comps[x.bp.comp].addr = x.key
      BY <1>0, <1>3, <2>2 DEF HwFits
    <3>3. x.bp.comp # i
      BY <3>2 DEF Free
    <3> QED
      BY <1>1, <3>1, <3>2, <3>3
  <2> QED
    BY <1>3, <2>1, <2>2
<1>4. ASSUME NEW j \in Comp
      PROVE  IF comps'[j].on THEN [key |-> comps'[j].addr, bp |-> Hw(j)] \in Held'
                             ELSE comps'[j].reg = NoAddr
  <2>1. CASE j = i
    BY <1>1, <2>1
  <2>2. CASE j # i
    BY <1>0, <1>1, <2>2 DEF HwFits
  <2> QED
    BY <2>1, <2>2
<1>5. HwFits'
  BY <1>3, <1>4 DEF HwFits
<1>6. SwFits'
  BY <1>0 DEF SwFits, Hw
<1> QED
  BY <1>2, <1>5, <1>6

(* The same of a software breakpoint.                                      *)
LEMMA SwAddedFits ==
  ASSUME ExactInv, Calm, NEW a \in Writable, SwSet(a), UNCHANGED <<fpb, astray, unitOff>>,
         Held' = Held \cup {[key |-> a, bp |-> Sw(a, Filtered(a))]}
  PROVE  HwFits' /\ SwFits' /\ (~unitOff' => UnitFits')
<1> USE DEF fpb
<1>0. HwFits /\ SwFits /\ Shapes /\ (~unitOff => UnitFits)
  BY DEF ExactInv, TransparentInv, TypeInv, Fits
<1>1. HwFits'
  BY <1>0 DEF HwFits, Sw
<1>2. /\ DOMAIN sw' = DOMAIN sw \cup {a}
      /\ mem'[a] = BKPT /\ \A b \in Writable : b # a => mem'[b] = mem[b]
  BY <1>0 DEF SwSet, Shapes, Planted
<1>3. \A e \in Held' : e.bp.kind \in {"hw", "sw"}
  BY <1>0 DEF SwFits, Sw
<1>4. DOMAIN sw' = {e.key : e \in {x \in Held' : x.bp.kind = "sw"}}
  <2> DEFINE new == [key |-> a, bp |-> Sw(a, Filtered(a))]
             Of(es) == {e.key : e \in {x \in es : x.bp.kind = "sw"}}
  <2>1. new.bp.kind = "sw" /\ new.key = a
    BY DEF Sw
  <2> HIDE DEF new
  <2>2. Of(Held \cup {new}) = Of(Held) \cup {a}
    BY <2>1
  <2>3. Of(Held) = DOMAIN sw
    BY <1>0 DEF SwFits
  <2> QED
    BY <1>2, <2>2, <2>3 DEF new
<1>5. \A b \in DOMAIN sw' \ astray' : mem'[b] = BKPT
  BY <1>0, <1>2 DEF SwFits, Shapes
<1>6. SwFits'
  BY <1>3, <1>4, <1>5 DEF SwFits
<1>7. ~unitOff' => UnitFits'
  BY <1>0 DEF UnitFits
<1> QED
  BY <1>1, <1>6, <1>7

(* One iteration of the adding loop.                                       *)
LEMMA AddOneExact ==
  ASSUME ExactInv, Calm, AddOne, Calm'
  PROVE  Fits' /\ (~unitOff' => UnitFits')
<1> USE DEF fpb, ram
<1> DEFINE a == NextAddr
           n == FirstOf(added)
<1>1. /\ pc \in Flushing /\ pc' = pc /\ removed = {} /\ removed' = {}
      /\ added # {} /\ added' = added \ {n} /\ updated' = updated
      /\ UNCHANGED <<astray, unitOff>>
  BY DEF AddOne, Adding
<1>2. /\ n \in added /\ n \in DOMAIN updated /\ a = updated[n].key
      /\ a \in Addr /\ a \notin Keys(live)
  BY <1>1, NextIsNew
<1>3. /\ HwFits /\ SwFits /\ DictsFit /\ ListsFit /\ Shapes /\ TypeInv
      /\ (~unitOff => UnitFits)
      /\ live \in Seq(Entry) /\ updated \in Seq(Entry) /\ added \subseteq DOMAIN updated
  BY <1>1 DEF ExactInv, TransparentInv, TypeInv, Shapes, Fits
<1>4. Held = Entries(live) /\ Held' = Entries(live') /\ Ahead = added /\ Ahead' = added'
  BY <1>1 DEF Held, Flushing, Ahead
<1>5. \A e \in Held : e.key # a
  BY <1>2, <1>4 DEF Entries, Keys
<1>6. a \in Keys(updated) /\ \A i \in added' : updated[i].key # a
  BY <1>1, <1>2, <1>3 DEF Keys, DictsFit, Keyed
<1>6a. ASSUME \A i \in Comp : comps'[i].addr = comps[i].addr
       PROVE  DictsFit'
  BY <1>1, <1>3, <1>4, <1>6a, DictsKept
<1>6b. aliased' = FALSE
  BY DEF Calm, ExactInv, TransparentInv, TypeInv, Shapes, AddOne
<1> HIDE DEF a, n
<1>7. ASSUME live' = live
      PROVE  ListsFit'
  BY <1>1, <1>3, <1>7 DEF ListsFit
<1>8. ASSUME NEW bp \in Breakpoint, live' = Put(live, a, bp)
      PROVE  /\ Entries(live') = Entries(live) \cup {[key |-> a, bp |-> bp]}
             /\ ListsFit'
  <2>1. /\ Entries(live') = Entries(live) \cup {[key |-> a, bp |-> bp]}
        /\ Keys(live') = Keys(live) \cup {a}
    BY <1>2, <1>3, <1>8, PutEntries
  <2>2. ListsFit'
    BY <1>1, <1>3, <1>6, <2>1 DEF ListsFit
  <2> QED
    BY <2>1, <2>2
<1>9. CASE UNCHANGED <<live, ram>> /\ UNCHANGED fpb
  <2>1. HwFits' /\ SwFits'
    BY <1>1, <1>3, <1>4, <1>9, FitsKept
  <2>2. ~unitOff' => UnitFits'
    BY <1>1, <1>3, <1>9 DEF UnitFits
  <2> QED
    BY <1>6a, <1>7, <1>9, <2>1, <2>2 DEF Fits
<1>10. CASE /\ NextType = "HW" /\ HwSet(a) /\ UNCHANGED ram
            /\ aliased' = (aliased \/ Retakes(a))
  <2>1. CASE FindsFree(a)
    <3> DEFINE i == FirstOf(Free)
    <3>1. Free \in SUBSET Nat /\ Free \subseteq Comp /\ Free # {}
      BY <2>1, BkptAssumption DEF Free, Comp, FindsFree
    <3>2. i \in Free /\ i \in Comp
      BY <3>1, FirstOfIn
    <3>3. /\ EnableFpb /\ live' = Put(live, a, Hw(i))
          /\ comps' = [comps EXCEPT ![i] = [on |-> TRUE, addr |-> a, reg |-> a]]
      BY <1>10, <2>1 DEF HwSet
    <3>4. Hw(i) \in Breakpoint
      BY <3>2 DEF Breakpoint
    <3>5. ASSUME NEW k \in added'
          PROVE  ~(updated[k].bp.kind = "hw" /\ updated[k].bp.comp = i)
      <4>1. k \in added \ {n} /\ BpAddr(updated[k].bp) = updated[k].key
            /\ updated[k].key # a
        BY <1>1, <1>3, <1>4, <1>6 DEF DictsFit
      <4>2. ~Retakes(a)
        BY <1>6b, <1>10
      <4> QED
        BY <2>1, <4>1, <4>2 DEF Retakes, n
    <3> HIDE DEF i
    <3>6. /\ Entries(live') = Entries(live) \cup {[key |-> a, bp |-> Hw(i)]}
          /\ ListsFit'
      BY <1>8, <3>3, <3>4
    <3>7. HwFits' /\ SwFits' /\ (~unitOff' => UnitFits')
      BY <1>1, <1>2, <1>4, <1>5, <1>10, <3>2, <3>3, <3>6, HwAddedFits
    <3>8. \A j \in Comp : j # i => comps'[j] = comps[j]
      BY <1>3, <3>2, <3>3 DEF Shapes
    <3>9. ASSUME NEW k \in Ahead'
          PROVE  BpAddr(updated[k].bp)' = updated'[k].key
      <4>1. updated[k] \in Entry /\ k \in Ahead /\ k \in added'
        BY <1>1, <1>3, <1>4
      <4>2. BpAddr(updated[k].bp) = updated[k].key
        BY <1>3, <4>1 DEF DictsFit
      <4>3. updated[k].bp.kind = "hw" => updated[k].bp.comp \in Comp \ {i}
        BY <3>5, <4>1 DEF Entry, Breakpoint, New, Hw, Sw
      <4> QED
        BY <1>1, <3>8, <4>2, <4>3 DEF BpAddr
    <3>10. DictsFit'
      BY <1>1, <1>3, <3>9 DEF DictsFit
    <3> QED
      BY <3>6, <3>7, <3>10 DEF Fits
  <2>2. CASE ~FindsFree(a)
    <3>1. EnableFpb /\ UNCHANGED <<comps, used, live>>
      BY <1>10, <2>2 DEF HwSet
    <3>2. HwFits' /\ SwFits'
      BY <1>1, <1>3, <1>4, <1>10, <3>1, FitsKept
    <3>3. ~unitOff' => UnitFits'
      BY <1>1, <1>3, <3>1 DEF UnitFits, EnableFpb, Shapes
    <3> QED
      BY <1>6a, <1>7, <3>1, <3>2, <3>3 DEF Fits
  <2> QED
    BY <2>1, <2>2
<1>11. CASE NextType = "SW" /\ SwSet(a) /\ UNCHANGED fpb
  <2>1. a \in Writable
    BY <1>11 DEF NextType, SelectType, NextAddr, a
  <2>2. Sw(a, Filtered(a)) \in Breakpoint
    <3>1. Filtered(a) \in Code \cup {BKPT}
      BY <1>3, <2>1 DEF Filtered, Shapes
    <3> QED
      BY <2>1, <3>1 DEF Breakpoint
  <2>3. /\ Entries(live') = Entries(live) \cup {[key |-> a, bp |-> Sw(a, Filtered(a))]}
        /\ ListsFit'
    BY <1>8, <1>11, <2>2 DEF SwSet
  <2>4. HwFits' /\ SwFits' /\ (~unitOff' => UnitFits')
    BY <1>1, <1>4, <1>11, <2>1, <2>3, SwAddedFits
  <2> QED
    BY <1>6a, <1>11, <2>3, <2>4 DEF Fits
<1> QED
  BY <1>9, <1>10, <1>11 DEF AddOne, a

(* One iteration of the removal loops.                                     *)
LEMMA RemoveOneExact ==
  ASSUME ExactInv, Calm, NEW e \in removed, RemoveOne(e)
  PROVE  Fits' /\ (~unitOff' => UnitFits')
<1>1. /\ ProviderRemove(e.bp) /\ Forget(e.bp) /\ removed' = removed \ {e}
      /\ pc' = pc /\ updated' = updated /\ added' = added /\ UNCHANGED <<astray, unitOff>>
  BY DEF RemoveOne, marks
<1>2. /\ HwFits /\ SwFits /\ DictsFit /\ ListsFit /\ Shapes /\ TypeInv
      /\ live \in Seq(Entry) /\ Keyed(live)
      /\ pc \in Flushing \cup {"reset", "disconnect"}
  BY DEF ExactInv, TransparentInv, TypeInv, Shapes, Fits, Idle, BackedInv
<1>3. Ahead' = Ahead
  BY <1>1 DEF Ahead
<1>4. CASE pc \in {"reset", "disconnect"}
  <2>1. Held = removed /\ Held' = removed' /\ pc \notin Flushing /\ pc' \notin Flushing
    BY <1>1, <1>4 DEF Held, Flushing
  <2>2. /\ HwFits' /\ SwFits' /\ (~unitOff' => UnitFits')
        /\ \A i \in Comp : comps'[i].addr = comps[i].addr
    BY <1>1, <2>1, RemovedFits
  <2>3. DictsFit' /\ ListsFit'
    BY <1>1, <1>2, <1>3, <2>1, <2>2, DictsKept DEF ListsFit
  <2> QED
    BY <2>2, <2>3 DEF Fits
<1>5. CASE pc \in Flushing
  <2>1. Held = Entries(live) /\ Held' = Entries(live')
    BY <1>1, <1>5 DEF Held, Flushing
  <2>2. e \in Held /\ BpAddr(e.bp) = e.key
    BY <1>2, <1>5, <2>1, HeldType DEF ListsFit
  <2>3. live' = Del(live, e.key)
    BY <1>1, <1>5, <2>2 DEF Forget
  <2>4. Entries(live') = Entries(live) \ {e}
    BY <1>2, <2>1, <2>2, <2>3, DelEntries
  <2>5. /\ HwFits' /\ SwFits' /\ (~unitOff' => UnitFits')
        /\ \A i \in Comp : comps'[i].addr = comps[i].addr
    BY <1>1, <2>1, <2>2, <2>4, RemovedFits
  <2>6. DictsFit'
    BY <1>1, <1>2, <1>3, <2>5, DictsKept
  <2>7. Keys(live') \subseteq Keys(live)
    <3>1. \A d : Keys(d) = {x.key : x \in Entries(d)}
      BY KeysOfEntries
    <3> QED
      BY <2>4, <3>1
  <2>8. ListsFit'
    BY <1>1, <1>2, <1>5, <2>4, <2>7 DEF ListsFit
  <2> QED
    BY <2>5, <2>6, <2>8 DEF Fits
<1> QED
  BY <1>2, <1>4, <1>5

(* A removal never fails for want of an entry.                             *)
LEMMA NoneUnknown ==
  ASSUME ExactInv, Calm, NEW e \in removed
  PROVE  ~Unknown(e.bp)
<1>1. e \in Held
  <2>1. CASE pc \in {"reset", "disconnect"}
    BY <2>1 DEF Held
  <2>2. CASE pc \in Flushing
    BY <2>2 DEF Held, Flushing, ExactInv, Fits, ListsFit
  <2>3. pc \in {"idle", "reset", "disconnect", "closed"} \cup Flushing
    BY DEF ExactInv, TransparentInv, TypeInv, Shapes
  <2> QED
    BY <2>1, <2>2, <2>3 DEF ExactInv, TransparentInv, Idle
<1>2. Backed(Held) /\ BpAddr(e.bp) = e.key
  BY <1>1, HeldType
<1>3. pc \in Flushing => e.key \in Keys(live)
  BY <1>1 DEF Held, Flushing, Keys, Entries
<1>4. e.bp.kind = "sw" => e.bp.addr \in DOMAIN sw
  BY <1>1, <1>2 DEF Backed, ExactInv, Fits, SwFits
<1> QED
  BY <1>2, <1>3, <1>4 DEF Unknown, NoEntry

(* A flush starts with the lists it has to work off.                       *)
LEMMA StartExact ==
  ASSUME ExactInv, Calm, pc = "idle", pc' \in Flushing,
         UNCHANGED <<dicts, fpb, ram, astray, unitOff>>,
         NEW isStep \in BOOLEAN, StartFlush(isStep)
  PROVE  Fits' /\ (~unitOff' => UnitFits')
<1> USE DEF dicts, fpb, ram
<1>1. HwFits /\ SwFits /\ DictsFit /\ (~unitOff => UnitFits) /\ TypeInv
      /\ updated \in Seq(Entry) /\ pc \notin Flushing
  BY DEF ExactInv, Fits, TransparentInv, TypeInv, Shapes, Flushing
<1>2. Held = Entries(live) /\ Held' = Held
  BY DEF Held, Flushing
<1>3. HwFits' /\ SwFits' /\ (~unitOff' => UnitFits')
  BY <1>1, <1>2, FitsKept DEF UnitFits
<1>4. /\ removed' = {e \in Entries(live) : BpAddr(e.bp) \notin Keys(updated)}
      /\ added' = {i \in DOMAIN updated : BpAddr(updated[i].bp) \notin Keys(live)}
  BY DEF StartFlush, Removed, Added
<1>5. Ahead = DOMAIN updated /\ Ahead' = added'
  BY <1>1 DEF Ahead
<1>6. DictsFit'
  BY <1>1, <1>4, <1>5, DictsKept
<1>7. \A e \in Entries(live) : BpAddr(e.bp) = e.key
  BY <1>2, HeldType
<1>8. \A i \in DOMAIN updated : BpAddr(updated[i].bp) = updated[i].key
  BY <1>1, <1>5 DEF DictsFit
<1>9. ListsFit'
  BY <1>4, <1>7, <1>8 DEF ListsFit
<1> QED
  BY <1>3, <1>6, <1>9 DEF Fits

(* Steps that leave dicts, providers and lists alone.                      *)
LEMMA StayExact ==
  ASSUME ExactInv, Calm, astray \subseteq astray',
         UNCHANGED <<dicts, fpb, sw, pc, removed, added, unitOff>>,
         \A a \in DOMAIN sw \ astray' : mem'[a] = mem[a]
  PROVE  Fits' /\ (~unitOff' => UnitFits')
<1> USE DEF dicts, fpb
<1>1. HwFits /\ SwFits /\ DictsFit /\ ListsFit /\ TypeInv /\ (~unitOff => UnitFits)
  BY DEF ExactInv, Fits, TransparentInv
<1>2. Held' = Held /\ Ahead' = Ahead
  BY DEF Held, Ahead
<1>3. HwFits' /\ SwFits' /\ (~unitOff' => UnitFits')
  BY <1>1, <1>2, FitsKept DEF UnitFits
<1>4. DictsFit'
  BY <1>1, <1>2, DictsKept
<1>5. ListsFit'
  BY <1>1 DEF ListsFit
<1> QED
  BY <1>3, <1>4, <1>5 DEF Fits

(* A reset leaves what the provider keeps as it is, and clears no register *)
(* that was not clear already without being noticed.                       *)
LEMMA ResetExact ==
  ASSUME ExactInv, Calm, FpbAfterReset, UNCHANGED <<sw, mem, updated, astray>>,
         Held' = Held, Ahead' \subseteq Ahead, pc' \notin Flushing
  PROVE  /\ Fits'
         /\ UNCHANGED <<comps, hwOn, fpbOn>> /\ ~unitOff => UnitFits'
<1>1. HwFits /\ SwFits /\ DictsFit /\ TypeInv /\ (~unitOff => UnitFits)
  BY DEF ExactInv, Fits, TransparentInv
<1>2. \A j \in Comp : /\ comps'[j].addr = comps[j].addr
                      /\ comps'[j].on = comps[j].on
                      /\ comps'[j].reg \in {comps[j].reg, NoAddr}
  BY <1>1, FpbAfterResetType
<1>3. HwFits'
  <2>1. ASSUME NEW j \in Comp
        PROVE  IF comps'[j].on THEN [key |-> comps'[j].addr, bp |-> Hw(j)] \in Held'
                               ELSE comps'[j].reg = NoAddr
    BY <1>1, <1>2 DEF HwFits
  <2>2. ASSUME NEW e \in Held', e.bp.kind = "hw"
        PROVE  comps'[e.bp.comp].on /\ comps'[e.bp.comp].addr = e.key
    <3>1. e \in Entry /\ e \in Held
      BY <2>2, HeldType
    <3>2. e.bp.comp \in Comp
      BY <2>2, <3>1 DEF Entry, Breakpoint, New, Hw, Sw
    <3> QED
      BY <1>1, <1>2, <2>2, <3>1, <3>2 DEF HwFits
  <2> QED
    BY <2>1, <2>2 DEF HwFits
<1>4. SwFits'
  BY <1>1 DEF SwFits
<1>5. DictsFit'
  BY <1>1, <1>2, DictsKept
<1>6. ListsFit'
  BY DEF ListsFit
<1>7. UNCHANGED <<comps, hwOn, fpbOn>> /\ ~unitOff => UnitFits'
  BY <1>1 DEF UnitFits
<1> QED
  BY <1>3, <1>4, <1>5, <1>6, <1>7 DEF Fits

(* Each step keeps the target in step with the manager.                    *)
LEMMA ExactStep ==
  ASSUME ExactInv, [Next]_vars
  PROVE  ExactInv'
<1> USE DEF dicts, fpb, ram, work, marks
<1>1. TransparentInv'
  BY StepTransparent DEF ExactInv
<1> SUFFICES ASSUME Calm'
             PROVE  Fits' /\ (~unitOff' => UnitFits')
  BY <1>1 DEF ExactInv
<1>2. /\ Calm /\ UNCHANGED <<faults, aliased>> /\ ~SwSetFails /\ ~HwSetFails
      /\ \A e \in removed : ~SwRemoveFails(e) /\ ~HwRemoveFails(e)
  BY CalmBefore
<1>3. /\ HwFits /\ SwFits /\ DictsFit /\ ListsFit /\ (~unitOff => UnitFits) /\ TypeInv
      /\ live \in Seq(Entry) /\ updated \in Seq(Entry) /\ Keyed(live)
      /\ HwFits /\ Idle
  BY <1>2 DEF ExactInv, Fits, TransparentInv, BackedInv, TypeInv, Shapes
<1>4. ASSUME pc \notin Flushing, pc' \notin Flushing, Held' = Held, DictsFit',
             UNCHANGED <<fpb, ram, astray, unitOff>>
      PROVE  Fits' /\ (~unitOff' => UnitFits')
  <2>1. HwFits' /\ SwFits' /\ (~unitOff' => UnitFits')
    BY <1>3, <1>4, FitsKept DEF UnitFits
  <2> QED
    BY <1>4, <2>1 DEF Fits, ListsFit
<1>5. ASSUME pc \notin Flushing, pc' \notin Flushing, updated' = updated, UNCHANGED comps
      PROVE  DictsFit'
  BY <1>3, <1>5, DictsKept DEF Ahead
<1>6. ASSUME NEW a \in Addr, NEW t \in Type, SetBreakpoint(a, t)
      PROVE  Fits' /\ (~unitOff' => UnitFits')
  <2>1. /\ pc = "idle" /\ pc' = "idle" /\ a \notin Keys(updated)
        /\ UNCHANGED <<live, fpb, ram, removed, astray, unitOff>>
    BY <1>6 DEF SetBreakpoint
  <2>2. Held = Entries(live) /\ Held' = Held /\ pc \notin Flushing
    BY <2>1 DEF Held, Flushing
  <2>3. PICK e \in Entry : /\ updated' = Append(updated, e)
                           /\ e.key = a /\ BpAddr(e.bp) = e.key
    <3>1. CASE a \in Keys(live)
      <4>1. PICK x \in Entries(live) : x.bp = Lookup(live, a) /\ x.key = a
        BY <1>3, <3>1, LookupType
      <4>2. x \in Entry /\ x = [key |-> a, bp |-> Lookup(live, a)]
        BY <1>3, <4>1, EntriesType DEF Entry
      <4>3. BpAddr(x.bp) = x.key
        BY <1>2, <2>2, <4>1, HeldType
      <4> QED
        BY <1>6, <3>1, <4>1, <4>2, <4>3 DEF SetBreakpoint
    <3>2. CASE a \notin Keys(live)
      <4> DEFINE x == [key |-> a, bp |-> New(a, t)]
      <4>1. updated' = Append(updated, x)
        BY <1>6, <3>2 DEF SetBreakpoint
      <4>2. x \in Entry /\ x.key = a /\ BpAddr(x.bp) = x.key
        BY DEF Entry, Breakpoint, New, BpAddr
      <4> QED
        BY <4>1, <4>2
    <3> QED
      BY <3>1, <3>2
  <2>4. \A i \in DOMAIN updated : updated[i].key # a
    BY <2>1 DEF Keys
  <2>5. Keyed(updated')
    BY <1>3, <2>3, <2>4 DEF Keyed, DictsFit
  <2>6. Ahead = DOMAIN updated /\ Ahead' = DOMAIN updated'
    BY <2>1, <2>2 DEF Ahead
  <2>7. ASSUME NEW i \in DOMAIN updated'
        PROVE  BpAddr(updated[i].bp)' = updated'[i].key
    <3>1. CASE i \in DOMAIN updated
      <4>1. updated'[i] = updated[i] /\ BpAddr(updated[i].bp) = updated[i].key
        BY <1>3, <2>3, <2>6, <3>1 DEF DictsFit
      <4> QED
        BY <2>1, <4>1 DEF BpAddr
    <3>2. CASE i \notin DOMAIN updated
      <4>1. updated'[i] = e
        BY <1>3, <2>3, <3>2
      <4> QED
        BY <2>1, <2>3, <4>1 DEF BpAddr
    <3> QED
      BY <3>1, <3>2
  <2>8. DictsFit'
    BY <2>5, <2>6, <2>7 DEF DictsFit
  <2> QED
    BY <1>4, <2>1, <2>2, <2>8
<1>7. ASSUME NEW a \in Addr, RemoveBreakpoint(a)
      PROVE  Fits' /\ (~unitOff' => UnitFits')
  <2>1. /\ pc = "idle" /\ pc' = "idle" /\ updated' = Del(updated, a)
        /\ UNCHANGED <<live, fpb, ram, removed, astray, unitOff>>
    BY <1>7 DEF RemoveBreakpoint
  <2>2. Held' = Held /\ pc \notin Flushing
    BY <2>1 DEF Held, Flushing
  <2>3. Keyed(updated') /\ Entries(updated') \subseteq Entries(updated)
    BY <1>3, <2>1, DelKeyed, DelType DEF DictsFit
  <2>4. Ahead = DOMAIN updated /\ Ahead' = DOMAIN updated'
    BY <2>1, <2>2 DEF Ahead
  <2>5. \A x \in Entries(updated) : BpAddr(x.bp) = x.key
    BY <1>3, <2>4 DEF DictsFit, Entries
  <2>6. DictsFit'
    BY <2>1, <2>3, <2>4, <2>5 DEF DictsFit, Entries, BpAddr
  <2> QED
    BY <1>4, <2>1, <2>2, <2>6
<1>8. CASE Resume
  BY <1>2, <1>8, StartExact DEF Resume, Flushing
<1>9. CASE Step
  BY <1>2, <1>9, StartExact DEF Step, Flushing
<1>10. ASSUME NEW b \in BOOLEAN, OtherCoreRuns(b)
       PROVE  Fits' /\ (~unitOff' => UnitFits')
  BY <1>2, <1>10, StartExact DEF OtherCoreRuns, Flushing
<1>11. ASSUME NEW e \in removed, RemoveOne(e) \/ RemoveUnknown(e)
       PROVE  Fits' /\ (~unitOff' => UnitFits')
  <2>1. RemoveOne(e)
    BY <1>2, <1>11, NoneUnknown DEF RemoveUnknown
  <2> QED
    BY <1>2, <2>1, RemoveOneExact
<1>12. CASE AddOne
  BY <1>2, <1>12, AddOneExact
<1>13. CASE FlushEnd
  <2>1. /\ pc \in Flushing /\ pc' \in {"idle", "closed"} /\ updated' = live
        /\ UNCHANGED <<live, fpb, ram, removed, astray, unitOff>>
    BY <1>13 DEF FlushEnd
  <2>2. Held = Entries(live) /\ Held' = Held /\ Ahead' = DOMAIN live /\ pc' \notin Flushing
    BY <2>1 DEF Held, Flushing, Ahead
  <2>3. \A x \in Entries(live) : BpAddr(x.bp) = x.key
    BY <1>2, <2>2, HeldType
  <2>4. DictsFit'
    BY <1>3, <2>1, <2>2, <2>3 DEF DictsFit, Entries, BpAddr
  <2>5. HwFits' /\ SwFits' /\ (~unitOff' => UnitFits')
    BY <1>3, <2>1, <2>2, FitsKept DEF UnitFits
  <2> QED
    BY <2>2, <2>4, <2>5 DEF Fits, ListsFit
<1>14. CASE ResetAndHalt \/ Disconnect
  <2>1. /\ pc = "idle" /\ pc' \in {"reset", "disconnect"} /\ removed' = Entries(live)
        /\ UNCHANGED <<updated, fpb, ram, astray, unitOff>>
    BY <1>14 DEF ResetAndHalt, Disconnect, StartRemoveAll
  <2>2. Held' = Held /\ pc \notin Flushing /\ pc' \notin Flushing
    BY <2>1 DEF Held, Flushing
  <2> QED
    BY <1>4, <1>5, <2>1, <2>2
<1>15. ASSUME pc \in {"reset", "disconnect"}, removed = {}, live' = <<>>,
              pc' \notin {"reset", "disconnect"}
       PROVE  Held = {} /\ Held' = Held /\ Ahead = DOMAIN updated
  BY <1>15 DEF Held, Entries, Ahead, Flushing
<1>16. CASE ResetEnd
  <2>1. /\ pc = "reset" /\ removed = {} /\ live' = <<>> /\ pc' = "idle"
        /\ fpbOn' = FALSE /\ FpbAfterReset /\ UNCHANGED <<updated, sw, mem, astray>>
    BY <1>16 DEF ResetEnd
  <2>2. Held = {} /\ Held' = Held /\ Ahead' \subseteq Ahead /\ pc' \notin Flushing
    BY <1>15, <2>1 DEF Ahead, Flushing
  <2>3. Fits'
    BY <1>2, <2>1, <2>2, ResetExact
  <2>4. UnitFits'
    BY <2>1, <2>2, <2>3 DEF UnitFits, Fits, HwFits
  <2> QED
    BY <2>3, <2>4
<1>17. CASE ResetRaises
  <2>1. /\ pc = "reset" /\ removed = {} /\ live' = <<>> /\ pc' = "idle"
        /\ FpbAfterReset /\ Unnoticed /\ UNCHANGED <<updated, fpbOn, sw, mem, astray>>
    BY <1>17 DEF ResetRaises
  <2>2. Held' = Held /\ Ahead' \subseteq Ahead /\ pc' \notin Flushing
    BY <1>15, <2>1 DEF Ahead, Flushing
  <2>3. Fits' /\ (UNCHANGED <<comps, hwOn, fpbOn>> /\ ~unitOff => UnitFits')
    BY <1>2, <2>1, <2>2, ResetExact
  <2> QED
    BY <2>1, <2>3 DEF Unnoticed
<1>18. CASE Reset
  <2>1. /\ pc = "idle" /\ pc' = "idle" /\ FpbAfterReset /\ Unnoticed
        /\ UNCHANGED <<live, updated, removed, added, fpbOn, sw, mem, astray>>
    BY <1>18 DEF Reset
  <2>2. Held' = Held /\ Ahead' \subseteq Ahead /\ pc' \notin Flushing
    BY <2>1 DEF Held, Ahead, Flushing
  <2>3. Fits' /\ (UNCHANGED <<comps, hwOn, fpbOn>> /\ ~unitOff => UnitFits')
    BY <1>2, <2>1, <2>2, ResetExact
  <2> QED
    BY <2>1, <2>3 DEF Unnoticed
<1>19. CASE DisconnectResume
  <2>1. /\ pc = "disconnect" /\ removed = {} /\ live' = <<>> /\ removed' = {}
        /\ added' = DOMAIN updated /\ pc' = "detach" /\ Entries(live') = {}
        /\ Keys(live') = {} /\ UNCHANGED <<updated, fpb, ram, astray, unitOff>>
    BY <1>19 DEF DisconnectResume, Entries, Keys
  <2>2. Held' = Held /\ Ahead' = Ahead
    BY <1>15, <2>1 DEF Ahead, Flushing
  <2>3. HwFits' /\ SwFits' /\ (~unitOff' => UnitFits')
    BY <1>3, <2>1, <2>2, FitsKept DEF UnitFits
  <2>4. DictsFit'
    BY <1>3, <2>1, <2>2, DictsKept
  <2>5. ListsFit'
    BY <2>1 DEF ListsFit
  <2> QED
    BY <2>3, <2>4, <2>5 DEF Fits
<1>20. CASE DisconnectEnd
  <2>1. /\ pc = "disconnect" /\ removed = {} /\ live' = <<>> /\ pc' = "closed"
        /\ UNCHANGED <<updated, fpb, ram, astray, unitOff>>
    BY <1>20 DEF DisconnectEnd
  <2>2. Held' = Held /\ pc \notin Flushing /\ pc' \notin Flushing
    BY <1>15, <2>1 DEF Flushing
  <2> QED
    BY <1>4, <1>5, <2>1, <2>2
<1>21. CASE EmulatedReset
  <2>1. CASE StartFlush(FALSE) /\ pc' = "resume"
    BY <1>2, <1>21, <2>1, StartExact DEF EmulatedReset, Flushing
  <2>2. CASE UNCHANGED <<pc, work>>
    BY <1>2, <1>21, <2>2, StayExact DEF EmulatedReset
  <2> QED
    BY <1>21, <2>1, <2>2 DEF EmulatedReset
<1>22. CASE CoreHalts \/ Closed \/ UNCHANGED vars
  BY <1>2, <1>22, StayExact DEF CoreHalts, Closed, vars
<1>23. ASSUME NEW a \in Addr, NEW v \in Code, WriteMemory(a, v)
       PROVE  Fits' /\ (~unitOff' => UnitFits')
  <2>1. /\ mem' = [mem EXCEPT ![a] = v] /\ mem \in [Writable -> Code \cup {BKPT}]
        /\ astray' = IF a \in DOMAIN sw THEN astray \cup {a} ELSE astray \ {a}
        /\ UNCHANGED <<live, updated, fpb, sw, pc, work, unitOff>> /\ a \in Writable
    BY <1>23 DEF WriteMemory, ExactInv, TransparentInv, TypeInv, Shapes
  <2>2. Held' = Held /\ Ahead' = Ahead
    BY <2>1 DEF Held, Ahead
  <2>3. SwFits'
    BY <1>3, <2>1, <2>2 DEF SwFits
  <2>4. HwFits' /\ (~unitOff' => UnitFits')
    BY <1>3, <2>1, <2>2 DEF HwFits, UnitFits
  <2>5. DictsFit' /\ ListsFit'
    BY <1>3, <2>1, <2>2, DictsKept DEF ListsFit
  <2> QED
    BY <2>3, <2>4, <2>5 DEF Fits
<1> QED
  BY <1>2, <1>6, <1>7, <1>8, <1>9, <1>10, <1>11, <1>12, <1>13, <1>14, <1>16, <1>17,
     <1>18, <1>19, <1>20, <1>21, <1>22, <1>23 DEF Next

(* Where the target stops is where breakpoints are held.                   *)
LEMMA ArmedIsHeld ==
  ASSUME ExactInv, Unspoilt
  PROVE  Armed = {e.key : e \in Held}
<1>1. Calm /\ ~unitOff /\ astray = {}
  BY DEF Unspoilt, Calm
<1>2. /\ HwFits /\ SwFits /\ UnitFits /\ Held \subseteq Entry /\ Shapes
      /\ \A e \in Held : e.key \in Addr
  BY <1>1, HeldType DEF ExactInv, TransparentInv, TypeInv, Fits
<1>3. ASSUME NEW a \in Armed
      PROVE  \E e \in Held : e.key = a
  <2>1. CASE hwOn /\ \E i \in Comp : comps[i].reg = a
    <3>1. PICK i \in Comp : comps[i].reg = a
      BY <2>1
    <3>2. comps[i].on /\ comps[i].addr = a
      BY <1>2, <3>1, BkptAssumption DEF HwFits, UnitFits, Armed
    <3> QED
      BY <1>2, <3>2 DEF HwFits
  <2>2. CASE a \in Writable /\ mem[a] = BKPT
    <3>1. a \in DOMAIN sw
      BY <1>1, <2>2 DEF ExactInv, TransparentInv, RamInv, NoOrphanBkpt
    <3> QED
      BY <1>2, <3>1 DEF SwFits
  <2> QED
    BY <2>1, <2>2 DEF Armed
<1>4. ASSUME NEW e \in Held
      PROVE  e.key \in Armed
  <2>1. CASE e.bp.kind = "hw"
    <3>1. e.bp.comp \in Comp
      BY <1>2, <2>1 DEF Entry, Breakpoint, New, Hw, Sw
    <3>2. comps[e.bp.comp].on /\ comps[e.bp.comp].addr = e.key
      BY <1>2, <2>1 DEF HwFits
    <3>3. comps[e.bp.comp].reg = e.key /\ hwOn
      BY <1>2, <3>1, <3>2 DEF UnitFits
    <3> QED
      BY <1>2, <3>1, <3>3 DEF Armed
  <2>2. CASE e.bp.kind = "sw"
    <3>1. e.key \in DOMAIN sw /\ mem[e.key] = BKPT
      BY <1>1, <1>2, <2>2 DEF SwFits
    <3> QED
      BY <1>2, <3>1 DEF Armed, Shapes
  <2> QED
    BY <1>2, <2>1, <2>2 DEF SwFits
<1> QED
  BY <1>3, <1>4

(* Whenever no flush is under way, and after the last disconnect, the      *)
(* breakpoints believed live are exactly where the target stops, on every  *)
(* instance and through resets and disconnects of all kinds, but for the   *)
(* four histories that ArmedIsLive names.                                  *)
THEOREM ArmedIsLiveAlways == Spec => []ArmedIsLive
<1>1. ExactInv => ArmedIsLive
  <2> SUFFICES ASSUME ExactInv, pc \in {"idle", "closed"}, Unspoilt
               PROVE  Armed = Keys(live)
    BY DEF ArmedIsLive
  <2>1. Held = Entries(live)
    BY DEF Held
  <2> QED
    BY <2>1, ArmedIsHeld, KeysOfEntries
<1>2. ExactInv /\ [Next]_vars => ExactInv'
  BY ExactStep
<1> QED
  BY ExactInit, <1>1, <1>2, PTL DEF Spec

-----------------------------------------------------------------------------
(* The count of comparators in use                                         *)

On == {i \in Comp : comps[i].on}

(* How many comparators more are on than are counted.                      *)
Uncounted == Cardinality(On) - used

(* A set of comparators is finite and no larger than the unit.             *)
LEMMA OnFinite ==
  ASSUME NEW S \in SUBSET Comp
  PROVE  IsFiniteSet(S) /\ Cardinality(S) \in 0..NumComps
<1>1. IsFiniteSet(Comp) /\ Cardinality(Comp) = NumComps
  BY FS_Interval, BkptAssumption DEF Comp
<1> QED
  BY <1>1, FS_Subset, FS_CardinalityType, BkptAssumption

(* Turning a comparator on or off changes the number by one.               *)
LEMMA CountStep ==
  ASSUME NEW i \in Comp, \A j \in Comp : j # i => comps'[j].on = comps[j].on
  PROVE  /\ comps'[i].on = TRUE /\ comps[i].on = FALSE =>
              Cardinality(On') = Cardinality(On) + 1
         /\ comps'[i].on = FALSE /\ comps[i].on = TRUE =>
              Cardinality(On') = Cardinality(On) - 1
<1>1. IsFiniteSet(On)
  BY OnFinite DEF On
<1>2. ASSUME comps'[i].on = TRUE, comps[i].on = FALSE
      PROVE  Cardinality(On') = Cardinality(On) + 1
  <2>1. On' = On \cup {i} /\ i \notin On
    BY <1>2 DEF On
  <2> QED
    BY <1>1, <2>1, FS_AddElement
<1>3. ASSUME comps'[i].on = FALSE, comps[i].on = TRUE
      PROVE  Cardinality(On') = Cardinality(On) - 1
  <2>1. On' = On \ {i} /\ i \in On
    BY <1>3 DEF On
  <2> QED
    BY <1>1, <2>1, FS_RemoveElement
<1> QED
  BY <1>2, <1>3

(* A removal through a provider counts what it turns off.                  *)
LEMMA RemovalCounts ==
  ASSUME TypeInv, NEW e, ProviderRemove(e.bp)
  PROVE  Uncounted' = Uncounted /\ used' <= used
<1> USE DEF fpb, ram
<1>0. Shapes /\ Cardinality(On) \in Int
  BY OnFinite DEF TypeInv, On
<1> DEFINE M == Matching(BpAddr(e.bp))
           i == FirstOf(M)
<1>1. CASE e.bp.kind = "hw" /\ HwRemove(BpAddr(e.bp)) /\ M # {}
  <2>1. M \in SUBSET Nat /\ M \subseteq Comp /\ \A j \in M : comps[j].on
    BY BkptAssumption DEF Matching, Comp
  <2>2. i \in M
    BY <1>1, <2>1, FirstOfIn
  <2>3. i \in Comp /\ comps[i].on
    BY <2>1, <2>2
  <2>4. comps' = [comps EXCEPT ![i].on = FALSE, ![i].reg = NoAddr] /\ used' = used - 1
    BY <1>1 DEF HwRemove
  <2> HIDE DEF i, M
  <2>5. /\ comps'[i].on = FALSE /\ comps[i].on = TRUE
        /\ \A j \in Comp : j # i => comps'[j].on = comps[j].on
    BY <1>0, <2>3, <2>4 DEF Shapes
  <2>6. Cardinality(On') = Cardinality(On) - 1
    BY <2>3, <2>5, CountStep
  <2> QED
    BY <1>0, <2>4, <2>6 DEF Uncounted, Shapes
<1>2. CASE UNCHANGED <<comps, used>>
  BY <1>0, <1>2 DEF Uncounted, On, Shapes
<1> QED
  BY <1>1, <1>2 DEF ProviderRemove, HwRemove

(* An addition counts what it turns on, and only while one is available.   *)
LEMMA AdditionCounts ==
  ASSUME TypeInv, AddOne, used <= NumComps
  PROVE  Uncounted' = Uncounted /\ used' <= NumComps
<1> USE DEF fpb, ram
<1>0. Shapes /\ Cardinality(On) \in Int
  BY OnFinite DEF TypeInv, On
<1>1. CASE HwSet(NextAddr) /\ FindsFree(NextAddr)
  <2> DEFINE i == FirstOf(Free)
             r == [on |-> TRUE, addr |-> NextAddr, reg |-> NextAddr]
  <2>1. Free \in SUBSET Nat /\ Free \subseteq Comp
    BY BkptAssumption DEF Free, Comp
  <2>2. i \in Comp /\ ~comps[i].on
    BY <1>1, <2>1, FirstOfIn DEF Free, FindsFree
  <2>3. comps' = [comps EXCEPT ![i] = r] /\ used' = used + 1
    BY <1>1 DEF HwSet
  <2> HIDE DEF i
  <2>4. /\ comps'[i].on = TRUE /\ comps[i].on = FALSE
        /\ \A j \in Comp : j # i => comps'[j].on = comps[j].on
    BY <1>0, <2>2, <2>3 DEF Shapes
  <2>5. Cardinality(On') = Cardinality(On) + 1
    BY <2>2, <2>4, CountStep
  <2> QED
    BY <1>0, <1>1, <2>3, <2>5, BkptAssumption DEF Uncounted, Shapes, available, FindsFree
<1>2. CASE UNCHANGED <<comps, used>>
  BY <1>0, <1>2 DEF Uncounted, On, Shapes
<1> QED
  BY <1>1, <1>2 DEF AddOne, HwSet

(* Each access that fails miscounts at most one comparator.                *)
CountInv ==
  /\ TypeInv /\ used <= NumComps
  /\ IF "HW" \in Faulty THEN Uncounted \in (-faults["HW"])..faults["HW"]
                         ELSE Uncounted = 0

(* Each step keeps the count.                                              *)
LEMMA CountInvStep == CountInv /\ [Next]_vars => CountInv'
<1> SUFFICES ASSUME CountInv, [Next]_vars
             PROVE  CountInv'
  OBVIOUS
<1> USE DEF dicts, fpb, ram, work, marks
<1> DEFINE n == faults["HW"]
<1>1. /\ TypeInv /\ TypeInv' /\ Shapes /\ used <= NumComps
      /\ Cardinality(On) \in Int /\ Cardinality(On') \in Int
      /\ used \in Int /\ n \in Nat /\ "HW" \in Provider /\ "SW" \in Provider
  <2>1. TypeInv /\ used <= NumComps
    BY DEF CountInv
  <2>2. TypeInv'
    BY <2>1, StepType
  <2>3. Shapes /\ Shapes'
    BY <2>1, <2>2 DEF TypeInv
  <2>4. Cardinality(On) \in Int /\ Cardinality(On') \in Int
    BY OnFinite DEF On
  <2>5. used \in Int /\ n \in Nat /\ "HW" \in Provider /\ "SW" \in Provider
    BY <2>3, BkptAssumption DEF Shapes, Provider
  <2> QED
    BY <2>1, <2>2, <2>3, <2>4, <2>5
<1>2. ASSUME Uncounted' = Uncounted, used' <= NumComps, n' \in {n, n + 1}
      PROVE  CountInv'
  BY <1>1, <1>2 DEF CountInv, Uncounted
<1>3. CASE UNCHANGED <<comps, used>> /\ n' \in {n, n + 1}
  <2>1. Uncounted' = Uncounted
    BY <1>3 DEF Uncounted, On
  <2> QED
    BY <1>1, <1>2, <1>3, <2>1
<1>4. ASSUME NEW e \in removed, ProviderRemove(e.bp), faults' = faults
      PROVE  CountInv'
  <2>1. Uncounted' = Uncounted /\ used' <= used /\ used' \in Int
    BY <1>1, <1>4, RemovalCounts DEF TypeInv, Shapes
  <2> QED
    BY <1>1, <1>2, <1>4, <2>1, BkptAssumption
<1>5. CASE AddOne
  <2>1. Uncounted' = Uncounted /\ used' <= NumComps /\ faults' = faults
    BY <1>1, <1>5, AdditionCounts DEF AddOne
  <2> QED
    BY <1>1, <1>2, <2>1
<1>6. ASSUME "HW" \in Faulty, n' = n + 1, used' = used,
             Cardinality(On') \in {Cardinality(On) + 1, Cardinality(On) - 1}
      PROVE  CountInv'
  BY <1>1, <1>6 DEF CountInv, Uncounted
<1>7. ASSUME NEW e \in removed, HwRemoveFails(e)
      PROVE  CountInv'
  <2> DEFINE M == Matching(BpAddr(e.bp))
             i == FirstOf(M)
  <2>1. M \in SUBSET Nat /\ M \subseteq Comp /\ (\A j \in M : comps[j].on) /\ M # {}
    BY <1>7, BkptAssumption DEF Matching, Comp, HwRemoveFails
  <2>2. i \in M
    BY <2>1, FirstOfIn
  <2>3. i \in Comp /\ comps[i].on
    BY <2>1, <2>2
  <2>4. /\ comps' \in {[comps EXCEPT ![i].on = FALSE],
                       [comps EXCEPT ![i].on = FALSE, ![i].reg = NoAddr]}
        /\ used' = used /\ Fail("HW")
    BY <1>7 DEF HwRemoveFails
  <2> HIDE DEF i, M
  <2>5. /\ comps'[i].on = FALSE /\ comps[i].on = TRUE
        /\ \A j \in Comp : j # i => comps'[j].on = comps[j].on
    BY <1>1, <2>3, <2>4 DEF Shapes
  <2>6. Cardinality(On') = Cardinality(On) - 1
    BY <2>3, <2>5, CountStep
  <2> QED
    BY <1>1, <1>6, <2>4, <2>6, FailType
<1>8. CASE HwSetFails
  <2> DEFINE i == FirstOf(Free)
  <2>1. /\ Fail("HW") /\ used' = used
        /\ \/ comps' = comps
           \/ /\ FindsFree(NextAddr)
              /\ comps' \in {[comps EXCEPT ![i].on = TRUE],
                             [comps EXCEPT ![i].on = TRUE, ![i].reg = NextAddr]}
    BY <1>8 DEF HwSetFails
  <2>2. "HW" \in Faulty /\ n' = n + 1
    BY <1>1, <2>1, FailType
  <2>3. CASE comps' = comps
    <3>1. Uncounted' = Uncounted
      BY <2>1, <2>3 DEF Uncounted, On
    <3> QED
      BY <1>1, <1>2, <2>1, <2>2, <3>1
  <2>4. CASE /\ FindsFree(NextAddr)
             /\ comps' \in {[comps EXCEPT ![i].on = TRUE],
                            [comps EXCEPT ![i].on = TRUE, ![i].reg = NextAddr]}
    <3>1. Free \in SUBSET Nat /\ Free \subseteq Comp /\ Free # {}
      BY <2>4, BkptAssumption DEF Free, Comp, FindsFree
    <3>2. i \in Comp /\ ~comps[i].on
      BY <3>1, FirstOfIn DEF Free
    <3> HIDE DEF i
    <3>3. /\ comps'[i].on = TRUE /\ comps[i].on = FALSE
          /\ \A j \in Comp : j # i => comps'[j].on = comps[j].on
      BY <1>1, <2>4, <3>2 DEF Shapes
    <3>4. Cardinality(On') = Cardinality(On) + 1
      BY <3>2, <3>3, CountStep
    <3> QED
      BY <1>6, <2>1, <2>2, <3>4
  <2> QED
    BY <2>1, <2>3, <2>4
<1>9. ASSUME FpbAfterReset, used' = used, faults' = faults
      PROVE  CountInv'
  <2>1. \A j \in Comp : comps'[j].on = comps[j].on
    BY <1>1, <1>9, FpbAfterResetType
  <2>2. Uncounted' = Uncounted
    BY <1>9, <2>1 DEF Uncounted, On
  <2> QED
    BY <1>1, <1>2, <1>9, <2>2
<1>10. ASSUME SwSetFails \/ \E e \in removed : SwRemoveFails(e)
       PROVE  UNCHANGED <<comps, used>> /\ n' = n
  <2>1. Fail("SW") /\ UNCHANGED <<comps, used>>
    BY <1>10 DEF SwSetFails, SwRemoveFails
  <2> QED
    BY <1>1, <2>1, FailType
<1>11. \/ UNCHANGED <<comps, used>> /\ faults' = faults
       \/ SwSetFails \/ \E e \in removed : SwRemoveFails(e)
       \/ AddOne \/ HwSetFails
       \/ \E e \in removed : (ProviderRemove(e.bp) /\ faults' = faults) \/ HwRemoveFails(e)
       \/ FpbAfterReset /\ used' = used /\ faults' = faults
  BY DEF Next, SetBreakpoint, RemoveBreakpoint, Resume, Step, OtherCoreRuns,
     RemoveOne, RemoveUnknown, FlushEnd, ResetAndHalt, StartRemoveAll, ResetEnd,
     ResetRaises, Disconnect, DisconnectResume, DisconnectEnd, Reset, EmulatedReset,
     CoreHalts, WriteMemory, Closed, vars
<1> HIDE DEF n
<1>12. faults' = faults => n' = n
  BY DEF n
<1> QED
  BY <1>3, <1>4, <1>5, <1>7, <1>8, <1>9, <1>10, <1>11, <1>12

(* The count is right at the start.                                        *)
LEMMA CountInvInit == Init => CountInv
<1> SUFFICES ASSUME Init PROVE CountInv
  OBVIOUS
<1>1. On = {} /\ used = 0 /\ faults["HW"] = 0
  BY DEF Init, On, Provider
<1>2. Uncounted = 0
  BY <1>1, FS_EmptySet DEF Uncounted
<1> QED
  BY <1>1, <1>2, InitType, BkptAssumption DEF CountInv

(* As long as comparator accesses do not fail the count is that of the     *)
(* comparators that are on, and stays within the unit, through resets too. *)
THEOREM UsedInRangeAlways ==
  ASSUME "HW" \notin Faulty
  PROVE  Spec => []UsedInRange
<1>1. CountInv => UsedInRange
  BY OnFinite DEF CountInv, Uncounted, UsedInRange, On, TypeInv, Shapes
<1> QED
  BY CountInvInit, CountInvStep, <1>1, PTL DEF Spec

(* Whatever accesses fail, the count never exceeds the unit, so that the   *)
(* provider never believes fewer than none available, and goes below zero  *)
(* by no more than the number of failures.                                 *)
CountNearRange == used \in (-faults["HW"])..NumComps

(* The count is bounded in this way on every instance.                     *)
THEOREM CountNearRangeAlways == Spec => []CountNearRange
<1>1. CountInv => CountNearRange
  <2> SUFFICES ASSUME CountInv
               PROVE  CountNearRange
    OBVIOUS
  <2>1. Cardinality(On) \in Nat
    BY OnFinite, BkptAssumption DEF On
  <2>2. used \in Int /\ faults["HW"] \in Nat /\ used <= NumComps
    BY BkptAssumption DEF CountInv, TypeInv, Shapes, Provider
  <2>3. Uncounted <= faults["HW"]
    BY <2>2 DEF CountInv
  <2> QED
    BY <2>1, <2>2, <2>3, BkptAssumption DEF Uncounted, CountNearRange
<1> QED
  BY CountInvInit, CountInvStep, <1>1, PTL DEF Spec

-----------------------------------------------------------------------------
(* The manager, its providers and the core implement the service           *)

(* The flushes that leave the manager open.                                *)
Running == {"resume", "step", "other"}

(* Clients' edits are new breakpoints and live ones.                       *)
EditsFit ==
  pc \in {"idle"} \cup Running =>
    \A e \in Entries(updated) : e \in Entries(live) \/ e.bp.kind = "new"

(* The core is not reset, accesses succeed, and nothing is spoilt.         *)
Serving ==
  /\ ExactInv /\ Unspoilt /\ EditsFit
  /\ pc \in {"idle", "disconnect", "closed"} \cup Running

(* No flush reuses a comparator it is still to walk over.                  *)
LEMMA NoneRetaken ==
  ASSUME Serving, Adding
  PROVE  ~Retakes(NextAddr)
<1> SUFFICES ASSUME NEW k \in added, updated[k].bp.kind = "hw"
             PROVE  FALSE
  BY DEF Retakes
<1>1. pc \in Running /\ Calm /\ pc \in Flushing /\ k \in DOMAIN updated
  BY DEF Serving, Adding, Flushing, Running, Unspoilt, Calm, ExactInv, TransparentInv,
         TypeInv, Shapes
<1>2. updated[k] \in Entries(live)
  BY <1>1 DEF Serving, EditsFit, Entries
<1>3. updated[k].key \notin Keys(live)
  BY <1>1 DEF Serving, ExactInv, Fits, ListsFit
<1> QED
  BY <1>2, <1>3 DEF Entries, Keys

(* Without failing accesses and resets the histories stay empty.           *)
LEMMA UnspoiltStep ==
  ASSUME Faulty = {}, "write_over" \notin Ops, "reset" \notin Ops,
         Serving, [Next]_vars
  PROVE  Unspoilt'
<1> USE DEF dicts, fpb, ram, work, marks
<1>1. /\ Calm /\ astray = {} /\ ~unitOff /\ ~aliased /\ pc # "reset"
      /\ \A e \in removed : ~Unknown(e.bp)
  BY NoneUnknown DEF Serving, Unspoilt, Calm, Running
<1>2. /\ ~SwSetFails /\ ~HwSetFails
      /\ \A e \in removed : ~SwRemoveFails(e) /\ ~HwRemoveFails(e) /\ ~RemoveUnknown(e)
  BY <1>1 DEF SwSetFails, HwSetFails, SwRemoveFails, HwRemoveFails, Fail, RemoveUnknown
<1>3. ~ResetAndHalt /\ ~ResetEnd /\ ~ResetRaises /\ ~Reset /\ ~EmulatedReset
  BY <1>1 DEF ResetAndHalt, ResetEnd, ResetRaises, Reset, EmulatedReset
<1>4. ASSUME NEW a \in Addr, NEW v \in Code, WriteMemory(a, v)
      PROVE  Unspoilt'
  <2>1. pc = "idle" /\ ~LiveSw(a)
    BY <1>4 DEF WriteMemory
  <2>2. /\ Held = Entries(live) /\ Backed(Held)
        /\ DOMAIN sw = {e.key : e \in {x \in Held : x.bp.kind = "sw"}}
    BY <1>1, <2>1, HeldType DEF Held, Serving, ExactInv, Fits, SwFits
  <2>3. a \notin DOMAIN sw
    BY <2>1, <2>2 DEF LiveSw, Backed
  <2> QED
    BY <1>1, <1>4, <2>3 DEF WriteMemory, Unspoilt, Calm
<1>5. ASSUME AddOne
      PROVE  Unspoilt'
  <2>1. ~Retakes(NextAddr)
    BY <1>5, NoneRetaken DEF AddOne
  <2>2. aliased' = aliased \/ aliased' = (aliased \/ Retakes(NextAddr))
    BY <1>5 DEF AddOne
  <2>3. UNCHANGED <<faults, astray, unitOff>>
    BY <1>5 DEF AddOne
  <2>4. ~aliased'
    BY <1>1, <2>1, <2>2
  <2> QED
    BY <1>1, <2>3, <2>4 DEF Unspoilt, Calm
<1>6. CASE UNCHANGED marks
  BY <1>6 DEF Serving, Unspoilt
<1>7. \/ UNCHANGED marks \/ AddOne
      \/ \E a \in Addr, v \in Code : WriteMemory(a, v)
  BY <1>2, <1>3 DEF Next, SetBreakpoint, RemoveBreakpoint, Resume, Step,
     OtherCoreRuns, RemoveOne, FlushEnd, Disconnect, StartRemoveAll, DisconnectResume,
     DisconnectEnd, CoreHalts, Closed, vars
<1> QED
  BY <1>4, <1>5, <1>6, <1>7

(* Clients edit with new breakpoints and live ones.                        *)
LEMMA EditsStep ==
  ASSUME Faulty = {}, "reset" \notin Ops, "disconnect_resume" \notin Ops,
         Serving, [Next]_vars
  PROVE  EditsFit' /\ pc' \in {"idle", "disconnect", "closed"} \cup Running
<1> USE DEF dicts, fpb, ram, work, marks
<1>1. /\ Calm /\ pc \in {"idle", "disconnect", "closed"} \cup Running /\ EditsFit
      /\ \A e \in removed : ~Unknown(e.bp)
      /\ ExactInv /\ live \in Seq(Entry) /\ updated \in Seq(Entry)
  BY NoneUnknown DEF Serving, Unspoilt, Calm, ExactInv, TransparentInv, TypeInv, Shapes
<1>2. /\ ~SwSetFails /\ ~HwSetFails
      /\ \A e \in removed : ~SwRemoveFails(e) /\ ~HwRemoveFails(e) /\ ~RemoveUnknown(e)
  BY <1>1 DEF SwSetFails, HwSetFails, SwRemoveFails, HwRemoveFails, Fail, RemoveUnknown
<1>3. /\ ~ResetAndHalt /\ ~ResetEnd /\ ~ResetRaises /\ ~Reset /\ ~EmulatedReset
      /\ ~DisconnectResume
  BY <1>1 DEF ResetAndHalt, ResetEnd, ResetRaises, Reset, EmulatedReset,
              DisconnectResume, Running
<1>4. ASSUME NEW a \in Addr, NEW t \in Type, SetBreakpoint(a, t)
      PROVE  EditsFit' /\ pc' = "idle"
  <2>1. pc = "idle" /\ pc' = "idle" /\ live' = live
    BY <1>4 DEF SetBreakpoint
  <2>2. PICK e : /\ updated' = Append(updated, e)
                 /\ e \in Entries(live) \/ e.bp.kind = "new"
    <3>1. CASE a \in Keys(live)
      <4>1. PICK x \in Entries(live) : x.bp = Lookup(live, a) /\ x.key = a
        BY <1>1, <3>1, LookupType
      <4>2. x = [key |-> a, bp |-> Lookup(live, a)]
        BY <1>1, <4>1, EntriesType DEF Entry
      <4> QED
        BY <1>4, <3>1, <4>1, <4>2 DEF SetBreakpoint
    <3>2. CASE a \notin Keys(live)
      <4> DEFINE x == [key |-> a, bp |-> New(a, t)]
      <4>1. updated' = Append(updated, x) /\ x.bp.kind = "new"
        BY <1>4, <3>2 DEF SetBreakpoint, New
      <4> QED
        BY <4>1
    <3> QED
      BY <3>1, <3>2
  <2>3. Entries(updated') = Entries(updated) \cup {e}
    BY <1>1, <2>2 DEF Entries
  <2> QED
    BY <1>1, <2>1, <2>2, <2>3 DEF EditsFit
<1>5. ASSUME NEW a \in Addr, RemoveBreakpoint(a)
      PROVE  EditsFit' /\ pc' = "idle"
  <2>1. pc = "idle" /\ pc' = "idle" /\ updated' = Del(updated, a) /\ live' = live
    BY <1>5 DEF RemoveBreakpoint
  <2>2. Entries(updated') \subseteq Entries(updated)
    BY <1>1, <2>1, DelType
  <2> QED
    BY <1>1, <2>1, <2>2 DEF EditsFit
<1>6. ASSUME NEW e \in removed, RemoveOne(e)
      PROVE  EditsFit' /\ pc' = pc
  <2>1. pc' = pc /\ updated' = updated /\ Forget(e.bp)
    BY <1>6 DEF RemoveOne
  <2>2. CASE pc \in Running
    <3>1. /\ Held = Entries(live) /\ e \in Entries(live) /\ Keyed(live)
          /\ e.key \notin Keys(updated) /\ pc \in Flushing
      BY <1>1, <2>2 DEF Held, Running, Flushing, ExactInv, Fits, ListsFit,
                        TransparentInv, BackedInv
    <3>2. live' = Del(live, e.key)
      BY <1>1, <2>1, <3>1, HeldType DEF Forget
    <3>3. Entries(live') = Entries(live) \ {e}
      BY <1>1, <3>1, <3>2, DelEntries
    <3>4. \A x \in Entries(updated) : x # e
      BY <3>1 DEF Keys, Entries
    <3> QED
      BY <1>1, <2>1, <2>2, <3>3, <3>4 DEF EditsFit
  <2>3. CASE pc \notin Running
    BY <1>1, <2>1, <2>3 DEF EditsFit, ExactInv, TransparentInv, Idle
  <2> QED
    BY <2>1, <2>2, <2>3
<1>7. CASE AddOne
  <2>1. pc \in Running /\ pc' = pc /\ updated' = updated /\ pc \in Flushing
        /\ added # {}
    BY <1>1, <1>7 DEF AddOne, Adding, Flushing, Running
  <2>2. NextAddr \in Addr /\ NextAddr \notin Keys(live)
    BY <1>1, <2>1, NextIsNew
  <2>3. live' = live \/ \E bp : live' = Put(live, NextAddr, bp)
    BY <1>7 DEF AddOne, HwSet, SwSet
  <2>4. Entries(live) \subseteq Entries(live')
    <3>1. ASSUME NEW bp, live' = Put(live, NextAddr, bp)
          PROVE  Entries(live) \subseteq Entries(live')
      <4>1. live' = Append(live, [key |-> NextAddr, bp |-> bp])
        BY <2>2, <3>1 DEF Put
      <4> QED
        BY <1>1, <4>1 DEF Entries
    <3> QED
      BY <2>3, <3>1
  <2> QED
    BY <1>1, <2>1, <2>4 DEF EditsFit
<1>8. CASE FlushEnd
  <2>1. updated' = live /\ live' = live /\ pc' = "idle"
    BY <1>1, <1>8 DEF FlushEnd, Running
  <2> QED
    BY <2>1 DEF EditsFit
<1>9. CASE Resume \/ Step \/ \E s \in BOOLEAN : OtherCoreRuns(s)
  <2>1. pc = "idle" /\ pc' \in Running /\ UNCHANGED dicts
    BY <1>9 DEF Resume, Step, OtherCoreRuns, Running
  <2> QED
    BY <1>1, <2>1 DEF EditsFit
<1>10. CASE Disconnect \/ DisconnectEnd
  <2>1. pc' \in {"disconnect", "closed"}
    BY <1>10 DEF Disconnect, DisconnectEnd, StartRemoveAll
  <2> QED
    BY <2>1 DEF EditsFit, Running
<1>11. CASE UNCHANGED <<dicts, pc>>
  BY <1>1, <1>11 DEF EditsFit
<1>12. \/ UNCHANGED <<dicts, pc>>
       \/ \E a \in Addr, t \in Type : SetBreakpoint(a, t)
       \/ \E a \in Addr : RemoveBreakpoint(a)
       \/ Resume \/ Step \/ \E s \in BOOLEAN : OtherCoreRuns(s)
       \/ \E e \in removed : RemoveOne(e)
       \/ AddOne \/ FlushEnd \/ Disconnect \/ DisconnectEnd
  BY <1>2, <1>3 DEF Next, CoreHalts, WriteMemory, Closed, vars
<1> QED
  BY <1>1, <1>4, <1>5, <1>6, <1>7, <1>8, <1>9, <1>10, <1>11, <1>12

(* Without failing accesses the manager always serves.                     *)
LEMMA ServingStep ==
  ASSUME Faulty = {}, "write_over" \notin Ops, "reset" \notin Ops,
         "disconnect_resume" \notin Ops, Serving, [Next]_vars
  PROVE  Serving'
<1>1. ExactInv'
  BY ExactStep DEF Serving
<1> QED
  BY <1>1, UnspoiltStep, EditsStep DEF Serving

(* It serves at the start.                                                 *)
LEMMA ServingInit == Init => Serving
<1> SUFFICES ASSUME Init PROVE Serving
  OBVIOUS
<1>1. Unspoilt /\ EditsFit /\ pc = "idle"
  BY DEF Init, Unspoilt, EditsFit, Entries, Provider
<1> QED
  BY <1>1, ExactInit DEF Serving

ArmedFits == Armed = {e.key : e \in Held}

(* While it does, the target stops where breakpoints are held.             *)
LEMMA ServingArmed == Serving => ArmedFits
BY ArmedIsHeld DEF Serving, ArmedFits

(* Every step is one of the service or leaves it alone.                    *)
LEMMA ServiceStep ==
  ASSUME Faulty = {}, "write_over" \notin Ops, "reset" \notin Ops,
         "disconnect_resume" \notin Ops,
         Serving, ArmedFits, Serving', ArmedFits', [Next]_vars
  PROVE  [Service!Next]_(Service!vars)
<1> USE DEF dicts, fpb, ram, work, marks
<1> DEFINE held == Held
           requested == Keys(updated)
           suspended == pc \in {"reset", "disconnect", "closed"}
           running == core = "running"
<1>0. /\ ExactInv /\ Calm /\ Armed = {e.key : e \in Held}
      /\ Armed' = {e.key : e \in Held'} /\ Fits
      /\ live \in Seq(Entry) /\ updated \in Seq(Entry)
      /\ pc \in {"idle", "disconnect", "closed"} \cup Running
      /\ core \in {"halted", "running"}
  BY DEF Serving, ArmedFits, ExactInv, TransparentInv, TypeInv, Shapes, Unspoilt, Calm
<1>1. ASSUME Held' = Held, UNCHANGED <<requested, running, suspended>>
      PROVE  UNCHANGED Service!vars
  <2>1. Armed' = Armed
    BY <1>0, <1>1
  <2> QED
    BY <1>1, <2>1 DEF Service!vars
<1>2. ASSUME NEW a \in Addr, NEW t \in Type, SetBreakpoint(a, t)
      PROVE  Service!Next
  <2>1. Armed' = Armed
    <3>1. Held' = Held
      BY <1>2 DEF SetBreakpoint, Held
    <3> QED
      BY <1>0, <3>1
  <2>2. requested' = requested \cup {a}
    <3>1. PICK bp : updated' = Append(updated, [key |-> a, bp |-> bp])
      BY <1>2 DEF SetBreakpoint
    <3> QED
      BY <1>0, <3>1, AppendKeys
  <2>3. Service!Ask(a)
    BY <1>2, <2>1, <2>2 DEF SetBreakpoint, Service!Ask
  <2> QED
    BY <2>3 DEF Service!Next
<1>3. ASSUME NEW a \in Addr, RemoveBreakpoint(a)
      PROVE  Service!Next
  <2>1. Armed' = Armed
    <3>1. Held' = Held
      BY <1>3 DEF RemoveBreakpoint, Held
    <3> QED
      BY <1>0, <3>1
  <2>2. PICK e \in Entries(updated) : e.key = a
    BY <1>3 DEF RemoveBreakpoint, Keys, Entries
  <2>3. Keyed(updated) /\ updated' = Del(updated, e.key)
    BY <1>0, <1>3, <2>2 DEF RemoveBreakpoint, Fits, DictsFit
  <2>4. Entries(updated') = Entries(updated) \ {e}
    BY <1>0, <2>3, DelEntries
  <2>5. KeysDiffer(Entries(updated))
    BY <1>0, <2>3, KeyedEntries
  <2>6. /\ requested = {x.key : x \in Entries(updated)}
        /\ requested' = {x.key : x \in Entries(updated')}
    <3>1. \A d : Keys(d) = {x.key : x \in Entries(d)}
      BY KeysOfEntries
    <3> QED
      BY <3>1
  <2>7. requested' = requested \ {a}
    BY <2>2, <2>4, <2>5, <2>6 DEF KeysDiffer
  <2>8. Service!Cancel(a)
    BY <1>3, <2>1, <2>7 DEF RemoveBreakpoint, Service!Cancel
  <2> QED
    BY <2>8 DEF Service!Next
<1>4. CASE Resume
  BY <1>1, <1>4 DEF Resume, Held
<1>5. CASE Step
  BY <1>1, <1>5 DEF Step, Held
<1>6. ASSUME NEW b \in BOOLEAN, OtherCoreRuns(b)
      PROVE  UNCHANGED Service!vars
  BY <1>1, <1>6 DEF OtherCoreRuns, Held
<1>7. ASSUME NEW e \in removed,
             RemoveOne(e) \/ RemoveUnknown(e) \/ SwRemoveFails(e) \/ HwRemoveFails(e)
      PROVE  Service!Next
  <2>1. RemoveOne(e)
    BY <1>0, <1>7, NoneUnknown DEF RemoveUnknown, SwRemoveFails, HwRemoveFails, Fail
  <2>2. /\ pc \in {"disconnect"} \cup Running /\ pc' = pc
        /\ updated' = updated /\ core' = core /\ removed' = removed \ {e}
    BY <1>0, <2>1 DEF RemoveOne, ExactInv, TransparentInv, Idle
  <2>3. /\ e \in Held /\ Held' = Held \ {e}
        /\ e.key \notin Keys(updated) \/ pc = "disconnect"
    <3>1. CASE pc = "disconnect"
      BY <2>2, <3>1 DEF Held
    <3>2. CASE pc \in Running
      <4>1. e \in Entries(live) /\ e.key \notin Keys(updated)
        BY <1>0, <3>2 DEF Fits, ListsFit, Running, Flushing
      <4>2. Held = Entries(live) /\ Held' = Entries(live')
        BY <2>2, <3>2 DEF Held, Running
      <4>3. Keyed(live) /\ BpAddr(e.bp) = e.key
        BY <1>0, <3>2, <4>1, <4>2, HeldType
           DEF ExactInv, TransparentInv, BackedInv, Running, Flushing
      <4>4. live' = Del(live, e.key)
        BY <2>1, <3>2, <4>3 DEF RemoveOne, Forget, Running, Flushing
      <4> QED
        BY <1>0, <4>1, <4>2, <4>3, <4>4, DelEntries
    <3> QED
      BY <2>2, <3>1, <3>2
  <2>4. KeysDiffer(Held) /\ e.key \in Addr
    BY <1>0, <2>3, HeldType
  <2>5. Armed' = Armed \ {e.key}
    BY <1>0, <2>3, <2>4 DEF KeysDiffer
  <2>6. Service!Disarm(e.key)
    BY <2>2, <2>3, <2>5 DEF Service!Disarm
  <2> QED
    BY <2>4, <2>6 DEF Service!Next
<1>8. CASE AddOne
  <2> DEFINE a == NextAddr
  <2>1. /\ pc \in Running /\ pc' = pc /\ updated' = updated /\ core' = core
        /\ added # {} /\ Held = Entries(live) /\ Held' = Entries(live')
    BY <1>0, <1>8 DEF AddOne, Adding, Flushing, Running, Held
  <2>2. a \in Addr /\ a \notin Keys(live) /\ a \in Keys(updated)
    BY <1>0, <2>1, NextIsNew DEF Keys, Running, Flushing
  <2>3. ASSUME NEW bp \in Breakpoint, live' = Put(live, a, bp)
        PROVE  Service!Next
    <3>1. PICK new : new.key = a /\ Entries(live') = Entries(live) \cup {new}
      <4> DEFINE new == [key |-> a, bp |-> bp]
      <4>1. new.key = a /\ Entries(live') = Entries(live) \cup {new}
        BY <1>0, <2>2, <2>3, PutEntries
      <4> QED
        BY <4>1
    <3>2. Armed' = Armed \cup {a}
      BY <1>0, <2>1, <3>1
    <3>3. Service!Arm(a)
      BY <2>1, <2>2, <3>2 DEF Service!Arm, Running
    <3> QED
      BY <2>2, <3>3 DEF Service!Next
  <2>4. CASE live' = live
    BY <1>1, <2>1, <2>4
  <2>5. CASE NextType = "HW" /\ HwSet(a) /\ live' # live
    <3>1. Free \in SUBSET Nat /\ Free \subseteq Comp
      BY BkptAssumption DEF Free, Comp
    <3>2. Free # {} /\ live' = Put(live, a, Hw(FirstOf(Free)))
      BY <2>5 DEF HwSet, FindsFree
    <3>3. Hw(FirstOf(Free)) \in Breakpoint
      BY <3>1, <3>2, FirstOfIn DEF Breakpoint
    <3> QED
      BY <2>3, <3>2, <3>3
  <2>6. CASE NextType = "SW" /\ SwSet(a)
    <3>1. a \in Writable
      BY <2>6 DEF NextType, SelectType, NextAddr
    <3>2. Filtered(a) \in Code \cup {BKPT}
      BY <1>0, <3>1 DEF Filtered, ExactInv, TransparentInv, TypeInv, Shapes
    <3>3. Sw(a, Filtered(a)) \in Breakpoint
      BY <3>1, <3>2 DEF Breakpoint
    <3> QED
      BY <2>3, <2>6, <3>3 DEF SwSet
  <2> QED
    BY <1>8, <2>4, <2>5, <2>6 DEF AddOne
<1>9. ~SwSetFails /\ ~HwSetFails
  BY DEF SwSetFails, HwSetFails, Fail
<1>10. CASE FlushEnd
  <2>1. /\ pc \in Running /\ pc' = "idle" /\ updated' = live /\ live' = live
        /\ removed = {} /\ Held = Entries(live) /\ Held' = Entries(live)
    BY <1>0, <1>10 DEF FlushEnd, Flushing, Running, Held
  <2>2. Armed = Keys(live) /\ Armed' = Keys(live)
    BY <1>0, <2>1, KeysOfEntries
  <2>3. Armed \subseteq Keys(updated)
    BY <1>0, <2>1, <2>2 DEF Fits, ListsFit, Keys, Entries, Running, Flushing
  <2>4. Service!Go
    BY <2>1, <2>2, <2>3 DEF Service!Go, Running
  <2> QED
    BY <2>4 DEF Service!Next
<1>11. CASE Disconnect
  <2>1. pc = "idle" /\ pc' = "disconnect" /\ UNCHANGED <<updated, core>>
        /\ removed' = Entries(live)
    BY <1>11 DEF Disconnect, StartRemoveAll
  <2>2. Armed' = Armed
    <3>1. Held' = Held
      BY <2>1 DEF Held
    <3> QED
      BY <1>0, <3>1
  <2>3. Service!Suspend
    BY <2>1, <2>2 DEF Service!Suspend
  <2> QED
    BY <2>3 DEF Service!Next
<1>12. CASE DisconnectEnd
  <2>1. /\ pc = "disconnect" /\ removed = {} /\ live' = <<>> /\ pc' = "closed"
        /\ UNCHANGED <<updated, core>>
    BY <1>12 DEF DisconnectEnd
  <2>2. Held = {} /\ Held' = {}
    BY <2>1 DEF Held, Entries
  <2> QED
    BY <1>1, <2>1, <2>2
<1>13. /\ ~ResetAndHalt /\ ~ResetEnd /\ ~ResetRaises /\ ~Reset /\ ~EmulatedReset
       /\ ~DisconnectResume
  BY <1>0 DEF ResetAndHalt, ResetEnd, ResetRaises, Reset, EmulatedReset,
              DisconnectResume, Running
<1>14. CASE CoreHalts
  <2>1. Armed' = Armed
    <3>1. Held' = Held
      BY <1>14 DEF CoreHalts, Held
    <3> QED
      BY <1>0, <3>1
  <2>2. Service!Stop
    BY <1>14, <2>1 DEF CoreHalts, Service!Stop
  <2> QED
    BY <2>2 DEF Service!Next
<1>15. ASSUME NEW a \in Addr, NEW v \in Code, WriteMemory(a, v)
       PROVE  UNCHANGED Service!vars
  BY <1>1, <1>15 DEF WriteMemory, Held
<1>16. CASE Closed \/ UNCHANGED vars
  BY <1>1, <1>16 DEF Closed, vars, Held
<1> QED
  BY <1>2, <1>3, <1>4, <1>5, <1>6, <1>7, <1>8, <1>9, <1>10, <1>11, <1>12, <1>13,
     <1>14, <1>15, <1>16 DEF Next

(* If no access fails, clients do not write over a software breakpoint and *)
(* the core is neither reset through the debugger nor resumed as it is     *)
(* left, every execution is one of the breakpoint service.                 *)
THEOREM ImplementsService ==
  ASSUME Faulty = {}, "write_over" \notin Ops, "reset" \notin Ops,
         "disconnect_resume" \notin Ops
  PROVE  Spec => ServiceSpec
<1>1. Init => Serving
  BY ServingInit
<1>2. Serving /\ [Next]_vars => Serving'
  BY ServingStep
<1>3. Init => Service!Init
  <2> SUFFICES ASSUME Init PROVE Service!Init
    OBVIOUS
  <2>1. ExactInv /\ Unspoilt /\ Held = {}
    BY ServingInit DEF Init, Serving, Held, Entries
  <2>2. Armed = {}
    BY <2>1, ArmedIsHeld
  <2>3. Keys(updated) = {}
    BY DEF Init, Keys
  <2> QED
    BY <2>2, <2>3 DEF Init, Service!Init
<1>4. Serving /\ ArmedFits /\ Serving' /\ ArmedFits' /\ [Next]_vars
        => [Service!Next]_(Service!vars)
  BY ServiceStep
<1>5. Serving => ArmedFits
  BY ServingArmed
<1> QED
  BY <1>1, <1>2, <1>3, <1>4, <1>5, PTL DEF Spec, ServiceSpec, Service!Spec

-----------------------------------------------------------------------------
(* Nothing is lost while there is room                                     *)

(* As many comparators as breakpoints, and each can be at its address.     *)
Room == Cardinality(Keys(updated)) <= NumComps

(* With room, what a flush has walked over is live.                        *)
WalkedAreLive ==
  pc \in Running /\ Room =>
    \A i \in DOMAIN updated : i \notin added => updated[i].key \in Keys(live)

KeptInv == CountInv /\ WalkedAreLive

(* With room a comparator is free for the breakpoint to be added.          *)
LEMMA OneAvailable ==
  ASSUME "HW" \notin Faulty, KeptInv, Serving, Adding, Room
  PROVE  available > 0 /\ Free # {}
<1>0. /\ ExactInv /\ CountInv /\ HwFits /\ ListsFit /\ Shapes /\ Calm
      /\ pc \in Running /\ pc \in Flushing /\ removed = {} /\ added # {}
      /\ live \in Seq(Entry) /\ updated \in Seq(Entry)
  BY DEF KeptInv, ExactInv, TransparentInv, TypeInv, Shapes, Adding, Serving, Running,
         Flushing, Unspoilt, Calm, Fits
<1> DEFINE K == Keys(updated)
           L == {comps[i].addr : i \in On}
           k == updated[FirstOf(added)].key
<1>1. k \in K /\ k \notin Keys(live)
  BY <1>0, NextIsNew DEF Keys
<1>2. Held = Entries(live)
  BY <1>0 DEF Held, Running
<1>3. IsFiniteSet(K)
  <2> DEFINE g == [i \in 1..Len(updated) |-> updated[i].key]
  <2>1. Len(updated) \in Nat /\ DOMAIN updated = 1..Len(updated)
    BY <1>0
  <2>2. IsFiniteSet(1..Len(updated))
    BY <2>1, FS_Interval
  <2>3. g \in Surjection(1..Len(updated), K)
    BY <2>1 DEF Keys, Surjection
  <2> QED
    BY <2>2, <2>3, FS_Surjection
<1>4. L \subseteq K \ {k}
  <2> SUFFICES ASSUME NEW i \in On
               PROVE  comps[i].addr \in K \ {k}
    OBVIOUS
  <2>1. [key |-> comps[i].addr, bp |-> Hw(i)] \in Entries(live)
    BY <1>0, <1>2 DEF HwFits, On
  <2>2. comps[i].addr \in Keys(live)
    BY <2>1 DEF Keys, Entries
  <2>3. comps[i].addr \in K
    BY <1>0, <2>1 DEF ListsFit
  <2> QED
    BY <1>1, <2>2, <2>3
<1>5. \A i, j \in On : comps[i].addr = comps[j].addr => i = j
  <2> SUFFICES ASSUME NEW i \in On, NEW j \in On, comps[i].addr = comps[j].addr
               PROVE  i = j
    OBVIOUS
  <2>1. /\ [key |-> comps[i].addr, bp |-> Hw(i)] \in Held
        /\ [key |-> comps[j].addr, bp |-> Hw(j)] \in Held
    BY <1>0 DEF HwFits, On
  <2>2. KeysDiffer(Held)
    BY <1>0, HeldType
  <2>3. Hw(i) = Hw(j)
    BY <2>1, <2>2 DEF KeysDiffer
  <2> QED
    BY <2>3 DEF Hw
<1>6. Cardinality(On) <= Cardinality(K \ {k})
  <2> DEFINE f == [i \in On |-> comps[i].addr]
  <2>1. f \in [On -> K \ {k}]
    BY <1>4
  <2>2. IsFiniteSet(K \ {k}) /\ IsFiniteSet(On)
    BY <1>3, FS_RemoveElement, OnFinite DEF On
  <2>3. ~\E i, j \in On : i # j /\ f[i] = f[j]
    BY <1>5
  <2> HIDE DEF f, K, k
  <2>4. Cardinality(K \ {k}) \in Nat /\ Cardinality(On) \in Nat
    BY <2>2, FS_CardinalityType
  <2>5. ~(Cardinality(K \ {k}) < Cardinality(On))
    BY <2>1, <2>2, <2>3, FS_PigeonHole
  <2> QED
    BY <2>4, <2>5
<1>7. Cardinality(K \ {k}) = Cardinality(K) - 1 /\ Cardinality(K) \in Nat
  <2> HIDE DEF K, k
  <2> QED
    BY <1>1, <1>3, FS_RemoveElement, FS_CardinalityType
<1>8. Cardinality(On) = used /\ used \in Int /\ Cardinality(On) < NumComps
  BY <1>0, <1>6, <1>7, OnFinite, BkptAssumption
     DEF CountInv, Uncounted, Shapes, On, Room
<1>9. Free # {}
  <2> SUFFICES ASSUME Free = {}
               PROVE  FALSE
    OBVIOUS
  <2>1. On = Comp
    BY DEF Free, On
  <2>2. Cardinality(Comp) = NumComps
    BY FS_Interval, BkptAssumption DEF Comp
  <2> QED
    BY <1>8, <2>1, <2>2, BkptAssumption
<1> QED
  BY <1>8, <1>9, BkptAssumption DEF available

(* Each step keeps what has been walked over live.                         *)
LEMMA KeptStep ==
  ASSUME Faulty = {}, "reset" \notin Ops, FpbRev = 2 \/ HighAddr \subseteq Writable,
         KeptInv, Serving, [Next]_vars
  PROVE  KeptInv'
<1> USE DEF dicts, fpb, ram, work, marks
<1>1. ExactInv /\ CountInv' /\ Shapes /\ Calm /\ Fits
  BY CountInvStep DEF KeptInv, CountInv, TypeInv, Serving, Unspoilt, Calm, ExactInv
<1> DEFINE Walked == \A i \in DOMAIN updated : i \notin added => updated[i].key \in Keys(live)
<1> SUFFICES ASSUME pc' \in Running, Room'
             PROVE  Walked'
  BY <1>1 DEF KeptInv, WalkedAreLive
<1>2. /\ live \in Seq(Entry) /\ updated \in Seq(Entry)
      /\ pc \in Running => pc \in Flushing /\ Held = Entries(live)
  BY <1>1 DEF Shapes, Running, Flushing, Held
<1>4. CASE UNCHANGED <<live, updated, added, pc>>
  BY <1>4 DEF KeptInv, WalkedAreLive, Room
<1>5. ASSUME pc = "idle", NEW isStep \in BOOLEAN, StartFlush(isStep), UNCHANGED <<dicts, fpb>>
      PROVE  Walked'
  <2> SUFFICES ASSUME NEW i \in DOMAIN updated, i \notin added'
               PROVE  updated[i].key \in Keys(live)
    BY <1>5
  <2>1. BpAddr(updated[i].bp) \in Keys(live)
    BY <1>5 DEF StartFlush, Added
  <2>2. i \in Ahead /\ DictsFit
    BY <1>1, <1>5 DEF Ahead, Flushing, Fits
  <2> QED
    BY <2>1, <2>2 DEF DictsFit
<1>6. CASE Resume
  BY <1>5, <1>6 DEF Resume
<1>7. CASE Step
  BY <1>5, <1>7 DEF Step
<1>8. ASSUME NEW b \in BOOLEAN, OtherCoreRuns(b)
      PROVE  Walked'
  BY <1>5, <1>8 DEF OtherCoreRuns
<1>9. ASSUME NEW e \in removed,
             RemoveOne(e) \/ RemoveUnknown(e) \/ SwRemoveFails(e) \/ HwRemoveFails(e)
      PROVE  Walked'
  <2>1. RemoveOne(e)
    BY <1>1, <1>9, NoneUnknown DEF RemoveUnknown, SwRemoveFails, HwRemoveFails, Fail
  <2>2. /\ pc \in Running /\ pc' = pc /\ UNCHANGED <<updated, added>>
        /\ Held = Entries(live)
    BY <2>1 DEF RemoveOne, Held, Running
  <2>3. e \in Entries(live) /\ e.key \notin Keys(updated) /\ Keyed(live)
    BY <1>1, <1>2, <2>2 DEF ExactInv, Fits, ListsFit, TransparentInv, BackedInv
  <2>4. live' = Del(live, e.key)
    BY <1>1, <1>2, <2>1, <2>2, <2>3, HeldType DEF RemoveOne, Forget
  <2>5. Entries(live') = Entries(live) \ {e}
    BY <1>2, <2>3, <2>4, DelEntries
  <2>6. ASSUME NEW i \in DOMAIN updated, i \notin added
        PROVE  updated[i].key \in Keys(live')
    <3>1. updated[i].key \in Keys(live) /\ updated[i].key \in Keys(updated)
      BY <2>2, <2>6 DEF KeptInv, WalkedAreLive, Room, Keys
    <3>2. PICK x \in Entries(live) : x.key = updated[i].key
      BY <3>1 DEF Keys, Entries
    <3>3. x \in Entries(live')
      BY <2>3, <2>5, <3>1, <3>2
    <3> QED
      BY <3>2, <3>3 DEF Keys, Entries
  <2> QED
    BY <2>2, <2>6
<1>10. CASE AddOne
  <2> DEFINE a == NextAddr
             n == FirstOf(added)
  <2>1. /\ pc \in Running /\ Room /\ added # {} /\ added' = added \ {n}
        /\ updated' = updated /\ Adding
    BY <1>10 DEF AddOne, Adding, Room
  <2>2. n \in DOMAIN updated /\ a = updated[n].key /\ a \in Addr /\ a \notin Keys(live)
    BY <1>1, <1>2, <2>1, NextIsNew
  <2>3. available > 0 /\ Free # {}
    BY <2>1, OneAvailable
  <2>4. InHwRange(a) \/ a \in Writable
    BY DEF InHwRange
  <2>5. NextType \in {"HW", "SW"} /\ (NextType = "HW" => InHwRange(a))
    <3> DEFINE bp == updated[n].bp
    <3>1. BpType(bp) \in Type
      <4>1. bp \in Breakpoint
        <5>1. \A i \in DOMAIN updated : updated[i] \in Entry
          BY <1>2
        <5> HIDE DEF n
        <5> QED
          BY <2>2, <5>1 DEF Entry
      <4> QED
        BY <4>1 DEF Breakpoint, New, Hw, Sw, BpType, Type
    <3>2. NextType = SelectType(bp, allowAll) /\ a = BpAddr(bp)
      BY DEF NextType, NextAddr
    <3> HIDE DEF a, bp
    <3> QED
      BY <2>3, <2>4, <3>1, <3>2 DEF SelectType, Type
  <2>6. available # 0
    BY <2>3
  <2>7. \E bp : live' = Put(live, a, bp)
    BY <1>10, <2>3, <2>5, <2>6 DEF AddOne, HwSet, SwSet, FindsFree
  <2>8. Keys(live) \cup {a} \subseteq Keys(live')
    <3>1. PICK bp : live' = Append(live, [key |-> a, bp |-> bp])
      BY <2>2, <2>7 DEF Put
    <3> HIDE DEF a
    <3> QED
      BY <1>2, <3>1, AppendKeys
  <2>9. ASSUME NEW i \in DOMAIN updated, i \notin added'
        PROVE  updated[i].key \in Keys(live')
    <3>1. CASE i = n
      BY <2>2, <2>8, <3>1
    <3>2. CASE i # n
      BY <2>1, <2>8, <2>9, <3>2 DEF KeptInv, WalkedAreLive
    <3> QED
      BY <3>1, <3>2
  <2> QED
    BY <2>1, <2>9
<1>11. ~SwSetFails /\ ~HwSetFails
  BY DEF SwSetFails, HwSetFails, Fail
<1>13. ~FlushEnd /\ ~ResetAndHalt /\ ~ResetEnd /\ ~ResetRaises /\ ~Disconnect
       /\ ~DisconnectResume /\ ~DisconnectEnd /\ ~Reset /\ ~EmulatedReset
  BY DEF FlushEnd, ResetAndHalt, ResetEnd, ResetRaises, Disconnect, DisconnectResume,
         DisconnectEnd, Reset, EmulatedReset, StartRemoveAll, Running
<1>14. ASSUME NEW a \in Addr
       PROVE  ~RemoveBreakpoint(a) /\ \A t \in Type : ~SetBreakpoint(a, t)
  BY DEF SetBreakpoint, RemoveBreakpoint, Running
<1>15. CASE CoreHalts \/ Closed \/ UNCHANGED vars
  BY <1>4, <1>15 DEF CoreHalts, Closed, vars
<1>16. ASSUME NEW a \in Addr, NEW v \in Code, WriteMemory(a, v)
       PROVE  Walked'
  BY <1>4, <1>16 DEF WriteMemory
<1> HIDE DEF Walked
<1> QED
  BY <1>4, <1>6, <1>7, <1>8, <1>9, <1>10, <1>11, <1>13, <1>14, <1>15, <1>16 DEF Next

(* On an instance without failing accesses, where no core is reset through *)
(* the debugger, no flush drops a breakpoint as long as the FPB has a      *)
(* comparator for each and reaches every address that is not in RAM.       *)
THEOREM NothingLostAlways ==
  ASSUME Faulty = {}, "write_over" \notin Ops, "reset" \notin Ops,
         "disconnect_resume" \notin Ops, FpbRev = 2 \/ HighAddr \subseteq Writable
  PROVE  Spec => NothingLostIfRoom
<1> DEFINE Inv == KeptInv /\ Serving
<1>1. Init => Inv
  <2> SUFFICES ASSUME Init PROVE Inv
    OBVIOUS
  <2>1. pc \notin Running
    BY DEF Init, Running
  <2> QED
    BY <2>1, ServingInit, CountInvInit DEF KeptInv, WalkedAreLive
<1>2. Inv /\ [Next]_vars => Inv'
  BY KeptStep, ServingStep
<1>3. Inv /\ [Next]_vars
        => [FlushEnd /\ Cardinality(Keys(updated)) <= NumComps
              => Keys(updated') = Keys(updated)]_vars
  <2> SUFFICES ASSUME Inv, FlushEnd, Room
               PROVE  Keys(updated') = Keys(updated)
    BY DEF Room
  <2>1. /\ pc \in Running /\ pc \in Flushing /\ removed = {} /\ added = {}
        /\ updated' = live /\ ListsFit
    BY DEF FlushEnd, Flushing, Serving, Unspoilt, Calm, ExactInv, Fits, Running
  <2>2. \A i \in DOMAIN updated : updated[i].key \in Keys(live)
    BY <2>1 DEF KeptInv, WalkedAreLive
  <2>3. \A e \in Entries(live) : e.key \in Keys(updated)
    BY <2>1 DEF ListsFit
  <2> QED
    BY <2>1, <2>2, <2>3 DEF Keys, Entries
<1> QED
  BY <1>1, <1>2, <1>3, PTL DEF Spec, NothingLostIfRoom
=============================================================================
