---------------------------- MODULE Target_proofs ----------------------------
(***************************************************************************)
(* Proofs about accesses to the target.  The DebugPort, for any threads,   *)
(* banks, accesses and sessions: type correctness, the balance of the      *)
(* probe's lock, and that in the sessions that are Sheltered every access  *)
(* finds its bank selected.  Then memory: accesses of a MEM-AP are         *)
(* accesses of the DebugPort, so that what is proved of it holds for every *)
(* MEM-AP, and each transfer finds the size and the address it was meant   *)
(* for.                                                                    *)
(***************************************************************************)
EXTENDS MemAp, TLAPS

-----------------------------------------------------------------------------
(* What SELECT will hold                                                   *)

(* v may be in SELECT when the request at i, or one appended to a shorter  *)
(* queue, is executed.                                                     *)
InEffect(s, q, i, v) ==
  \/ v = s /\ \A k \in 1..(i - 1) : q[k].kind = "access"
  \/ \E j \in 1..(i - 1) : /\ q[j].kind = "select" /\ q[j].value = v
                           /\ \A k \in (j + 1)..(i - 1) : q[k].kind = "access"

(* Once the queue is empty, SELECT can only hold value.                    *)
EndsWith(value) ==
  \A v \in SelectType : InEffect(select, queue, Len(queue) + 1, v) => v = value

(* ... a value that names the bank of access.                              *)
EndsIn(access) ==
  \A v \in SelectType :
    InEffect(select, queue, Len(queue) + 1, v) => v[access.field] = access.bank

-----------------------------------------------------------------------------
(* The inductive invariant                                                 *)

(* A thread in the middle of an access has it at the head of its program,  *)
(* and only AP accesses come in programs of several.                       *)
ProgramsKept ==
  \A t \in Thread :
    /\ program[t] = <<>> <=> pc[t] \in {"idle", "collecting", "flushing", "resetting"}
    /\ pc[t] \in {"selecting", "selected"} => Head(program[t]).field \in Field
    /\ pc[t] = "collecting" => pending[t] # <<>>
    /\ Len(program[t]) > 1 => \A i \in DOMAIN program[t] : program[t][i].field = "ap"

(* The levels of the lock a thread will give back.                         *)
Inside == {"selecting", "selected", "access", "accessing"}
Holds(t) ==
  Len(pending[t])
  + (IF program[t] = <<>> THEN 0 ELSE Outer(Head(program[t])))
  + (IF pc[t] \in Inside THEN Inner(Head(program[t])) ELSE 0)

LockKept ==
  /\ \A t \in Thread : Holds(t) # 0 => owner = t
  /\ depth = lost + (IF owner = NoThread THEN 0 ELSE Holds(owner))

(* One call of the probe at a time, whose request is the only one when     *)
(* requests are not deferred; an error is that of the first request.       *)
CallsKept ==
  /\ \A t, u \in Thread : pc[t] \in Calling /\ pc[u] \in Calling => t = u
  /\ mode.alone => \A t, u \in Thread : pc[t] # "idle" /\ pc[u] # "idle" => t = u
  /\ error # "none" => /\ queue # <<>> /\ error \in mode.kinds
                       /\ CanFail(Head(queue), error)
  /\ ~mode.deferred /\ queue # <<>> =>
       /\ Len(queue) = 1
       /\ \E t \in Thread : /\ pc[t] \in Calling
                            /\ pc[t] = "selecting" <=> Head(queue).kind = "select"

(* Queued accesses will find their banks; the cached SELECT, or else the   *)
(* value being written, is what the queue ends with; and a thread about to *)
(* make an access finds its bank selected.                                 *)
Meant ==
  /\ \A i \in DOMAIN queue :
       queue[i].kind = "access" /\ queue[i].value.field \in Field =>
         \A v \in SelectType :
           InEffect(select, queue, i, v) => v[queue[i].value.field] = queue[i].value.bank
  /\ cached # Unknown /\ (\A t \in Thread : pc[t] \notin {"selecting", "selected"})
       => EndsWith(cached)
  /\ \A t \in Thread : pc[t] \in {"selecting", "selected"} =>
       /\ choice[t] \in SelectType /\ EndsWith(choice[t])
       /\ choice[t][Head(program[t]).field] = Head(program[t]).bank
  /\ \A t \in Thread : pc[t] = "access" /\ Head(program[t]).field \in Field
       => EndsIn(Head(program[t]))

Kept == TypeOK /\ ProgramsKept /\ LockKept /\ CallsKept
IInv == Kept /\ (Sheltered => Meant)

-----------------------------------------------------------------------------
(* The queue and what SELECT holds at its end                              *)

(* Nothing queued: SELECT stays what it is.                                *)
LEMMA EffectOfNothing ==
  ASSUME NEW s, NEW q, NEW v, InEffect(s, q, 1, v)
  PROVE  v = s
BY DEF InEffect

(* A queued access leaves SELECT.                                          *)
LEMMA EffectOfAccess ==
  ASSUME NEW s, NEW q \in Seq(Request), NEW access \in Access, NEW v,
         InEffect(s, Append(q, AccessRequest(access)), Len(q) + 2, v)
  PROVE  InEffect(s, q, Len(q) + 1, v)
<1> DEFINE r == Append(q, AccessRequest(access))
<1>1. /\ Len(q) \in Nat
      /\ \A k \in 1..Len(q) : r[k] = q[k]
      /\ r[Len(q) + 1].kind = "access"
  BY DEF AccessRequest
<1>2. "access" # "select"
  OBVIOUS
<1> HIDE DEF r
<1> QED
  BY <1>1, <1>2 DEF InEffect, r

(* A queued write of SELECT decides it.                                    *)
LEMMA EffectOfSelect ==
  ASSUME NEW s, NEW q \in Seq(Request), NEW value \in SelectType, NEW v,
         InEffect(s, Append(q, SelectRequest(value)), Len(q) + 2, v)
  PROVE  v = value
<1> DEFINE r == Append(q, SelectRequest(value))
<1>1. Len(q) \in Nat /\ r[Len(q) + 1] = SelectRequest(value)
  OBVIOUS
<1>2. /\ r[Len(q) + 1].kind = "select" /\ r[Len(q) + 1].value = value
      /\ "access" # "select"
  BY <1>1 DEF SelectRequest
<1> HIDE DEF r
<1> QED
  BY <1>1, <1>2 DEF InEffect, r

(* What is queued later does not matter to an earlier request.             *)
LEMMA EffectBefore ==
  ASSUME NEW s, NEW q \in Seq(Request), NEW request, NEW i \in 1..(Len(q) + 1), NEW v,
         InEffect(s, Append(q, request), i, v)
  PROVE  InEffect(s, q, i, v)
<1>1. \A k \in 1..(i - 1) : Append(q, request)[k] = q[k]
  OBVIOUS
<1> QED
  BY <1>1 DEF InEffect

(* Executing the first request moves its effect into the register.         *)
LEMMA EffectOfDelivery ==
  ASSUME NEW s, NEW q \in Seq(Request), q # <<>>, NEW i \in 1..Len(q), NEW v,
         NEW s1, s1 = IF Head(q).kind = "select" THEN Head(q).value ELSE s,
         InEffect(s1, Tail(q), i, v)
  PROVE  InEffect(s, q, i + 1, v)
<1>1. /\ Head(q) = q[1] /\ Len(q) \in Nat
      /\ \A k \in 1..(i - 1) : Tail(q)[k] = q[k + 1]
  OBVIOUS
<1>2. q[1].kind \in {"select", "access"}
  BY DEF Request
<1>3. CASE v = s1 /\ \A k \in 1..(i - 1) : Tail(q)[k].kind = "access"
  <2>1. \A k \in 2..i : q[k].kind = "access"
    <3>1. \A k \in 2..i : k - 1 \in 1..(i - 1) /\ Tail(q)[k - 1] = q[k]
      BY <1>1
    <3> QED
      BY <1>3, <3>1
  <2>2. CASE q[1].kind = "select"
    BY <1>1, <1>3, <2>1, <2>2 DEF InEffect
  <2>3. CASE q[1].kind = "access"
    <3>1. v = s /\ \A k \in 1..i : q[k].kind = "access"
      BY <1>1, <1>3, <2>1, <2>3
    <3> QED
      BY <3>1 DEF InEffect
  <2> QED
    BY <1>2, <2>2, <2>3
<1>4. CASE \E j \in 1..(i - 1) : /\ Tail(q)[j].kind = "select" /\ Tail(q)[j].value = v
                                 /\ \A k \in (j + 1)..(i - 1) : Tail(q)[k].kind = "access"
  <2>1. PICK j \in 1..(i - 1) :
          /\ Tail(q)[j].kind = "select" /\ Tail(q)[j].value = v
          /\ \A k \in (j + 1)..(i - 1) : Tail(q)[k].kind = "access"
    BY <1>4
  <2>2. j + 1 \in 1..i /\ q[j + 1].kind = "select" /\ q[j + 1].value = v
    BY <1>1, <2>1
  <2>3. ASSUME NEW k \in (j + 2)..i
        PROVE  q[k].kind = "access"
    <3>1. k - 1 \in (j + 1)..(i - 1) /\ Tail(q)[k - 1] = q[k]
      BY <1>1
    <3> QED
      BY <2>1, <3>1
  <2> QED
    BY <2>2, <2>3 DEF InEffect
<1> QED
  BY <1>3, <1>4 DEF InEffect

-----------------------------------------------------------------------------
(* Facts about the parts of a step                                         *)

(* An access takes at most one level of the lock outside and one inside.   *)
LEMMA OuterInner ==
  ASSUME NEW access \in Access
  PROVE  Outer(access) \in {0, 1} /\ Inner(access) \in {0, 1}
BY DEF Outer, Inner

(* Programs are nonempty sequences of accesses.                            *)
LEMMA ProgramType ==
  ASSUME NEW accesses \in Programs
  PROVE  /\ accesses \in Seq(Access) /\ accesses # <<>> /\ Head(accesses) \in Access
         /\ Len(accesses) > 1 => \A i \in DOMAIN accesses : accesses[i].field = "ap"
<1>1. accesses \in Seq(Access) /\ accesses # <<>>
  BY DebugPortAssumption
<1>2. Head(accesses) \in Access
  BY <1>1
<1>3. Len(accesses) = 1 \/ \A i \in DOMAIN accesses : accesses[i].field = "ap"
  BY DebugPortAssumption
<1>4. Len(accesses) \in Nat
  BY <1>1
<1>5. Len(accesses) > 1 => Len(accesses) # 1
  <2> DEFINE n == Len(accesses)
  <2>1. n \in Nat
    BY <1>4
  <2> HIDE DEF n
  <2>2. n > 1 => n # 1
    BY <2>1
  <2> QED
    BY <2>2, Zenon DEF n
<1> QED
  BY <1>1, <1>2, <1>3, <1>5, Zenon

(* The rest of a sequence is one shorter.                                  *)
LEMMA TailType ==
  ASSUME NEW p \in Seq(Access), p # <<>>
  PROVE  /\ Tail(p) \in Seq(Access)
         /\ Tail(p) = <<>> <=> Len(p) = 1
         /\ Len(Tail(p)) > 1 => Len(p) > 1
         /\ \A i \in DOMAIN Tail(p) : i + 1 \in DOMAIN p /\ Tail(p)[i] = p[i + 1]
<1>1. Tail(p) \in Seq(Access) /\ Len(Tail(p)) = Len(p) - 1 /\ Len(p) \in Nat
  OBVIOUS
<1>2. \A q \in Seq(Access) : q = <<>> <=> Len(q) = 0
  OBVIOUS
<1>3. \A i \in DOMAIN Tail(p) : i + 1 \in DOMAIN p /\ Tail(p)[i] = p[i + 1]
  BY <1>1
<1>4. Len(Tail(p)) = 0 <=> Len(p) = 1
  BY <1>1
<1>5. Len(Tail(p)) > 1 => Len(p) > 1
  BY <1>1
<1> QED
  BY <1>1, <1>2, <1>3, <1>4, <1>5, Zenon

(* The accounts of the lock are natural numbers.                           *)
LEMMA HoldsType ==
  ASSUME TypeOK, ProgramsKept, NEW t \in Thread
  PROVE  /\ Holds(t) \in Nat /\ Len(pending[t]) \in Nat
         /\ program[t] # <<>> => /\ Head(program[t]) \in Access
                                 /\ Outer(Head(program[t])) \in {0, 1}
                                 /\ Inner(Head(program[t])) \in {0, 1}
         /\ pc[t] \in Inside => program[t] # <<>>
<1>1. program[t] # <<>> => Head(program[t]) \in Access
  BY DEF TypeOK
<1>2. program[t] # <<>> => /\ Outer(Head(program[t])) \in {0, 1}
                           /\ Inner(Head(program[t])) \in {0, 1}
  BY <1>1, OuterInner
<1>3. pc[t] \in Inside => program[t] # <<>>
  BY DEF ProgramsKept, Inside
<1>4. Len(pending[t]) \in Nat
  BY DEF TypeOK
<1> QED
  BY <1>1, <1>2, <1>3, <1>4 DEF Holds

(* Nobody holds more of the lock than there is.                            *)
LEMMA HoldsDepth ==
  ASSUME TypeOK, ProgramsKept, LockKept, NEW t \in Thread
  PROVE  Holds(t) <= depth
<1>1. Holds(t) \in Nat
  BY HoldsType
<1>2. CASE Holds(t) = 0
  BY <1>2 DEF TypeOK
<1>3. CASE Holds(t) # 0
  <2>1. owner = t /\ owner # NoThread
    BY <1>3, DebugPortAssumption DEF LockKept
  <2>2. depth = lost + Holds(t)
    BY <2>1 DEF LockKept
  <2> QED
    BY <1>1, <1>3, <2>2 DEF TypeOK
<1> QED
  BY <1>2, <1>3

(* The value chosen for SELECT has the access's bank in its field.         *)
LEMMA ChosenRight ==
  ASSUME TypeOK, NEW access \in Access, access.field \in Field
  PROVE  Chosen(access) \in SelectType /\ Chosen(access)[access.field] = access.bank
<1>1. access.bank \in Bank /\ Base \in SelectType
  BY DebugPortAssumption DEF SelectType
<1> QED
  BY <1>1 DEF Chosen, SelectType, TypeOK

-----------------------------------------------------------------------------
(* Type correctness                                                        *)

LEMMA TypeInit == Init => TypeOK
<1> SUFFICES ASSUME Init PROVE TypeOK
  OBVIOUS
<1>1. queue \in Seq(Request) /\ 0 \in Nat
  BY DEF Init
<1> QED
  BY <1>1, DebugPortAssumption DEF Init, TypeOK, Places, Kind

(* What a step does to the threads' variables is well typed.               *)
LEMMA TypeStep ==
  ASSUME Kept, [Next]_vars
  PROVE  TypeOK'
<1> USE DEF Kept
<1>0. \A t \in Thread : Holds(t) \in Nat /\ Holds(t) <= depth
  BY HoldsType, HoldsDepth
<1>00. depth \in Nat /\ lost \in Nat
  BY DEF TypeOK
<1>1. CASE Deliver
  <2>1. /\ Tail(queue) \in Seq(Request) /\ Head(queue) \in Request
    BY <1>1 DEF Deliver, TypeOK
  <2>2. Head(queue).kind = "select" => Head(queue).value \in SelectType
    BY <2>1 DEF Request
  <2> QED
    BY <1>1, <2>1, <2>2 DEF Deliver, TypeOK, lockVars, threadVars
<1>2. ASSUME NEW kind \in Kind, Fail(kind)
      PROVE  TypeOK'
  <2>1. queue # <<>> /\ Head(queue).kind = "select" => Head(queue).value \in SelectType
    <3> SUFFICES ASSUME queue # <<>>, Head(queue).kind = "select"
                 PROVE  Head(queue).value \in SelectType
      OBVIOUS
    <3>1. Head(queue) \in Request
      BY DEF TypeOK
    <3> QED BY <3>1 DEF Request
  <2>2. select' \in SelectType
    BY <1>2, <2>1 DEF Fail, TypeOK
  <2> QED
    BY <1>2, <2>2 DEF Fail, TypeOK, lockVars, threadVars
<1>3. ASSUME NEW t \in Thread, NEW accesses \in Programs, Begin(t, accesses)
      PROVE  TypeOK'
  <2>1. accesses \in Seq(Access)
    BY ProgramType
  <2>2. /\ owner' \in Thread \cup {NoThread} /\ depth' \in Nat /\ lost' \in Nat
        /\ owner' = NoThread <=> depth' = 0
    BY <1>3, DebugPortAssumption DEF Begin, Lock, lockVars, TypeOK
  <2>3. pc' \in [Thread -> Places] /\ calls' \in 0..MaxCalls
    BY <1>3, DebugPortAssumption DEF Begin, At, Places, TypeOK
  <2> QED
    BY <1>3, <2>1, <2>2, <2>3 DEF Begin, TypeOK
<1>4. ASSUME NEW t \in Thread, SelectBank(t)
      PROVE  TypeOK'
  <2> DEFINE access == Head(program[t])
  <2>1. program[t] # <<>> /\ access \in Access /\ access.field \in Field
    BY <1>4, HoldsType DEF SelectBank, ProgramsKept
  <2>2. Chosen(access) \in SelectType
    BY <2>1, ChosenRight
  <2>3. SelectRequest(Chosen(access)) \in Request
    BY <2>2 DEF SelectRequest, Request
  <2>4. queue' \in Seq(Request) /\ choice' \in [Thread -> SelectType \cup {Unknown}]
    <3>1. \/ UNCHANGED <<queue, choice>>
          \/ /\ queue' = Append(queue, SelectRequest(Chosen(access)))
             /\ choice' = [choice EXCEPT ![t] = Chosen(access)]
      BY <1>4 DEF SelectBank
    <3>2. queue \in Seq(Request) /\ choice \in [Thread -> SelectType \cup {Unknown}]
      BY DEF TypeOK
    <3> DEFINE value == Chosen(access)
    <3>3. CASE UNCHANGED <<queue, choice>>
      BY <3>2, <3>3
    <3>4. CASE /\ queue' = Append(queue, SelectRequest(value))
               /\ choice' = [choice EXCEPT ![t] = value]
      <4> HIDE DEF value
      <4> QED
        BY <3>2, <3>4, <2>2, <2>3 DEF value
    <3> QED
      BY <3>1, <3>3, <3>4
  <2>5. /\ owner' \in Thread \cup {NoThread} /\ depth' \in Nat /\ lost' \in Nat
        /\ owner' = NoThread <=> depth' = 0
    BY <1>4, DebugPortAssumption DEF SelectBank, Lock, TypeOK
  <2>6. pc' \in [Thread -> Places]
    BY <1>4 DEF SelectBank, At, Places, TypeOK
  <2> QED
    BY <1>4, <2>4, <2>5, <2>6 DEF SelectBank, TypeOK
<1>5. ASSUME NEW t \in Thread, SelectNothing(t) \/ SelectReturns(t)
      PROVE  TypeOK'
  BY <1>5 DEF SelectNothing, SelectReturns, At, Places, TypeOK, lockVars
<1>6. ASSUME NEW t \in Thread, Remember(t)
      PROVE  TypeOK'
  BY <1>6 DEF Remember, At, Places, TypeOK, lockVars
<1>7. ASSUME NEW t \in Thread, Issue(t)
      PROVE  TypeOK'
  <2>1. program[t] # <<>> /\ Head(program[t]) \in Access
    BY <1>7, HoldsType DEF Issue, Inside
  <2>2. AccessRequest(Head(program[t])) \in Request
    BY <2>1 DEF AccessRequest, Request
  <2>3. queue' \in Seq(Request)
    BY <1>7, <2>2 DEF Issue, TypeOK
  <2> QED
    BY <1>7, <2>3 DEF Issue, At, Places, TypeOK, lockVars
<1>8. ASSUME NEW t \in Thread, Return(t)
      PROVE  TypeOK'
  <2> DEFINE access == Head(program[t])
             levels == Levels(access, Len(program[t]) = 1)
  <2>1. program[t] # <<>> /\ access \in Access /\ pc[t] \in Inside
    BY <1>8, HoldsType DEF Return, Inside
  <2>2. Tail(program[t]) \in Seq(Access) /\ Append(pending[t], access) \in Seq(Access)
    BY <2>1 DEF TypeOK
  <2>3. levels \in Nat /\ levels <= Holds(t) /\ Holds(t) \in Nat
    BY <2>1, HoldsType DEF Levels, Holds
  <2>4. levels <= depth
    BY <1>0, <1>00, <2>3
  <2>5. /\ owner' \in Thread \cup {NoThread} /\ depth' \in Nat /\ lost' \in Nat
        /\ owner' = NoThread <=> depth' = 0
    <3>1. Unlock(levels, 0)
      BY <1>8 DEF Return
    <3> HIDE DEF levels
    <3> QED
      BY <3>1, <2>3, <2>4, DebugPortAssumption DEF Unlock, TypeOK
  <2>6. pc' \in [Thread -> Places]
    BY <1>8 DEF Return, At, Places, TypeOK
  <2>7. pending' \in [Thread -> Seq(Access)] /\ program' \in [Thread -> Seq(Access)]
    BY <1>8, <2>2 DEF Return, TypeOK
  <2> QED
    BY <1>8, <2>5, <2>6, <2>7 DEF Return, TypeOK
<1>9. ASSUME NEW t \in Thread, Collect(t) \/ Flush(t) \/ Flushed(t)
      PROVE  TypeOK'
  <2>1. calls' \in 0..MaxCalls
    BY <1>9, DebugPortAssumption DEF Collect, Flush, Flushed, TypeOK
  <2> QED
    BY <1>9, <2>1 DEF Collect, Flush, Flushed, At, Places, TypeOK, lockVars
<1>10. ASSUME NEW t \in Thread, Collected(t)
       PROVE  TypeOK'
  <2>1. pending[t] # <<>> /\ Tail(pending[t]) \in Seq(Access) /\ Len(pending[t]) > 0
    BY <1>10 DEF Collected, ProgramsKept, TypeOK
  <2>2. depth > 0
    <3>1. Len(pending[t]) \in Nat /\ Holds(t) >= Len(pending[t])
      BY HoldsType DEF Holds
    <3> QED
      BY <1>0, <1>00, <2>1, <3>1
  <2> QED
    BY <1>10, <2>1, <2>2, DebugPortAssumption DEF Collected, Unlock, At, Places, TypeOK
<1>11. ASSUME NEW t \in Thread, Raise(t)
       PROVE  TypeOK'
  <2>1. /\ owner' \in Thread \cup {NoThread} /\ depth' \in Nat /\ lost' \in Nat
        /\ owner' = NoThread <=> depth' = 0
    <3>1. CASE pc[t] = "selecting"
      <4>1. Holds(t) >= 1 + Outer(Head(program[t])) /\ Holds(t) <= depth
        <5>1. pc[t] \in Inside /\ program[t] # <<>>
          BY <3>1, HoldsType DEF Inside
        <5>2. Inner(Head(program[t])) = 1
          BY <3>1 DEF ProgramsKept, Inner
        <5> QED
          BY <1>0, <5>1, <5>2, HoldsType DEF Holds
      <4>2. Unlock(Outer(Head(program[t])), 1)
        BY <1>11, <3>1 DEF Raise
      <4> QED
        <5>1. program[t] # <<>> /\ Outer(Head(program[t])) \in {0, 1} /\ Inner(Head(program[t])) \in {0, 1}
          BY <3>1, HoldsType DEF Inside
        <5> QED
          BY <1>0, <1>00, <4>1, <4>2, <5>1, DebugPortAssumption DEF Unlock, TypeOK
    <3>2. CASE pc[t] = "accessing"
      <4>1. Holds(t) >= Inner(Head(program[t])) + Outer(Head(program[t])) /\ Holds(t) <= depth
        <5>1. pc[t] \in Inside /\ program[t] # <<>>
          BY <3>2, HoldsType DEF Inside
        <5> QED
          BY <1>0, <5>1, HoldsType DEF Holds
      <4>2. Unlock(Outer(Head(program[t])) + Inner(Head(program[t])), 0)
        BY <1>11, <3>2 DEF Raise
      <4> QED
        <5>1. program[t] # <<>> /\ Outer(Head(program[t])) \in {0, 1} /\ Inner(Head(program[t])) \in {0, 1}
          BY <3>2, HoldsType DEF Inside
        <5> QED
          BY <1>0, <1>00, <4>1, <4>2, <5>1, DebugPortAssumption DEF Unlock, TypeOK
    <3>3. CASE pc[t] = "collecting"
      <4>1. Len(pending[t]) > 0
        BY <3>3 DEF ProgramsKept, TypeOK
      <4> QED
        <5>1. Len(pending[t]) \in Nat /\ Holds(t) >= Len(pending[t])
          BY HoldsType DEF Holds
        <5>2. Unlock(1, 0)
          BY <1>11, <3>3 DEF Raise
        <5> QED
          BY <1>0, <1>00, <4>1, <5>1, <5>2, DebugPortAssumption DEF Unlock, TypeOK
    <3>4. CASE pc[t] = "flushing"
      BY <1>11, <3>4 DEF Raise, lockVars, TypeOK
    <3> QED
      BY <1>11, <3>1, <3>2, <3>3, <3>4 DEF Raise, Calling
  <2>2. cached' \in SelectType \cup {Unknown} /\ choice' \in [Thread -> SelectType \cup {Unknown}]
    BY <1>11 DEF Raise, AfterError, TypeOK
  <2>3. pc[t] = "collecting" => Tail(pending[t]) \in Seq(Access)
    BY DEF ProgramsKept, TypeOK
  <2>4. /\ pending' \in [Thread -> Seq(Access)] /\ program' \in [Thread -> Seq(Access)]
        /\ queue' \in Seq(Request) /\ error' \in Kind \cup {"none"}
    BY <1>11, <2>3 DEF Raise, TypeOK
  <2>5. pc' \in [Thread -> Places]
    BY <1>11 DEF Raise, At, Places, TypeOK
  <2> QED
    BY <1>11, <2>1, <2>2, <2>4, <2>5 DEF Raise, TypeOK
<1>12. ASSUME NEW t \in Thread, Reset(t) \/ ResetDone(t)
       PROVE  TypeOK'
  <2>0. Base \in SelectType
    BY DebugPortAssumption DEF SelectType
  <2>1. select' \in SelectType /\ queue' \in Seq(Request) /\ calls' \in 0..MaxCalls
    <3>1. CASE Reset(t)
      BY <3>1, DebugPortAssumption DEF Reset, TypeOK
    <3>2. CASE ResetDone(t)
      BY <3>2, <2>0 DEF ResetDone, TypeOK
    <3> QED
      BY <1>12, <3>1, <3>2
  <2>2. /\ owner' \in Thread \cup {NoThread} /\ depth' \in Nat /\ lost' \in Nat
        /\ owner' = NoThread <=> depth' = 0
        /\ cached' \in SelectType \cup {Unknown}
    <3>1. CASE Reset(t)
      BY <3>1 DEF Reset, TypeOK, lockVars
    <3>2. CASE ResetDone(t)
      <4>1. cached' \in {cached, Base, Unknown}
        BY <3>2 DEF ResetDone
      <4>2. CASE UNCHANGED lockVars
        BY <2>0, <4>1, <4>2 DEF TypeOK, lockVars
      <4>3. CASE owner' = t /\ depth' = depth + 1 /\ lost' = lost + 1
        BY <1>00, <2>0, <4>1, <4>3, DebugPortAssumption DEF TypeOK
      <4> QED BY <3>2, <4>2, <4>3 DEF ResetDone
    <3> QED
      BY <1>12, <3>1, <3>2
  <2> QED
    BY <1>12, <2>1, <2>2 DEF Reset, ResetDone, At, Places, TypeOK
<1>13. CASE UNCHANGED vars
  BY <1>13 DEF vars, TypeOK
<1> QED
  BY <1>1, <1>2, <1>3, <1>4, <1>5, <1>6, <1>7, <1>8, <1>9, <1>10, <1>11, <1>12, <1>13
  DEF Next, Target, Continue, Call

-----------------------------------------------------------------------------
(* Programs                                                                *)

LEMMA ProgramsStep ==
  ASSUME Kept, [Next]_vars
  PROVE  ProgramsKept'
<1> USE DEF Kept
<1>1. ASSUME Target \/ UNCHANGED vars
      PROVE  ProgramsKept'
  BY <1>1 DEF Target, Deliver, Fail, vars, threadVars, ProgramsKept
<1>2. ASSUME NEW t \in Thread, NEW accesses \in Programs, Begin(t, accesses)
      PROVE  ProgramsKept'
  BY <1>2, ProgramType DEF Begin, At, ProgramsKept, TypeOK
<1>3. ASSUME NEW t \in Thread,
             SelectBank(t) \/ SelectNothing(t) \/ SelectReturns(t) \/ Remember(t) \/ Issue(t)
      PROVE  ProgramsKept'
  <2>1. /\ UNCHANGED <<program, pending>>
        /\ \E place \in {"selecting", "selected", "access", "accessing"} :
             /\ At(t, place)
             /\ place \in {"selecting", "selected"} => Head(program[t]).field \in Field
    BY <1>3 DEF SelectBank, SelectNothing, SelectReturns, Remember, Issue, ProgramsKept
  <2>2. program[t] # <<>>
    BY <1>3 DEF SelectBank, SelectNothing, SelectReturns, Remember, Issue, ProgramsKept
  <2> QED
    BY <2>1, <2>2 DEF At, ProgramsKept, TypeOK
<1>4. ASSUME NEW t \in Thread, Return(t)
      PROVE  ProgramsKept'
  <2> DEFINE rest == Tail(program[t])
  <2>1. program[t] # <<>> /\ program[t] \in Seq(Access)
    BY <1>4, HoldsType DEF Return, Inside, TypeOK
  <2>2. /\ rest = <<>> <=> Len(program[t]) = 1
        /\ Len(rest) > 1 => Len(program[t]) > 1
        /\ \A i \in DOMAIN rest : i + 1 \in DOMAIN program[t] /\ rest[i] = program[t][i + 1]
    BY <2>1, TailType
  <2>3. Len(rest) > 1 => \A i \in DOMAIN rest : rest[i].field = "ap"
    BY <2>2 DEF ProgramsKept
  <2>4. /\ program' = [program EXCEPT ![t] = rest]
        /\ At(t, IF Len(program[t]) = 1 THEN "idle" ELSE "select")
        /\ \A u \in Thread \ {t} : pending'[u] = pending[u]
    BY <1>4 DEF Return, TypeOK
  <2>5. \A u \in Thread \ {t} : program'[u] = program[u] /\ pc'[u] = pc[u]
    BY <2>4 DEF At, TypeOK
  <2>6. program'[t] = rest /\ pc'[t] = IF Len(program[t]) = 1 THEN "idle" ELSE "select"
    BY <2>4 DEF At, TypeOK
  <2> HIDE DEF rest
  <2> QED
    BY <2>2, <2>3, <2>4, <2>5, <2>6 DEF ProgramsKept
<1>5. ASSUME NEW t \in Thread, Collect(t) \/ Flush(t) \/ Flushed(t) \/ Reset(t) \/ ResetDone(t)
      PROVE  ProgramsKept'
  <2>1. CASE Collect(t)
    BY <2>1 DEF Collect, At, ProgramsKept, TypeOK
  <2>2. CASE Flush(t) \/ Flushed(t)
    BY <2>2 DEF Flush, Flushed, At, ProgramsKept, TypeOK
  <2>3. CASE Reset(t)
    BY <2>3 DEF Reset, At, ProgramsKept, TypeOK
  <2>4. CASE ResetDone(t)
    BY <2>4 DEF ResetDone, At, ProgramsKept, TypeOK
  <2> QED BY <1>5, <2>1, <2>2, <2>3, <2>4
<1>6. ASSUME NEW t \in Thread, Collected(t)
      PROVE  ProgramsKept'
  BY <1>6 DEF Collected, At, ProgramsKept, TypeOK
<1>7. ASSUME NEW t \in Thread, Raise(t)
      PROVE  ProgramsKept'
  <2>1. \A u \in Thread \ {t} : /\ program'[u] = program[u] /\ pc'[u] = pc[u]
                                /\ pending'[u] = pending[u]
    BY <1>7 DEF Raise, At, TypeOK
  <2>2. program'[t] = <<>> /\ pc'[t] = "idle" /\ Len(program'[t]) = 0
    BY <1>7 DEF Raise, At, TypeOK
  <2> QED
    BY <2>1, <2>2 DEF ProgramsKept
<1> QED
  BY <1>1, <1>2, <1>3, <1>4, <1>5, <1>6, <1>7 DEF Next, Continue, Call

-----------------------------------------------------------------------------
(* The lock                                                                *)

(* Taking a level of the lock, ...                                         *)
LEMMA LockTaken ==
  ASSUME TypeOK, ProgramsKept, LockKept, NEW t \in Thread, Lock(t),
         \A u \in Thread \ {t} : Holds(u)' = Holds(u), Holds(t)' = Holds(t) + 1
  PROVE  LockKept'
<1>1. owner' = t /\ depth' = depth + 1 /\ lost' = lost /\ owner \in {NoThread, t}
  BY DEF Lock, Free
<1>2. t # NoThread /\ Holds(t) \in Nat /\ depth \in Nat /\ lost \in Nat
  BY DebugPortAssumption, HoldsType DEF TypeOK
<1>3. \A u \in Thread \ {t} : Holds(u) = 0
  BY <1>1, DebugPortAssumption DEF LockKept
<1>4. depth = lost + Holds(t)
  <2>1. CASE owner = t
    BY <1>2, <2>1 DEF LockKept
  <2>2. CASE owner = NoThread
    BY <1>2, <2>2 DEF LockKept, TypeOK
  <2> QED
    BY <1>1, <2>1, <2>2
<1> QED
  BY <1>1, <1>2, <1>3, <1>4 DEF LockKept

(* ... losing one that was just taken, ...                                 *)
LEMMA LockLost ==
  ASSUME TypeOK, LockKept, NEW t \in Thread, Free(t),
         owner' = t, depth' = depth + 1, lost' = lost + 1,
         \A u \in Thread : Holds(u)' = Holds(u), Holds(t) \in Nat
  PROVE  LockKept'
<1>1. t # NoThread /\ depth \in Nat /\ lost \in Nat /\ owner \in {NoThread, t}
  BY DebugPortAssumption DEF TypeOK, Free
<1>2. \A u \in Thread \ {t} : Holds(u) = 0
  BY <1>1, DebugPortAssumption DEF LockKept
<1>3. depth = lost + Holds(t)
  <2>1. CASE owner = t
    BY <1>1, <2>1 DEF LockKept
  <2>2. CASE owner = NoThread
    BY <1>1, <2>2, DebugPortAssumption DEF LockKept
  <2> QED BY <1>1, <2>1, <2>2
<1> QED
  BY <1>1, <1>2, <1>3 DEF LockKept

(* ... giving back or losing levels ...                                    *)
LEMMA LockGiven ==
  ASSUME TypeOK, ProgramsKept, LockKept, NEW t \in Thread,
         NEW levels \in Nat, NEW forgotten \in Nat, Unlock(levels, forgotten),
         \A u \in Thread \ {t} : Holds(u)' = Holds(u),
         Holds(t)' \in Nat, Holds(t) = Holds(t)' + levels + forgotten
  PROVE  LockKept'
<1>1. t # NoThread /\ depth \in Nat /\ lost \in Nat /\ Holds(t) \in Nat
  BY DebugPortAssumption, HoldsType DEF TypeOK
<1>2. /\ depth' = depth - levels /\ lost' = lost + forgotten
      /\ owner' = IF depth' = 0 THEN NoThread ELSE owner
  BY DEF Unlock
<1>3. CASE owner = t
  <2>1. depth = lost + Holds(t) /\ \A u \in Thread \ {t} : Holds(u) = 0
    BY <1>1, <1>3 DEF LockKept
  <2>2. depth' = lost' + Holds(t)'
    BY <1>1, <1>2, <2>1
  <2>3. depth' = 0 => Holds(t)' = 0 /\ lost' = 0
    BY <1>1, <1>2, <2>2
  <2> QED
    BY <1>1, <1>2, <1>3, <2>1, <2>2, <2>3 DEF LockKept
<1>4. CASE owner # t
  <2>1. Holds(t) = 0
    BY <1>4 DEF LockKept
  <2>2. levels = 0 /\ forgotten = 0 /\ Holds(t)' = 0
    BY <1>1, <2>1
  <2>3. UNCHANGED <<owner, depth, lost>>
    BY <1>1, <1>2, <2>2 DEF TypeOK
  <2> QED
    BY <1>4, <2>1, <2>2, <2>3, DebugPortAssumption DEF LockKept, TypeOK
<1> QED
  BY <1>3, <1>4

(* ... and steps that leave it alone.                                      *)
LEMMA LockLeft ==
  ASSUME LockKept, UNCHANGED lockVars, TypeOK, \A u \in Thread : Holds(u)' = Holds(u)
  PROVE  LockKept'
BY DEF LockKept, lockVars, TypeOK

(* The levels of a thread depend on what it is doing only.                 *)
LEMMA HoldsLocal ==
  ASSUME NEW u \in Thread,
         UNCHANGED <<pc[u], program[u], pending[u]>>
  PROVE  Holds(u)' = Holds(u)
BY DEF Holds

LEMMA LockStep ==
  ASSUME Kept, [Next]_vars
  PROVE  LockKept'
<1> USE DEF Kept
<1>1. ASSUME Target \/ UNCHANGED vars
      PROVE  LockKept'
  <2>1. UNCHANGED <<lockVars, pc, program, pending>>
    BY <1>1 DEF Target, Deliver, Fail, vars, threadVars, lockVars
  <2> QED
    BY <2>1, LockLeft, HoldsLocal
<1>2. ASSUME NEW t \in Thread, NEW accesses \in Programs, Begin(t, accesses)
      PROVE  LockKept'
  <2>1. \A u \in Thread \ {t} : Holds(u)' = Holds(u)
    <3> SUFFICES ASSUME NEW u \in Thread \ {t} PROVE Holds(u)' = Holds(u)
      OBVIOUS
    <3>1. UNCHANGED <<pc[u], program[u], pending[u]>>
      BY <1>2 DEF Begin, At, TypeOK
    <3> QED
      BY <3>1, HoldsLocal
  <2>2. Holds(t) = Len(pending[t])
    <3>1. program[t] = <<>> /\ pc[t] \notin Inside
      BY <1>2 DEF Begin, ProgramsKept, Inside
    <3> QED
      BY <3>1, HoldsType DEF Holds
  <2>3. Holds(t)' = Len(pending[t]) + Outer(Head(accesses))
    <3>1. program'[t] = accesses /\ pc'[t] = "select" /\ pending' = pending
      BY <1>2 DEF Begin, At, TypeOK
    <3>2. accesses # <<>> /\ Outer(Head(accesses)) \in {0, 1}
      BY ProgramType, OuterInner
    <3> QED
      BY <3>1, <3>2, HoldsType DEF Holds, Inside
  <2>4. CASE Outer(Head(accesses)) = 1
    BY <1>2, <2>1, <2>2, <2>3, <2>4, LockTaken DEF Begin
  <2>5. CASE Outer(Head(accesses)) = 0
    <3>1. \A u \in Thread : Holds(u)' = Holds(u)
      BY <2>1, <2>2, <2>3, <2>5, HoldsType
    <3>2. UNCHANGED lockVars
      BY <1>2, <2>5 DEF Begin
    <3> QED
      BY <3>1, <3>2, LockLeft
  <2> QED
    BY <2>4, <2>5, ProgramType, OuterInner
<1>3. ASSUME NEW t \in Thread, SelectBank(t)
      PROVE  LockKept'
  <2>1. \A u \in Thread \ {t} : Holds(u)' = Holds(u)
    <3> SUFFICES ASSUME NEW u \in Thread \ {t} PROVE Holds(u)' = Holds(u)
      OBVIOUS
    <3>1. UNCHANGED <<pc[u], program[u], pending[u]>>
      BY <1>3 DEF SelectBank, At, TypeOK
    <3> QED
      BY <3>1, HoldsLocal
  <2>2. /\ pc[t] \notin Inside /\ pc'[t] \in Inside
        /\ UNCHANGED <<program, pending>> /\ program[t] # <<>>
        /\ Inner(Head(program[t])) = 1
    BY <1>3 DEF SelectBank, At, Inside, Inner, ProgramsKept, TypeOK
  <2>3. Holds(t)' = Holds(t) + 1
    BY <2>2, HoldsType DEF Holds
  <2> QED
    BY <1>3, <2>1, <2>3, LockTaken DEF SelectBank
<1>4. ASSUME NEW t \in Thread,
             SelectNothing(t) \/ SelectReturns(t) \/ Remember(t) \/ Issue(t)
             \/ Collect(t) \/ Flush(t) \/ Flushed(t) \/ Reset(t) \/ ResetDone(t)
      PROVE  LockKept'
  <2>1. UNCHANGED <<program, pending>> /\ \A u \in Thread \ {t} : pc'[u] = pc[u]
    BY <1>4 DEF SelectNothing, SelectReturns, Remember, Issue, Collect, Flush, Flushed,
                Reset, ResetDone, At, TypeOK
  <2>2. \/ pc[t] \in Inside <=> pc'[t] \in Inside
        \/ Head(program[t]).field = "none" /\ program[t] # <<>>
    BY <1>4 DEF SelectNothing, SelectReturns, Remember, Issue, Collect, Flush, Flushed,
                Reset, ResetDone, At, Inside, ProgramsKept, TypeOK
  <2>3. Head(program[t]).field = "none" => Inner(Head(program[t])) = 0
    BY DEF Inner, Field
  <2>4. Holds(t)' = Holds(t)
    BY <2>1, <2>2, <2>3, HoldsType DEF Holds
  <2>5. \A u \in Thread : Holds(u)' = Holds(u)
    BY <2>1, <2>4, HoldsLocal
  <2>6. CASE UNCHANGED lockVars
    BY <2>5, <2>6, LockLeft
  <2>7. CASE ~UNCHANGED lockVars
    <3>1. Free(t) /\ owner' = t /\ depth' = depth + 1 /\ lost' = lost + 1
      BY <1>4, <2>7 DEF SelectNothing, SelectReturns, Remember, Issue, Collect, Flush, Flushed,
                        Reset, ResetDone
    <3> QED BY <2>5, <3>1, HoldsType, LockLost
  <2> QED
    BY <2>6, <2>7
<1>5. ASSUME NEW t \in Thread, Return(t)
      PROVE  LockKept'
  <2> DEFINE access == Head(program[t])
             levels == Levels(access, Len(program[t]) = 1)
  <2>1. /\ program[t] # <<>> /\ program[t] \in Seq(Access) /\ pc[t] \in Inside
        /\ access \in Access /\ Outer(access) \in {0, 1} /\ Inner(access) \in {0, 1}
        /\ pending[t] \in Seq(Access)
    BY <1>5, HoldsType DEF Return, Inside, TypeOK
  <2>2. \A u \in Thread \ {t} : Holds(u)' = Holds(u)
    <3> SUFFICES ASSUME NEW u \in Thread \ {t} PROVE Holds(u)' = Holds(u)
      OBVIOUS
    <3>1. UNCHANGED <<pc[u], program[u], pending[u]>>
      BY <1>5 DEF Return, At, TypeOK
    <3> QED
      BY <3>1, HoldsLocal
  <2>3. Holds(t) = Len(pending[t]) + Outer(access) + Inner(access)
    BY <2>1 DEF Holds
  <2>4. Len(pending'[t]) = Len(pending[t]) + (IF access.wait = "later" THEN Inner(access) ELSE 0)
    BY <1>5, <2>1 DEF Return, Inner, TypeOK
  <2>5. (IF program'[t] = <<>> THEN 0 ELSE Outer(Head(program'[t])))
          = Outer(access) - (IF Len(program[t]) = 1 THEN Outer(access) ELSE 0)
    <3>1. program'[t] = Tail(program[t])
      BY <1>5 DEF Return, TypeOK
    <3>2. CASE Len(program[t]) = 1
      BY <2>1, <3>1, <3>2, TailType
    <3>3. CASE Len(program[t]) # 1
      <4>1. Tail(program[t]) # <<>> /\ Len(program[t]) > 1
        BY <2>1, <3>3, TailType
      <4>2. Head(Tail(program[t])) = program[t][2] /\ access = program[t][1]
            /\ {1, 2} \subseteq DOMAIN program[t]
        BY <2>1, <4>1
      <4>3. access.field = "ap" /\ Head(Tail(program[t])).field = "ap"
        BY <4>1, <4>2 DEF ProgramsKept
      <4> QED
        BY <3>1, <3>3, <4>1, <4>3 DEF Outer
    <3> QED
      BY <3>2, <3>3
  <2>6. pc'[t] \notin Inside
    BY <1>5 DEF Return, At, Inside, TypeOK
  <2>7. levels \in Nat /\ levels = (IF access.wait = "later" THEN 0 ELSE Inner(access))
                                 + (IF Len(program[t]) = 1 THEN Outer(access) ELSE 0)
    BY <2>1 DEF Levels
  <2>8. Holds(t)' = Len(pending'[t])
                    + (IF program'[t] = <<>> THEN 0 ELSE Outer(Head(program'[t])))
    BY <2>1, <2>4, <2>5, <2>6 DEF Holds
  <2>9. Holds(t)' \in Nat /\ Holds(t) = Holds(t)' + levels + 0
    BY <2>1, <2>3, <2>4, <2>5, <2>7, <2>8
  <2>10. Unlock(levels, 0)
    BY <1>5 DEF Return
  <2> HIDE DEF levels
  <2> QED
    BY <2>2, <2>7, <2>9, <2>10, LockGiven
<1>6. ASSUME NEW t \in Thread, Collected(t)
      PROVE  LockKept'
  <2>1. \A u \in Thread \ {t} : Holds(u)' = Holds(u)
    <3> SUFFICES ASSUME NEW u \in Thread \ {t} PROVE Holds(u)' = Holds(u)
      OBVIOUS
    <3>1. UNCHANGED <<pc[u], program[u], pending[u]>>
      BY <1>6 DEF Collected, At, TypeOK
    <3> QED
      BY <3>1, HoldsLocal
  <2>2. /\ pending'[t] = Tail(pending[t]) /\ pending[t] # <<>> /\ pending[t] \in Seq(Access)
        /\ program' = program /\ program[t] = <<>>
        /\ pc[t] \notin Inside /\ pc'[t] \notin Inside
    BY <1>6 DEF Collected, At, Inside, ProgramsKept, TypeOK
  <2>3. Len(pending[t]) = Len(pending'[t]) + 1 /\ Len(pending'[t]) \in Nat
    BY <2>2
  <2>4. Holds(t)' = Len(pending'[t]) /\ Holds(t) = Len(pending[t])
    BY <2>2, <2>3 DEF Holds
  <2>5. Unlock(1, 0)
    BY <1>6 DEF Collected
  <2> QED
    BY <2>1, <2>3, <2>4, <2>5, LockGiven
<1>7. ASSUME NEW t \in Thread, Raise(t)
      PROVE  LockKept'
  <2>1. \A u \in Thread \ {t} : Holds(u)' = Holds(u)
    <3> SUFFICES ASSUME NEW u \in Thread \ {t} PROVE Holds(u)' = Holds(u)
      OBVIOUS
    <3>1. UNCHANGED <<pc[u], program[u], pending[u]>>
      BY <1>7 DEF Raise, At, TypeOK
    <3> QED
      BY <3>1, HoldsLocal
  <2>2. Holds(t)' = Len(pending'[t])
    <3>1. program'[t] = <<>> /\ pc'[t] \notin Inside
      BY <1>7 DEF Raise, At, Inside, TypeOK
    <3>2. Len(pending'[t]) \in Nat
      BY TypeStep DEF TypeOK
    <3> QED
      BY <3>1, <3>2 DEF Holds
  <2>3. ASSUME pc[t] \in {"selecting", "accessing"}
        PROVE  /\ pending' = pending /\ Len(pending[t]) \in Nat /\ pc[t] \in Inside
               /\ Outer(Head(program[t])) \in {0, 1} /\ Inner(Head(program[t])) \in {0, 1}
               /\ Holds(t) = Len(pending[t]) + Outer(Head(program[t])) + Inner(Head(program[t]))
    <3>1. pc[t] \in Inside /\ program[t] # <<>>
      BY <2>3, HoldsType DEF Inside
    <3>2. pending' = pending
      BY <1>7, <2>3 DEF Raise
    <3> QED
      BY <3>1, <3>2, HoldsType DEF Holds
  <2>4. CASE pc[t] = "selecting"
    <3>1. Inner(Head(program[t])) = 1
      BY <2>4 DEF ProgramsKept, Inner
    <3>2. Unlock(Outer(Head(program[t])), 1)
      BY <1>7, <2>4 DEF Raise
    <3>3. Holds(t) = Holds(t)' + Outer(Head(program[t])) + 1 /\ Holds(t)' \in Nat
          /\ Outer(Head(program[t])) \in Nat
      BY <2>2, <2>3, <2>4, <3>1
    <3> QED
      BY <2>1, <3>2, <3>3, LockGiven
  <2>5. CASE pc[t] = "accessing"
    <3> DEFINE levels == Outer(Head(program[t])) + Inner(Head(program[t]))
    <3>1. Unlock(levels, 0)
      BY <1>7, <2>5 DEF Raise
    <3>2. Holds(t) = Holds(t)' + levels + 0 /\ Holds(t)' \in Nat /\ levels \in Nat
      BY <2>2, <2>3, <2>5
    <3> HIDE DEF levels
    <3> QED
      BY <2>1, <3>1, <3>2, LockGiven
  <2>6. CASE pc[t] = "collecting"
    <3>1. /\ pending'[t] = Tail(pending[t]) /\ pending[t] # <<>> /\ pending[t] \in Seq(Access)
          /\ program[t] = <<>> /\ pc[t] \notin Inside
      BY <1>7, <2>6 DEF Raise, Inside, ProgramsKept, TypeOK
    <3>2. Len(pending[t]) = Len(pending'[t]) + 1 /\ Len(pending'[t]) \in Nat
      BY <3>1
    <3>3. Holds(t) = Len(pending[t])
      BY <3>1, <3>2 DEF Holds
    <3>4. Unlock(1, 0)
      BY <1>7, <2>6 DEF Raise
    <3> QED
      BY <2>1, <2>2, <3>2, <3>3, <3>4, LockGiven
  <2>7. CASE pc[t] = "flushing"
    <3>1. pending' = pending /\ program[t] = <<>> /\ pc[t] \notin Inside /\ UNCHANGED lockVars
      BY <1>7, <2>7 DEF Raise, Inside, ProgramsKept
    <3>2. Holds(t)' = Holds(t)
      BY <2>2, <3>1, HoldsType DEF Holds
    <3> QED
      BY <2>1, <3>1, <3>2, LockLeft
  <2> QED
    BY <1>7, <2>4, <2>5, <2>6, <2>7 DEF Raise, Calling
<1> QED
  BY <1>1, <1>2, <1>3, <1>4, <1>5, <1>6, <1>7 DEF Next, Continue, Call

-----------------------------------------------------------------------------
(* Calls of the probe                                                      *)

LEMMA CallsStep ==
  ASSUME Kept, [Next]_vars
  PROVE  CallsKept'
<1> USE DEF Kept
<1>1. CASE Deliver
  <2>1. Len(queue) = 1 => Tail(queue) = <<>>
    BY <1>1 DEF Deliver, TypeOK
  <2> QED
    BY <1>1, <2>1 DEF Deliver, CallsKept, threadVars
<1>2. ASSUME NEW kind \in Kind, Fail(kind)
      PROVE  CallsKept'
  BY <1>2 DEF Fail, CallsKept, threadVars, Kind
<1>3. ASSUME NEW t \in Thread, (\E accesses \in Programs : Begin(t, accesses)) \/ Reset(t)
      PROVE  CallsKept'
  <2>1. /\ pc[t] = "idle" /\ Turn(t) /\ pc'[t] \notin Calling
        /\ \A u \in Thread \ {t} : pc'[u] = pc[u]
        /\ UNCHANGED <<mode, queue, error>>
    BY <1>3 DEF Begin, Reset, At, Calling, TypeOK
  <2> QED
    BY <2>1 DEF CallsKept, Turn, Calling
<1>4. ASSUME NEW t \in Thread, Collect(t) \/ Flush(t)
      PROVE  CallsKept'
  <2>1. /\ pc[t] = "idle" /\ Turn(t) /\ LinkFree /\ pc'[t] \in Calling
        /\ \A u \in Thread \ {t} : pc'[u] = pc[u]
        /\ UNCHANGED <<mode, queue, error>>
    BY <1>4 DEF Collect, Flush, At, Calling, TypeOK
  <2> QED
    BY <2>1 DEF CallsKept, Turn, LinkFree
<1>5. ASSUME NEW t \in Thread, SelectBank(t) \/ Issue(t)
      PROVE  CallsKept'
  <2>1. CASE pc'[t] \notin Calling
    <3>1. /\ pc[t] # "idle" /\ pc[t] \notin Calling /\ UNCHANGED <<mode, queue, error>>
          /\ \A u \in Thread \ {t} : pc'[u] = pc[u]
      BY <1>5, <2>1 DEF SelectBank, Issue, At, Calling, TypeOK
    <3> QED
      BY <2>1, <3>1 DEF CallsKept, Calling
  <2>2. CASE pc'[t] \in Calling
    <3>1. /\ pc[t] # "idle" /\ LinkFree /\ UNCHANGED <<mode, error>>
          /\ \A u \in Thread \ {t} : pc'[u] = pc[u]
      BY <1>5, <2>2 DEF SelectBank, Issue, At, Calling, TypeOK
    <3>2. \E request : /\ queue' = Append(queue, request)
                       /\ pc'[t] = "selecting" <=> request.kind = "select"
      BY <1>5, <2>2 DEF SelectBank, Issue, At, Calling, TypeOK, SelectRequest, AccessRequest
    <3>3. PICK request : /\ queue' = Append(queue, request)
                         /\ pc'[t] = "selecting" <=> request.kind = "select"
      BY <3>2
    <3>4. /\ queue # <<>> => Head(queue') = Head(queue)
          /\ queue = <<>> => Head(queue') = request /\ Len(queue') = 1
          /\ queue' # <<>>
      <4>1. \A q \in Seq(Request) : \A r : /\ Append(q, r) # <<>>
                                           /\ q # <<>> => Head(Append(q, r)) = Head(q)
        OBVIOUS
      <4>2. \A r : Append(<<>>, r) = <<r>> /\ Len(<<r>>) = 1 /\ Head(<<r>>) = r
        OBVIOUS
      <4> QED
        BY <3>3, <4>1, <4>2 DEF TypeOK
    <3>5. ~mode.deferred => queue = <<>>
      BY <3>1 DEF CallsKept, LinkFree
    <3> QED
      BY <2>2, <3>1, <3>3, <3>4, <3>5 DEF CallsKept, LinkFree
  <2> QED
    BY <2>1, <2>2
<1>6. ASSUME NEW t \in Thread, SelectNothing(t) \/ Remember(t)
      PROVE  CallsKept'
  <2>1. /\ pc[t] # "idle" /\ pc[t] \notin Calling /\ pc'[t] \notin Calling
        /\ UNCHANGED <<mode, queue, error>> /\ \A u \in Thread \ {t} : pc'[u] = pc[u]
    BY <1>6 DEF SelectNothing, Remember, At, Calling, TypeOK
  <2> QED
    BY <2>1 DEF CallsKept, Calling
<1>7. ASSUME NEW t \in Thread,
             SelectReturns(t) \/ Return(t) \/ Collected(t) \/ Flushed(t)
      PROVE  CallsKept'
  <2>1. /\ pc[t] # "idle" /\ pc'[t] \notin Calling /\ UNCHANGED <<mode, queue, error>>
        /\ \A u \in Thread \ {t} : pc'[u] = pc[u]
        /\ mode.deferred \/ queue = <<>>
    BY <1>7 DEF SelectReturns, Return, Collected, Flushed, Quiet, At, Calling, TypeOK
  <2> QED
    BY <2>1 DEF CallsKept, Calling
<1>8. ASSUME NEW t \in Thread, Raise(t) \/ ResetDone(t)
      PROVE  CallsKept'
  <2>1. /\ pc'[t] = "idle" /\ UNCHANGED mode /\ queue' = <<>> /\ error' = "none"
        /\ \A u \in Thread \ {t} : pc'[u] = pc[u]
    BY <1>8 DEF Raise, ResetDone, At, TypeOK
  <2> QED
    BY <2>1 DEF CallsKept, Calling
<1>9. CASE UNCHANGED vars
  BY <1>9 DEF vars, CallsKept
<1>10. ASSUME NEW t \in Thread, Continue(t)
       PROVE  CallsKept'
  BY <1>4, <1>5, <1>6, <1>7, <1>8, <1>10 DEF Continue
<1>11. ASSUME NEW t \in Thread, Call(t)
       PROVE  CallsKept'
  BY <1>3, <1>4, <1>11 DEF Call
<1> QED
  BY <1>1, <1>2, <1>9, <1>10, <1>11 DEF Next, Target

-----------------------------------------------------------------------------
(* What is meant                                                           *)

(* Only one thread at a time chooses a bank or relies on one it chose.     *)
LEMMA OneChooser ==
  ASSUME Kept, NEW t \in Thread, Free(t) \/ owner = t,
         NEW u \in Thread \ {t}, pc[u] \in Inside, Head(program[u]).field \in Field
  PROVE  FALSE
<1>1. Inner(Head(program[u])) = 1
  BY DEF Inner
<1>2. program[u] # <<>>
  BY HoldsType DEF Kept
<1>3. Holds(u) # 0
  BY <1>1, <1>2, HoldsType DEF Holds, Kept
<1>4. owner = u
  BY <1>3 DEF Kept, LockKept
<1> QED
  BY <1>4, DebugPortAssumption DEF Free

(* A thread that chooses a bank, or relies on one, owns the lock.          *)
LEMMA ChooserOwns ==
  ASSUME Kept, NEW t \in Thread, pc[t] \in Inside, Head(program[t]).field \in Field
  PROVE  owner = t
<1>1. program[t] # <<>> /\ Inner(Head(program[t])) = 1
  BY HoldsType DEF Kept, Inner
<1>2. Holds(t) # 0
  BY <1>1, HoldsType DEF Holds, Kept
<1> QED
  BY <1>2 DEF Kept, LockKept

(* With everything executed SELECT is what the queue ended with.           *)
LEMMA EndsWithSelect ==
  ASSUME TypeOK, queue # <<>>, Len(queue) = 1, Head(queue).kind = "access"
  PROVE  InEffect(select, queue, Len(queue) + 1, select)
<1>1. queue[1] = Head(queue) /\ 1..(Len(queue) + 1 - 1) = {1}
  BY DEF TypeOK
<1> QED
  BY <1>1 DEF InEffect

LEMMA MeantInit == Init => Meant
<1> SUFFICES ASSUME Init PROVE Meant
  OBVIOUS
<1>1. queue = <<>> /\ cached = Unknown /\ \A t \in Thread : pc[t] = "idle"
  BY DEF Init
<1>2. DOMAIN queue = {}
  BY <1>1
<1> QED
  BY <1>1, <1>2 DEF Meant

LEMMA MeantStep ==
  ASSUME Kept, Sheltered, Meant, [Next]_vars
  PROVE  Meant'
<1>0. TypeOK /\ ProgramsKept /\ LockKept /\ CallsKept
  BY DEF Kept
<1>00. /\ queue \in Seq(Request) /\ Len(queue) \in Nat
       /\ \A i \in DOMAIN queue : queue[i] \in Request
  BY <1>0 DEF TypeOK
<1>1. CASE Deliver
  <2>1. /\ queue # <<>> /\ queue' = Tail(queue)
        /\ select' = IF Head(queue).kind = "select" THEN Head(queue).value ELSE select
        /\ UNCHANGED <<cached, pc, program, choice>>
    BY <1>1 DEF Deliver, threadVars
  <2>2. /\ Len(queue') + 1 = Len(queue)
        /\ \A i \in DOMAIN queue' : /\ i \in 1..Len(queue) /\ i + 1 \in DOMAIN queue
                                    /\ queue'[i] = queue[i + 1]
        /\ Len(queue) \in 1..Len(queue)
    BY <1>00, <2>1
  <2>3. \A i \in 1..Len(queue), v \in SelectType :
          InEffect(select', queue', i, v) => InEffect(select, queue, i + 1, v)
    BY <1>00, <2>1, EffectOfDelivery
  <2>4. \A v \in SelectType : InEffect(select', queue', Len(queue') + 1, v)
                              => InEffect(select, queue, Len(queue) + 1, v)
    BY <2>2, <2>3
  <2>5. /\ \A value : EndsWith(value) => EndsWith(value)'
        /\ \A access : EndsIn(access) => EndsIn(access)'
    BY <2>4 DEF EndsWith, EndsIn, SelectType
  <2>6. \A i \in DOMAIN queue' :
          queue'[i].kind = "access" /\ queue'[i].value.field \in Field =>
            \A v \in SelectType : InEffect(select', queue', i, v)
                                   => v[queue'[i].value.field] = queue'[i].value.bank
    BY <2>2, <2>3 DEF Meant
  <2>7. SelectType' = SelectType /\ Field' = Field
    BY DEF SelectType, Field
  <2> QED
    BY <2>1, <2>5, <2>6, <2>7 DEF Meant
<1>2. ASSUME (\E kind \in Kind : Fail(kind)) \/ UNCHANGED vars
      PROVE  Meant'
  <2>1. UNCHANGED select
    BY <1>2, <1>0 DEF Fail, vars, Sheltered
  <2> QED
    BY <1>2, <2>1 DEF Fail, vars, threadVars, Meant, EndsWith, EndsIn
<1>3. ASSUME NEW t \in Thread,
             \/ SelectNothing(t) \/ Return(t) \/ Collect(t) \/ Collected(t)
             \/ Flush(t) \/ Flushed(t) \/ (Call(t) /\ ~Reset(t))
      PROVE  Meant'
  <2>1. /\ UNCHANGED <<select, queue, cached, choice>>
        /\ \A u \in Thread \ {t} : pc'[u] = pc[u] /\ program'[u] = program[u]
        /\ pc[t] \notin {"selecting", "selected"} /\ pc'[t] \notin {"selecting", "selected"}
    BY <1>0, <1>3 DEF SelectNothing, Return, Collect, Collected, Flush, Flushed, Call, Begin,
                      At, TypeOK
  <2>2. pc'[t] # "access" \/ Head(program'[t]).field = "none"
    BY <1>0, <1>3 DEF SelectNothing, Return, Collect, Collected, Flush, Flushed, Call, Begin,
                      At, TypeOK
  <2> QED
    BY <2>1, <2>2 DEF Meant, EndsWith, EndsIn, Field
<1>4. ASSUME NEW t \in Thread, SelectBank(t)
      PROVE  Meant'
  <2> DEFINE access == Head(program[t])
  <2>1. /\ access \in Access /\ access.field \in Field /\ program[t] # <<>>
        /\ Free(t) /\ pc[t] = "select" /\ UNCHANGED <<select, cached, program>>
        /\ \A u \in Thread \ {t} : pc'[u] = pc[u]
    BY <1>0, <1>4, HoldsType DEF SelectBank, Lock, At, ProgramsKept, TypeOK
  <2>2. Chosen(access) \in SelectType /\ Chosen(access)[access.field] = access.bank
    BY <1>0, <2>1, ChosenRight
  <2>3. \A u \in Thread \ {t} : /\ pc[u] \notin {"selecting", "selected"}
                                /\ pc[u] = "access" => Head(program[u]).field \notin Field
    BY <1>0, <2>1, OneChooser DEF Inside, ProgramsKept
  <2>4. CASE Chosen(access) = cached
    <3>1. UNCHANGED <<queue, choice>> /\ pc'[t] = "access"
      BY <1>0, <1>4, <2>4 DEF SelectBank, At, TypeOK
    <3>2. cached # Unknown
      BY <2>2, <2>4, DebugPortAssumption DEF SelectType
    <3>3. EndsWith(cached)
      BY <2>1, <2>3, <3>2 DEF Meant
    <3>4. EndsIn(access)
      BY <2>2, <2>4, <3>3 DEF EndsWith, EndsIn
    <3> QED
      BY <2>1, <2>3, <3>1, <3>3, <3>4 DEF Meant, EndsWith, EndsIn
  <2>5. CASE Chosen(access) # cached
    <3> DEFINE value == Chosen(access)
    <3>1. /\ queue' = Append(queue, SelectRequest(value)) /\ pc'[t] = "selecting"
          /\ choice'[t] = value
      BY <1>0, <1>4, <2>5 DEF SelectBank, At, TypeOK
    <3> HIDE DEF value
    <3>2. /\ Len(queue') = Len(queue) + 1 /\ queue'[Len(queue) + 1] = SelectRequest(value)
          /\ DOMAIN queue' = 1..(Len(queue) + 1)
          /\ \A i \in 1..Len(queue) : i \in DOMAIN queue /\ queue'[i] = queue[i]
      BY <1>00, <3>1
    <3>3. \A v \in SelectType : InEffect(select', queue', Len(queue') + 1, v) => v = value
      BY <1>00, <2>1, <2>2, <3>1, <3>2, EffectOfSelect DEF value
    <3>4. SelectRequest(value).kind # "access"
      BY DEF SelectRequest
    <3>5. \A i \in 1..Len(queue), v \in SelectType :
            InEffect(select', queue', i, v) => InEffect(select, queue, i, v)
      BY <1>00, <2>1, <3>1, EffectBefore
    <3>6. \A i \in DOMAIN queue' :
            queue'[i].kind = "access" /\ queue'[i].value.field \in Field =>
              /\ i \in 1..Len(queue) /\ i \in DOMAIN queue /\ queue'[i] = queue[i]
      BY <1>00, <3>2, <3>4
    <3>7. EndsWith(choice[t])'
      BY <3>1, <3>3 DEF EndsWith, SelectType
    <3>8. value \in SelectType /\ value[access.field] = access.bank
      BY <2>2 DEF value
    <3>9. \A i \in DOMAIN queue' :
            queue'[i].kind = "access" /\ queue'[i].value.field \in Field =>
              \A v \in SelectType : InEffect(select', queue', i, v)
                                     => v[queue'[i].value.field] = queue'[i].value.bank
      BY <3>5, <3>6 DEF Meant
    <3>10. SelectType' = SelectType /\ Field' = Field
      BY DEF SelectType, Field
    <3> QED
      BY <2>1, <2>3, <3>1, <3>7, <3>8, <3>9, <3>10 DEF Meant
  <2> QED
    BY <2>4, <2>5
<1>5. ASSUME NEW t \in Thread, SelectReturns(t)
      PROVE  Meant'
  <2>1. /\ pc[t] = "selecting" /\ pc'[t] = "selected"
        /\ UNCHANGED <<select, queue, cached, choice, program>>
        /\ \A u \in Thread \ {t} : pc'[u] = pc[u]
    BY <1>0, <1>5 DEF SelectReturns, At, TypeOK
  <2> QED
    BY <2>1 DEF Meant, EndsWith, EndsIn
<1>6. ASSUME NEW t \in Thread, Remember(t)
      PROVE  Meant'
  <2>1. /\ pc[t] = "selected" /\ pc'[t] = "access" /\ cached' = choice[t]
        /\ UNCHANGED <<select, queue, program>>
        /\ \A u \in Thread \ {t} : pc'[u] = pc[u] /\ choice'[u] = choice[u]
    BY <1>0, <1>6 DEF Remember, At, TypeOK
  <2>2. /\ EndsWith(choice[t]) /\ choice[t] \in SelectType
        /\ choice[t][Head(program[t]).field] = Head(program[t]).bank
    BY <2>1 DEF Meant
  <2>3. EndsIn(Head(program[t]))
    BY <2>2 DEF EndsWith, EndsIn
  <2>4. EndsWith(cached)' /\ EndsIn(Head(program[t]))'
    BY <2>1, <2>2, <2>3 DEF EndsWith, EndsIn
  <2> QED
    BY <2>1, <2>4 DEF Meant, EndsWith, EndsIn
<1>7. ASSUME NEW t \in Thread, Issue(t)
      PROVE  Meant'
  <2> DEFINE access == Head(program[t])
  <2>1. /\ pc[t] = "access" /\ pc'[t] = "accessing"
        /\ queue' = Append(queue, AccessRequest(access))
        /\ UNCHANGED <<select, cached, program, choice>>
        /\ \A u \in Thread \ {t} : pc'[u] = pc[u]
    BY <1>0, <1>7 DEF Issue, At, TypeOK
  <2>2. access \in Access
    BY <1>0, <2>1, HoldsType DEF Inside
  <2>3. access.field \in Field => EndsIn(access)
    BY <2>1 DEF Meant
  <2> HIDE DEF access
  <2>4. /\ Len(queue') = Len(queue) + 1 /\ queue'[Len(queue) + 1] = AccessRequest(access)
        /\ DOMAIN queue' = 1..(Len(queue) + 1)
        /\ \A i \in 1..Len(queue) : i \in DOMAIN queue /\ queue'[i] = queue[i]
    BY <1>00, <2>1
  <2>5. \A i \in 1..(Len(queue) + 1), v \in SelectType :
          InEffect(select', queue', i, v) => InEffect(select, queue, i, v)
    BY <1>00, <2>1, EffectBefore
  <2>6. \A v \in SelectType : InEffect(select', queue', Len(queue') + 1, v)
                              => InEffect(select, queue, Len(queue) + 1, v)
    BY <1>00, <2>1, <2>2, <2>4, EffectOfAccess
  <2>7. /\ \A value : EndsWith(value) => EndsWith(value)'
        /\ \A other : EndsIn(other) => EndsIn(other)'
    BY <2>6 DEF EndsWith, EndsIn, SelectType
  <2>8. \A i \in DOMAIN queue' :
          queue'[i].kind = "access" /\ queue'[i].value.field \in Field =>
            \A v \in SelectType : InEffect(select', queue', i, v)
                                   => v[queue'[i].value.field] = queue'[i].value.bank
    <3> SUFFICES ASSUME NEW i \in DOMAIN queue',
                        queue'[i].kind = "access", queue'[i].value.field \in Field,
                        NEW v \in SelectType, InEffect(select', queue', i, v)
                 PROVE  v[queue'[i].value.field] = queue'[i].value.bank
      OBVIOUS
    <3>1. i \in 1..(Len(queue) + 1) /\ InEffect(select, queue, i, v)
      BY <2>4, <2>5
    <3>2. CASE i = Len(queue) + 1
      <4>1. queue'[i].value = access
        BY <2>4, <3>2 DEF AccessRequest
      <4> QED
        BY <2>3, <3>1, <3>2, <4>1 DEF EndsIn
    <3>3. CASE i # Len(queue) + 1
      <4>1. i \in 1..Len(queue)
        BY <1>00, <3>1, <3>3
      <4>2. i \in DOMAIN queue /\ queue'[i] = queue[i]
        BY <2>4, <4>1
      <4> QED
        BY <3>1, <4>2 DEF Meant
    <3> QED
      BY <3>2, <3>3
  <2>9. SelectType' = SelectType /\ Field' = Field
    BY DEF SelectType, Field
  <2> QED
    BY <2>1, <2>7, <2>8, <2>9 DEF Meant
<1>8. ASSUME NEW t \in Thread, Raise(t)
      PROVE  Meant'
  <2>1. /\ pc[t] \in Calling /\ pc'[t] = "idle" /\ error # "none" /\ error \in mode.kinds
        /\ queue # <<>> /\ queue' = <<>> /\ UNCHANGED select /\ CanFail(Head(queue), error)
        /\ cached' = AfterError(error) /\ error \in Kind
        /\ \A u \in Thread \ {t} : /\ pc'[u] = pc[u] /\ program'[u] = program[u]
                                    /\ choice'[u] = choice[u]
    BY <1>0, <1>8 DEF Raise, At, CallsKept, TypeOK
  <2>2. DOMAIN queue' = {} /\ Len(queue') + 1 = 1
    BY <2>1
  <2>3. \A v : InEffect(select', queue', 1, v) => v = select
    BY <2>1, EffectOfNothing
  <2>4. CASE mode.deferred
    <3>1. mode.alone /\ error # "timeout"
      BY <2>1, <2>4 DEF Sheltered
    <3>2. \A u \in Thread \ {t} : pc'[u] = "idle"
      BY <1>0, <2>1, <3>1 DEF CallsKept, Calling
    <3>3. cached' = Unknown
      BY <2>1, <3>1 DEF AfterError, Kind, Sheltered
    <3> QED
      BY <2>1, <2>2, <3>2, <3>3 DEF Meant
  <2>5. CASE ~mode.deferred
    <3>1. Len(queue) = 1 /\ (pc[t] = "selecting" <=> Head(queue).kind = "select")
      BY <1>0, <2>1, <2>5 DEF CallsKept
    <3>2. Head(queue).kind \in {"select", "access"}
      BY <1>00, <2>1 DEF Request
    <3>3. CASE Head(queue).kind = "select"
      <4>1. error = "protocol" /\ cached' = Unknown
        BY <2>1, <3>3 DEF CanFail, AfterError, Sheltered
      <4>2. owner = t
        BY <1>0, <3>1, <3>3, ChooserOwns DEF Inside, ProgramsKept
      <4>3. \A u \in Thread \ {t} : /\ pc[u] \notin {"selecting", "selected"}
                                    /\ pc[u] = "access" => Head(program[u]).field \notin Field
        BY <1>0, <4>2, OneChooser DEF Inside, ProgramsKept
      <4> QED
        BY <2>1, <2>2, <4>1, <4>3 DEF Meant
    <3>4. CASE Head(queue).kind = "access"
      <4>1. InEffect(select, queue, Len(queue) + 1, select) /\ select \in SelectType
        BY <1>0, <2>1, <3>1, <3>4, EndsWithSelect DEF TypeOK
      <4>2. /\ \A value : EndsWith(value) => EndsWith(value)'
            /\ \A access : EndsIn(access) => EndsIn(access)'
        BY <2>2, <2>3, <4>1 DEF EndsWith, EndsIn
      <4>3. cached' \in {Unknown, cached}
        BY <2>1 DEF AfterError
      <4>4. pc[t] \notin {"selecting", "selected"}
        BY <2>1, <3>1, <3>4 DEF Calling
      <4>5. \A u \in Thread : pc'[u] \in {"selecting", "selected", "access"} =>
              u # t /\ pc'[u] = pc[u] /\ program'[u] = program[u] /\ choice'[u] = choice[u]
        BY <2>1
      <4>6. cached' # Unknown /\ (\A u \in Thread : pc'[u] \notin {"selecting", "selected"})
              => EndsWith(cached)'
        <5>1. (\A u \in Thread : pc'[u] \notin {"selecting", "selected"})
                => \A u \in Thread : pc[u] \notin {"selecting", "selected"}
          BY <2>1, <4>4
        <5>2. cached' # Unknown => cached' = cached /\ cached # Unknown
          BY <4>3
        <5>3. cached' = cached /\ EndsWith(cached) => EndsWith(cached)'
          BY <4>2
        <5> QED
          BY <5>1, <5>2, <5>3 DEF Meant
      <4>7. ASSUME NEW u \in Thread, pc'[u] \in {"selecting", "selected"}
            PROVE  /\ choice'[u] \in SelectType /\ EndsWith(choice[u])'
                   /\ choice'[u][Head(program'[u]).field] = Head(program'[u]).bank
        <5>1. /\ pc[u] = pc'[u] /\ program'[u] = program[u] /\ choice'[u] = choice[u]
          BY <4>5, <4>7
        <5>2. /\ choice[u] \in SelectType /\ EndsWith(choice[u])
              /\ choice[u][Head(program[u]).field] = Head(program[u]).bank
          BY <4>7, <5>1 DEF Meant
        <5> QED
          BY <4>2, <5>1, <5>2
      <4>8. ASSUME NEW u \in Thread, pc'[u] = "access", Head(program'[u]).field \in Field
            PROVE  EndsIn(Head(program[u]))'
        <5>1. pc[u] = "access" /\ program'[u] = program[u]
          BY <4>5, <4>8
        <5>2. EndsIn(Head(program[u]))
          BY <4>8, <5>1 DEF Meant
        <5> QED
          BY <4>2, <5>1, <5>2
      <4>9. SelectType' = SelectType /\ Field' = Field
        BY DEF SelectType, Field
      <4> QED
        BY <2>2, <4>6, <4>7, <4>8, <4>9 DEF Meant
    <3> QED
      BY <3>2, <3>3, <3>4
  <2> QED
    BY <2>4, <2>5
<1>9. ASSUME NEW t \in Thread, Reset(t)
      PROVE  Meant'
  BY <1>0, <1>9 DEF Reset, At, Meant, EndsWith, EndsIn, TypeOK
<1>10. ASSUME NEW t \in Thread, ResetDone(t)
       PROVE  Meant'
  <2>1. /\ cached' = Unknown /\ queue' = <<>> /\ DOMAIN queue' = {} /\ pc'[t] = "idle"
        /\ Free(t) /\ UNCHANGED program /\ \A u \in Thread \ {t} : pc'[u] = pc[u]
    BY <1>0, <1>10 DEF ResetDone, At, TypeOK, CallsKept, Sheltered
  <2>2. \A u \in Thread \ {t} : /\ pc[u] \notin {"selecting", "selected"}
                                /\ pc[u] = "access" => Head(program[u]).field \notin Field
    BY <1>0, <2>1, OneChooser DEF Inside, ProgramsKept
  <2> QED
    BY <2>1, <2>2 DEF Meant
<1>11. ASSUME NEW t \in Thread, Continue(t)
       PROVE  Meant'
  <2>1. CASE SelectNothing(t) \/ Return(t) \/ Collect(t) \/ Collected(t) \/ Flushed(t)
    BY <1>3, <2>1
  <2>2. CASE \/ SelectBank(t) \/ SelectReturns(t) \/ Remember(t) \/ Issue(t)
             \/ Raise(t) \/ ResetDone(t)
    BY <1>4, <1>5, <1>6, <1>7, <1>8, <1>10, <2>2
  <2> QED
    BY <1>11, <2>1, <2>2 DEF Continue
<1>12. ASSUME NEW t \in Thread, Call(t)
       PROVE  Meant'
  BY <1>3, <1>9, <1>12
<1> QED
  BY <1>1, <1>2, <1>11, <1>12 DEF Next, Target

-----------------------------------------------------------------------------
(* Theorems                                                                *)

LEMMA KeptInvariant == Spec => []Kept
<1>1. Init => Kept
  <2> SUFFICES ASSUME Init PROVE Kept
    OBVIOUS
  <2>1. TypeOK
    BY TypeInit
  <2>2. ProgramsKept /\ CallsKept
    BY DEF Init, ProgramsKept, CallsKept, Calling
  <2>3. \A t \in Thread : Holds(t) = 0
    BY DEF Init, Holds, Inside
  <2>4. LockKept
    BY <2>3 DEF Init, LockKept
  <2> QED
    BY <2>1, <2>2, <2>4 DEF Kept
<1>2. Kept /\ [Next]_vars => Kept'
  BY TypeStep, ProgramsStep, LockStep, CallsStep DEF Kept
<1> QED
  BY <1>1, <1>2, PTL DEF Spec

(* Every variable keeps its type: in particular no more levels of the lock *)
(* are given back than were taken.                                         *)
THEOREM TypeCorrect == Spec => []TypeOK
<1>1. Kept => TypeOK
  BY DEF Kept
<1> QED
  BY <1>1, KeptInvariant, PTL

(* Levels of the lock are lost only by errors that come up while a bank is *)
(* being selected, which without deferred transfers only protocol errors   *)
(* and failures of the probe are: otherwise idle threads hold none.        *)
THEOREM LockIsBalanced == Spec => []LockBalanced
<1> DEFINE Exact == ~mode.deferred /\ mode.kinds \cap {"protocol", "probe"} = {} => lost = 0
<1>1. Init => Exact
  BY DEF Init
<1>2. Kept /\ Exact /\ [Next]_vars => Exact'
  <2> SUFFICES ASSUME Kept, Exact, [Next]_vars, ~mode'.deferred,
                      mode'.kinds \cap {"protocol", "probe"} = {}
               PROVE  lost' = 0
    OBVIOUS
  <2>1. CASE lost' = lost /\ mode' = mode
    BY <2>1
  <2>2. ASSUME NEW t \in Thread, Raise(t)
        PROVE  lost' = 0
    <3>1. pc[t] # "selecting"
      <4> SUFFICES ASSUME pc[t] = "selecting" PROVE FALSE
        OBVIOUS
      <4>1. mode' = mode /\ queue # <<>> /\ CanFail(Head(queue), error)
            /\ error \notin {"protocol", "probe"}
        BY <2>2 DEF Raise, Kept, CallsKept
      <4>2. Head(queue).kind = "select"
        BY <2>2, <4>1 DEF Kept, CallsKept, Calling
      <4> QED
        BY <4>1, <4>2 DEF CanFail
    <3>2. mode' = mode /\ lost = 0
      BY <2>2 DEF Raise
    <3>3. lost' = lost
      <4>1. CASE pc[t] = "accessing"
        BY <2>2, <4>1, <3>2 DEF Raise, Unlock
      <4>2. CASE pc[t] = "collecting"
        BY <2>2, <4>2, <3>2 DEF Raise, Unlock
      <4>3. CASE pc[t] = "flushing"
        BY <2>2, <4>3 DEF Raise, lockVars
      <4> QED
        BY <2>2, <3>1, <4>1, <4>2, <4>3 DEF Raise, Calling
    <3> QED
      BY <3>2, <3>3
  <2>3. ASSUME NEW t \in Thread, Return(t) \/ Collected(t)
        PROVE  lost' = lost /\ mode' = mode
    BY <2>3 DEF Return, Collected, Unlock, Kept, TypeOK
  <2>4. ASSUME NEW t \in Thread, NEW accesses \in Programs, Begin(t, accesses)
        PROVE  lost' = lost /\ mode' = mode
    BY <2>4 DEF Begin, Lock, lockVars
  <2>5. ASSUME NEW t \in Thread,
               \/ SelectBank(t) \/ SelectNothing(t) \/ SelectReturns(t) \/ Remember(t)
               \/ Issue(t) \/ Collect(t) \/ Flush(t) \/ Flushed(t) \/ Reset(t) \/ ResetDone(t)
        PROVE  lost' = lost /\ mode' = mode
    <3>1. CASE ResetDone(t)
      <4>1. mode' = mode /\ LinkFree
        BY <3>1 DEF ResetDone
      <4>2. error = "none"
        BY <4>1 DEF Kept, CallsKept, LinkFree
      <4> QED BY <3>1, <4>1, <4>2 DEF ResetDone, lockVars
    <3> QED
      BY <2>5, <3>1 DEF SelectBank, Lock, SelectNothing, SelectReturns, Remember, Issue, Collect,
                        Flush, Flushed, Reset, lockVars
  <2>6. ASSUME Target \/ UNCHANGED vars
        PROVE  lost' = lost /\ mode' = mode
    BY <2>6 DEF Target, Deliver, Fail, vars, lockVars
  <2> HIDE DEF Exact
  <2>7. ASSUME NEW t \in Thread, Continue(t)
        PROVE  lost' = 0
    BY <2>1, <2>2, <2>3, <2>5, <2>7 DEF Continue
  <2>8. ASSUME NEW t \in Thread, Call(t)
        PROVE  lost' = 0
    BY <2>1, <2>4, <2>5, <2>8 DEF Call
  <2> QED
    BY <2>1, <2>6, <2>7, <2>8 DEF Next
<1>3. Kept /\ Exact => LockBalanced
  <2> SUFFICES ASSUME Kept, Exact, \A t \in Thread : pc[t] = "idle" /\ pending[t] = <<>>
               PROVE  depth = lost
    BY DEF LockBalanced
  <2>1. \A t \in Thread : Holds(t) = 0
    BY DEF Holds, Inside, Kept, ProgramsKept
  <2>2. owner \in Thread \cup {NoThread} /\ lost \in Nat
    BY DEF Kept, TypeOK
  <2> QED
    BY <2>1, <2>2 DEF Kept, LockKept
<1> QED
  BY <1>1, <1>2, <1>3, KeptInvariant, PTL DEF Spec

(* In the sessions that are Sheltered the target never executes an access  *)
(* on a bank it was not meant for.                                         *)
THEOREM BankIsSelected == Spec => []RightBank
<1> DEFINE SelectMeant == Sheltered => Meant
<1>1. Init => SelectMeant
  BY MeantInit
<1>2. Kept /\ SelectMeant /\ [Next]_vars => SelectMeant'
  <2> SUFFICES ASSUME Kept, SelectMeant, [Next]_vars, Sheltered' PROVE Meant'
    OBVIOUS
  <2>1. mode' = mode
    BY DEF Next, Target, Continue, Call, vars, Deliver, Fail, Begin, SelectBank, SelectNothing,
           SelectReturns, Remember, Issue, Return, Collect, Collected, Flush, Flushed, Raise,
           Reset, ResetDone
  <2>2. Sheltered
    BY <2>1 DEF Sheltered
  <2> QED
    BY <2>2, MeantStep
<1>3. Kept /\ SelectMeant => RightBank
  <2> SUFFICES ASSUME Kept, Meant, Sheltered, queue # <<>>, Head(queue).kind = "access",
                      Head(queue).value.field \in Field
               PROVE  select[Head(queue).value.field] = Head(queue).value.bank
    BY DEF RightBank
  <2>1. 1 \in DOMAIN queue /\ Head(queue) = queue[1] /\ select \in SelectType
    BY DEF Kept, TypeOK
  <2>2. InEffect(select, queue, 1, select)
    BY DEF InEffect
  <2> QED
    BY <2>1, <2>2 DEF Meant
<1> QED
  BY <1>1, <1>2, <1>3, KeptInvariant, PTL DEF Spec


-----------------------------------------------------------------------------
(* The DebugPort below                                                    *)

(* What a MEM-AP remembers of its CSW is a size or nothing.                *)
CachedCswOK == cachedCsw \in [MemAps -> Known]

LEMMA CachedCswStep ==
  ASSUME CachedCswOK, [MemNext]_memVars
  PROVE  CachedCswOK'
<1>1. Word \in Known /\ Unknown \in Known /\ Sizes \subseteq Known
  BY MemApAssumption DEF Known
<1>2. ASSUME NEW t \in Thread, NEW ap \in MemAps, NEW size \in Known, NEW accesses,
             Transfer(t, ap, size, accesses)
      PROVE  CachedCswOK'
  BY <1>2 DEF Transfer, CachedCswOK
<1>3. ASSUME NEW t \in Thread,
             WriteMemory(t) \/ ReadMemory(t) \/ WriteBlock(t) \/ ReadBlock(t)
      PROVE  CachedCswOK'
  BY <1>1, <1>2, <1>3 DEF WriteMemory, ReadMemory, WriteBlock, ReadBlock
<1>4. ASSUME NEW t \in Thread, MemRaise(t) \/ MemReset(t) \/ MemResetDone(t)
      PROVE  CachedCswOK'
  BY <1>1, <1>4 DEF MemRaise, MemReset, MemResetDone, CachedCswOK
<1>5. ASSUME \/ MemDeliver \/ MemFail \/ UNCHANGED memVars
             \/ \E t \in Thread : RegisterAccess(t) \/ Plain(t)
      PROVE  CachedCswOK'
  BY <1>5 DEF MemDeliver, MemFail, memVars, RegisterAccess, Plain, CachedCswOK
<1> QED
  BY <1>3, <1>4, <1>5 DEF MemNext

(* A step of a MEM-AP is one of the DebugPort.                             *)
LEMMA MemStep ==
  ASSUME CachedCswOK, [MemNext]_memVars
  PROVE  [Next]_vars
<1>1. ASSUME NEW t \in Thread, NEW ap, NEW size, NEW accesses \in AllPrograms,
             Transfer(t, ap, size, accesses)
      PROVE  Next
  BY <1>1, MemProgramsAssumption DEF Transfer, Next, Call
<1>2. ASSUME NEW t \in Thread, WriteMemory(t)
      PROVE  Next
  <2>1. PICK ap \in MemAps, size \in Sizes, addr \in Starts :
          Transfer(t, ap, size, WriteProgram(ap, size, addr, cachedCsw[ap]))
    BY <1>2 DEF WriteMemory
  <2>2. cachedCsw[ap] \in Known
    BY DEF CachedCswOK
  <2>3. WriteProgram(ap, size, addr, cachedCsw[ap]) \in AllPrograms
    BY <2>2 DEF AllPrograms
  <2> QED
    BY <1>1, <2>1, <2>3
<1>3. ASSUME NEW t \in Thread, ReadMemory(t)
      PROVE  Next
  <2>1. PICK ap \in MemAps, size \in Sizes, addr \in Starts, wait \in {"now", "later"} :
          Transfer(t, ap, size, ReadProgram(ap, size, addr, wait, cachedCsw[ap]))
    BY <1>3 DEF ReadMemory
  <2>2. cachedCsw[ap] \in Known
    BY DEF CachedCswOK
  <2>3. ReadProgram(ap, size, addr, wait, cachedCsw[ap]) \in AllPrograms
    BY <2>2 DEF AllPrograms
  <2> QED
    BY <1>1, <2>1, <2>3
<1>4. ASSUME NEW t \in Thread, WriteBlock(t) \/ ReadBlock(t)
      PROVE  Next
  <2>1. PICK ap \in MemAps, addr \in Starts, count \in Counts, wait \in {"now", "write"} :
          Transfer(t, ap, Word, BlockProgram(ap, addr, count, wait, cachedCsw[ap]))
    BY <1>4 DEF WriteBlock, ReadBlock
  <2>2. cachedCsw[ap] \in Known
    BY DEF CachedCswOK
  <2>3. BlockProgram(ap, addr, count, wait, cachedCsw[ap]) \in AllPrograms
    BY <2>2 DEF AllPrograms
  <2> QED
    BY <1>1, <2>1, <2>3
<1>5. ASSUME NEW t \in Thread, RegisterAccess(t)
      PROVE  Next
  <2>1. PICK access \in Raw : Begin(t, <<access>>)
    BY <1>5 DEF RegisterAccess
  <2>2. <<access>> \in Programs
    BY MemProgramsAssumption DEF AllPrograms
  <2> QED
    BY <2>1, <2>2 DEF Next, Call
<1>6. ASSUME NEW t \in Thread, Plain(t) \/ MemRaise(t) \/ MemReset(t) \/ MemResetDone(t)
      PROVE  Next
  BY <1>6 DEF Plain, MemRaise, MemReset, MemResetDone, Next, Call, Continue
<1>7. ASSUME MemDeliver \/ MemFail
      PROVE  Next
  BY <1>7 DEF MemDeliver, MemFail, Next, Target
<1>8. UNCHANGED memVars => UNCHANGED vars
  BY DEF memVars
<1> QED
  BY <1>2, <1>3, <1>4, <1>5, <1>6, <1>7, <1>8 DEF MemNext

(* Memory accesses implement register accesses: every behaviour of MEM-APs *)
(* is one of the DebugPort.                                                *)
THEOREM MemAccessesAreAccesses == MemSpec => Spec
<1>1. MemInit => Init /\ CachedCswOK
  BY DEF MemInit, CachedCswOK, Known
<1>2. CachedCswOK /\ [MemNext]_memVars => CachedCswOK' /\ [Next]_vars
  BY CachedCswStep, MemStep
<1> QED
  BY <1>1, <1>2, PTL DEF MemSpec, Spec

(* So no memory access reaches an AP or a bank it was not meant for, ...   *)
THEOREM MemBankIsSelected == MemSpec => []RightBank
BY MemAccessesAreAccesses, BankIsSelected, PTL

(* ... and the lock is as balanced as the DebugPort leaves it.             *)
THEOREM MemLockIsBalanced == MemSpec => []LockBalanced
BY MemAccessesAreAccesses, LockIsBalanced, PTL

-----------------------------------------------------------------------------
(* The inductive invariant                                                 *)

(* The accesses of each thread that are still to be given to the probe.    *)
Rests == [t \in Thread |-> IF pc[t] = "accessing" THEN Tail(program[t]) ELSE program[t]]

(* The registers of a MEM-AP, and whether a request changes one of AP b: a *)
(* transfer moves TAR on.  Gives: whether it leaves value there.           *)
Transferring == {"CSW", "TAR", "DRW"}
Changing(reg) == IF reg = "CSW" THEN {"CSW"} ELSE {"TAR", "DRW"}

Sets(request, reg, ap) ==
  /\ request.kind = "access"
  /\ request.value.reg \in Changing(reg) /\ request.value.bank = ap

Gives(request, reg, value) ==
  IF reg = "CSW" THEN request.value.size = value
                 ELSE request.value.reg = "TAR" /\ request.value.first = value

(* The register, now x, has the value when the request at i is executed.   *)
Finds(x, q, i, reg, ap, value) ==
  \/ x = value /\ \A k \in 1..(i - 1) : ~Sets(q[k], reg, ap)
  \/ \E j \in 1..(i - 1) : /\ Sets(q[j], reg, ap) /\ Gives(q[j], reg, value)
                           /\ \A k \in (j + 1)..(i - 1) : ~Sets(q[k], reg, ap)

(* ... and after all requests; c and a are CSW and TAR of the MEM-APs.      *)
HasSize(ap, size, c, q)    == Finds(c[ap], q, Len(q) + 1, "CSW", ap, size)
HasAddress(ap, addr, a, q) == Finds(a[ap], q, Len(q) + 1, "TAR", ap, addr)

(* An access of a transfer of that size: a write of CSW or TAR, which does *)
(* not leave the AP and cannot fault, or one that stays within a page.     *)
Wanted(access, ap, size) ==
  /\ access.reg \in Transferring /\ access.field = "ap" /\ access.bank = ap
  /\ access.reg \in {"CSW", "TAR"} => ~access.beyond
  /\ access.reg \in {"CSW", "DRW"} => access.size = size
  /\ access.reg = "TAR" => access.first \in Nat
  /\ access.reg = "DRW" => /\ access.first \in Nat /\ access.count \in Nat \ {0}
                           /\ (access.first % PageSize) + access.count <= PageSize

Proper(access, m) ==
  access.reg \in Transferring =>
    /\ m \in MemoryModes
    /\ \E ap \in MemAps, size \in Sizes : Wanted(access, ap, size)

(* CSW is written first, and TAR before each transfer.                     *)
Ordered(p) ==
  \A i \in DOMAIN p :
    /\ i > 1 => p[i].reg # "CSW"
    /\ i > 1 /\ p[i].reg = "DRW" =>
         /\ p[i - 1].reg = "TAR" /\ p[i - 1].bank = p[i].bank
         /\ p[i - 1].first = p[i].first

(* The program starts with the write of that size.                         *)
WritesSize(p, ap, size) ==
  p # <<>> /\ p[1].reg = "CSW" /\ p[1].bank = ap /\ p[1].size = size

(* The transfers of the rest of a program will find size and address.      *)
RestFits(rest, c, a, q) ==
  \A i \in DOMAIN rest : rest[i].reg = "DRW" =>
    /\ i = 1 => HasAddress(rest[i].bank, rest[i].first, a, q)
    /\ IF rest[1].reg = "CSW" THEN WritesSize(rest, rest[i].bank, rest[i].size)
                              ELSE HasSize(rest[i].bank, rest[i].size, c, q)

ProgramsFit ==
  \A t \in Thread : /\ Ordered(program[t])
                    /\ \A i \in DOMAIN program[t] : Proper(program[t][i], mode)
                    /\ RestFits(Rests[t], csw, tar, queue)

(* What is remembered of CSW will be there.                                *)
Remembers(ap, known, rests, c, q) ==
  /\ known # Unknown => \/ HasSize(ap, known, c, q)
                        \/ \E t \in Thread : WritesSize(rests[t], ap, known)
  /\ \A t \in Thread, size \in Sizes :
       WritesSize(rests[t], ap, size) => known \in {Unknown, size}

CacheFits ==
  \A ap \in MemAps : /\ Remembers(ap, cachedCsw[ap], Rests, csw, queue)
                     /\ mode \notin MemoryModes => cachedCsw[ap] = Unknown

(* So will the queued transfers.                                           *)
RequestFits(i, c, a, q, m) ==
  q[i].kind = "access" =>
    /\ Proper(q[i].value, m)
    /\ q[i].value.reg = "DRW" =>
         /\ Finds(c[q[i].value.bank], q, i, "CSW", q[i].value.bank, q[i].value.size)
         /\ Finds(a[q[i].value.bank], q, i, "TAR", q[i].value.bank, q[i].value.first)

QueueFits == \A i \in DOMAIN queue : RequestFits(i, csw, tar, queue, mode)

MemInv == MemTypes /\ ProgramsFit /\ CacheFits /\ QueueFits

-----------------------------------------------------------------------------
(* Pages                                                                   *)

(* Division with remainder.                                                *)
LEMMA Division ==
  ASSUME NEW n \in Nat, NEW p \in Nat \ {0}
  PROVE  /\ n \div p \in Nat /\ n % p \in 0..(p - 1)
         /\ n = (n \div p) * p + (n % p)
  OBVIOUS

(* ... which is unique.                                                    *)
LEMMA Remainder ==
  ASSUME NEW p \in Nat \ {0}, NEW q \in Nat, NEW r \in 0..(p - 1)
  PROVE  (q * p + r) \div p = q /\ (q * p + r) % p = r
<1> DEFINE n == q * p + r
<1>1. q * p \in Nat
  OBVIOUS
<1>2. n \in Nat
  BY <1>1
<1> HIDE DEF n
<1>3. /\ n \div p \in Nat /\ n % p \in 0..(p - 1)
      /\ n = (n \div p) * p + (n % p)
  BY <1>2, Division
<1> DEFINE d == n \div p
<1>4. n = q * p + r
  BY DEF n
<1> HIDE DEF d
<1>5. d = q
  <2>1. d \in Nat /\ \E e \in 0..(p - 1) : d * p + e = q * p + r
    BY <1>3, <1>4 DEF d
  <2>2. CASE d < q
    <3>1. d + 1 <= q
      BY <2>1, <2>2
    <3>2. (d + 1) * p <= q * p
      BY <2>1, <3>1
    <3>3. (d + 1) * p = d * p + p
      BY <2>1
    <3>4. d * p \in Nat
      BY <2>1
    <3> QED BY <1>1, <2>1, <3>2, <3>3, <3>4
  <2>3. CASE d > q
    <3>1. (q + 1) * p <= d * p
      BY <2>1, <2>3
    <3>2. (q + 1) * p = q * p + p
      OBVIOUS
    <3>3. d * p \in Nat
      BY <2>1
    <3> QED BY <1>1, <2>1, <3>1, <3>2, <3>3
  <2> QED BY <2>1, <2>2, <2>3
<1> QED BY <1>1, <1>3, <1>4, <1>5 DEF n, d
(* An address plus an offset within the page of the address.               *)
LEMMA WrapStays ==
  ASSUME NEW addr \in Nat, NEW i \in Nat, (addr % PageSize) + i < PageSize
  PROVE  Wrap(addr, i) = addr + i
<1> DEFINE q == addr \div PageSize
           r == addr % PageSize
<1>0. PageSize \in Nat \ {0}
  BY MemApAssumption
<1>1. q \in Nat /\ r \in 0..(PageSize - 1) /\ addr = q * PageSize + r
  BY <1>0, Division
<1>2. r + i \in 0..(PageSize - 1)
  BY <1>0, <1>1
<1> HIDE DEF q, r
<1>3. (q * PageSize + (r + i)) % PageSize = r + i
  BY <1>0, <1>1, <1>2, Remainder
<1>4. q * PageSize \in Nat
  BY <1>0, <1>1
<1>5. addr + i = q * PageSize + (r + i)
  BY <1>1, <1>4
<1>6. Wrap(addr, i) = q * PageSize + ((addr + i) % PageSize)
  BY DEF Wrap, q
<1> QED
  BY <1>3, <1>5, <1>6

(* A transfer that stays in its page touches the addresses from its first. *)
LEMMA TouchedInPage ==
  ASSUME NEW addr \in Nat, NEW count \in Nat \ {0},
         (addr % PageSize) + count <= PageSize
  PROVE  Touched(addr, count) = addr .. addr + count - 1
<1>1. addr % PageSize \in Nat
  BY MemApAssumption, Division
<1>2. \A i \in 0 .. count - 1 : Wrap(addr, i) = addr + i
  <2> SUFFICES ASSUME NEW i \in 0 .. count - 1 PROVE Wrap(addr, i) = addr + i
    OBVIOUS
  <2>1. i \in Nat /\ (addr % PageSize) + i < PageSize
    BY <1>1, MemApAssumption
  <2> QED BY <2>1, WrapStays
<1>3. Touched(addr, count) = {addr + i : i \in 0 .. count - 1}
  BY <1>2 DEF Touched
<1>4. \A a \in addr .. addr + count - 1 : a - addr \in 0 .. count - 1 /\ a = addr + (a - addr)
  OBVIOUS
<1>5. \A i \in 0 .. count - 1 : addr + i \in addr .. addr + count - 1
  OBVIOUS
<1> QED
  BY <1>3, <1>4, <1>5

(* A block is split into parts that stay in their pages.                   *)
LEMMA PagesFit ==
  ASSUME NEW addr \in Nat, NEW count \in Nat \ {0},
         NEW pages, pages = Pages(addr, count)
  PROVE  \E n \in Nat \ {0} :
           /\ pages \in Seq([first : Nat, count : Nat \ {0}]) /\ Len(pages) = n
           /\ \A k \in 1..n : /\ pages[k].first \in Nat /\ pages[k].count \in Nat \ {0}
                              /\ (pages[k].first % PageSize) + pages[k].count <= PageSize
<1> DEFINE q    == addr \div PageSize
           r    == addr % PageSize
           last == addr + count - 1
           e    == last \div PageSize
           n    == e - q + 1
           page(k)  == (q + k - 1) * PageSize
           first(k) == Greatest(addr, page(k))
           end(k)   == Least(addr + count, page(k) + PageSize)
<1>0. PageSize \in Nat \ {0} /\ last \in Nat
  BY MemApAssumption
<1>1. q \in Nat /\ r \in 0..(PageSize - 1) /\ addr = q * PageSize + r
  BY <1>0, Division
<1>2. /\ e \in Nat /\ last % PageSize \in 0..(PageSize - 1)
      /\ last = e * PageSize + (last % PageSize)
  BY <1>0, Division
<1>3. pages = [k \in 1..n |-> [first |-> first(k), count |-> end(k) - first(k)]]
  BY DEF Pages
<1> HIDE DEF q, r, e
<1>4. q <= e
  <2> SUFFICES ASSUME e < q PROVE FALSE
    BY <1>1, <1>2
  <2>1. (e + 1) * PageSize <= q * PageSize
    BY <1>0, <1>1, <1>2
  <2>2. (e + 1) * PageSize = e * PageSize + PageSize
    BY <1>0, <1>2
  <2>3. e * PageSize \in Nat /\ q * PageSize \in Nat
    BY <1>0, <1>1, <1>2
  <2> QED BY <1>0, <1>1, <1>2, <2>1, <2>2, <2>3
<1>5. n \in Nat \ {0}
  BY <1>1, <1>2, <1>4
<1>6. ASSUME NEW k \in 1..n
      PROVE  /\ first(k) \in Nat /\ end(k) - first(k) \in Nat \ {0}
             /\ (first(k) % PageSize) + (end(k) - first(k)) <= PageSize
  <2> DEFINE m == q + k - 1
  <2>1. m \in Nat /\ q <= m /\ m <= e
    BY <1>1, <1>2, <1>6
  <2>2. page(k) = m * PageSize
    OBVIOUS
  <2> HIDE DEF m, n
  <2>3. m * PageSize \in Nat /\ m * PageSize <= e * PageSize /\ e * PageSize \in Nat
    BY <1>0, <1>2, <2>1
  <2>4. m * PageSize <= last
    BY <1>0, <1>2, <2>3
  <2>5. addr < m * PageSize + PageSize
    <3>1. q * PageSize <= m * PageSize /\ q * PageSize \in Nat
      BY <1>0, <1>1, <2>1
    <3> QED BY <1>0, <1>1, <2>3, <3>1
  <2>6. \E s \in 0..(PageSize - 1) : first(k) = m * PageSize + s
    <3>1. CASE addr > m * PageSize
      <4>1. first(k) = addr
        BY <2>2, <3>1 DEF Greatest
      <4>2. addr - m * PageSize \in 0..(PageSize - 1)
        BY <1>0, <2>3, <2>5, <3>1
      <4> QED BY <2>3, <4>1, <4>2
    <3>2. CASE addr <= m * PageSize
      <4>1. first(k) = m * PageSize
        BY <2>2, <2>3, <3>2 DEF Greatest
      <4> QED BY <1>0, <2>3, <4>1
    <3> QED BY <2>3, <3>1, <3>2
  <2>7. PICK s \in 0..(PageSize - 1) : first(k) = m * PageSize + s
    BY <2>6
  <2>8. first(k) % PageSize = s
    <3>1. (m * PageSize + s) % PageSize = s
      BY <1>0, <2>1, Remainder
    <3> HIDE DEF first
    <3> QED BY <2>7, <3>1
  <2>9. first(k) \in {addr, m * PageSize} /\ first(k) \in Nat
    BY <2>2, <2>3 DEF Greatest
  <2>10. /\ end(k) \in {addr + count, m * PageSize + PageSize}
         /\ end(k) <= m * PageSize + PageSize
    BY <1>0, <2>2, <2>3 DEF Least
  <2> HIDE DEF first, end, page
  <2>11. end(k) > first(k)
    BY <1>0, <2>3, <2>4, <2>5, <2>7, <2>9, <2>10
  <2> QED
    BY <1>0, <2>3, <2>7, <2>8, <2>9, <2>10, <2>11
<1> HIDE DEF n, first, end
<1>7. \A k \in 1..n : /\ pages[k].first = first(k) /\ pages[k].count = end(k) - first(k)
                      /\ pages[k] \in [first : Nat, count : Nat \ {0}]
  BY <1>3, <1>6
<1>8. pages \in Seq([first : Nat, count : Nat \ {0}]) /\ Len(pages) = n
  BY <1>3, <1>5, <1>6
<1> QED
  BY <1>5, <1>6, <1>7, <1>8

-----------------------------------------------------------------------------
(* What a register holds when a request is executed                        *)

(* A register that nobody set has the value that is there now.             *)
LEMMA FindsNow ==
  ASSUME NEW x, NEW q, NEW reg, NEW ap, NEW v
  PROVE  Finds(x, q, 1, reg, ap, v) <=> x = v
BY DEF Finds

(* What is queued later does not matter to an earlier request.             *)
LEMMA FindsEarlier ==
  ASSUME NEW x, NEW q \in Seq(Request), NEW request \in Request,
         NEW i \in 1..(Len(q) + 1), NEW reg, NEW ap, NEW v, Finds(x, q, i, reg, ap, v)
  PROVE  Finds(x, Append(q, request), i, reg, ap, v)
<1>1. \A k \in 1..(i - 1) : Append(q, request)[k] = q[k]
  OBVIOUS
<1> DEFINE r == Append(q, request)
<1> HIDE DEF r
<1>2. \A k \in 1..(i - 1) : r[k] = q[k]
  BY <1>1 DEF r
<1>3. CASE x = v /\ \A k \in 1..(i - 1) : ~Sets(q[k], reg, ap)
  <2>1. \A k \in 1..(i - 1) : ~Sets(r[k], reg, ap)
    BY <1>2, <1>3
  <2> QED BY <1>3, <2>1 DEF Finds, r
<1>4. ASSUME NEW j \in 1..(i - 1), Sets(q[j], reg, ap), Gives(q[j], reg, v),
             \A k \in (j + 1)..(i - 1) : ~Sets(q[k], reg, ap)
      PROVE  Finds(x, r, i, reg, ap, v)
  <2>1. /\ Sets(r[j], reg, ap) /\ Gives(r[j], reg, v)
        /\ \A k \in (j + 1)..(i - 1) : ~Sets(r[k], reg, ap)
    BY <1>2, <1>4
  <2> QED BY <2>1 DEF Finds
<1> QED BY <1>3, <1>4 DEF Finds, r

(* A request that leaves the register alone does not matter.               *)
LEMMA FindsPast ==
  ASSUME NEW x, NEW q \in Seq(Request), NEW request \in Request,
         NEW reg, NEW ap, NEW v, Finds(x, q, Len(q) + 1, reg, ap, v),
         ~Sets(request, reg, ap)
  PROVE  Finds(x, Append(q, request), Len(q) + 2, reg, ap, v)
<1> DEFINE r == Append(q, request)
           n == Len(q)
           l == Len(q) + 1
           m == Len(q) + 2
<1>1. /\ n \in Nat /\ r[n + 1] = request /\ \A k \in 1..n : r[k] = q[k]
      /\ l - 1 = n /\ m - 1 = n + 1
  OBVIOUS
<1> HIDE DEF r, n, l, m
<1>2. Finds(x, q, l, reg, ap, v)
  BY DEF l
<1>3. ASSUME x = v, \A k \in 1..n : ~Sets(q[k], reg, ap)
      PROVE  Finds(x, r, m, reg, ap, v)
  <2>1. \A k \in 1..(n + 1) : ~Sets(r[k], reg, ap)
    <3> SUFFICES ASSUME NEW k \in 1..(n + 1) PROVE ~Sets(r[k], reg, ap)
      OBVIOUS
    <3>1. k \in 1..n \/ k = n + 1
      BY <1>1
    <3> QED BY <1>1, <1>3, <3>1
  <2> QED BY <1>1, <1>3, <2>1 DEF Finds
<1>4. ASSUME NEW j \in 1..n, Sets(q[j], reg, ap), Gives(q[j], reg, v),
             \A k \in (j + 1)..n : ~Sets(q[k], reg, ap)
      PROVE  Finds(x, r, m, reg, ap, v)
  <2>1. /\ j \in 1..(n + 1) /\ Sets(r[j], reg, ap) /\ Gives(r[j], reg, v)
    BY <1>1, <1>4
  <2>2. \A k \in (j + 1)..(n + 1) : ~Sets(r[k], reg, ap)
    <3> SUFFICES ASSUME NEW k \in (j + 1)..(n + 1) PROVE ~Sets(r[k], reg, ap)
      OBVIOUS
    <3>1. (k \in (j + 1)..n /\ k \in 1..n) \/ k = n + 1
      BY <1>1
    <3> QED BY <1>1, <1>4, <3>1
  <2> QED BY <1>1, <2>1, <2>2 DEF Finds
<1>5. Finds(x, r, m, reg, ap, v)
  BY <1>1, <1>2, <1>3, <1>4 DEF Finds
<1> QED BY <1>5 DEF r, m

(* A request that sets the register decides it.                            *)
LEMMA FindsSet ==
  ASSUME NEW x, NEW q \in Seq(Request), NEW request \in Request,
         NEW reg, NEW ap, NEW v, Sets(request, reg, ap), Gives(request, reg, v)
  PROVE  Finds(x, Append(q, request), Len(q) + 2, reg, ap, v)
<1> DEFINE r == Append(q, request)
           n == Len(q)
<1>1. n \in Nat /\ r[n + 1] = request
  OBVIOUS
<1> HIDE DEF r, n
<1>2. n + 2 - 1 = n + 1 /\ n + 1 \in 1..(n + 1) /\ (n + 1 + 1)..(n + 1) = {}
  BY <1>1
<1>3. Finds(x, r, n + 2, reg, ap, v)
  BY <1>1, <1>2 DEF Finds
<1> QED BY <1>3 DEF r, n

(* Executing the first request moves its effect into the register.         *)
LEMMA FindsDelivered ==
  ASSUME NEW x, NEW q \in Seq(Request), q # <<>>, NEW i \in 1..Len(q),
         NEW reg, NEW ap, NEW v, Finds(x, q, i + 1, reg, ap, v),
         NEW y, Sets(q[1], reg, ap) /\ Gives(q[1], reg, v) => y = v,
         ~Sets(q[1], reg, ap) => y = x
  PROVE  Finds(y, Tail(q), i, reg, ap, v)
<1> DEFINE r == Tail(q)
<1>1. i \in Nat \ {0} /\ i + 1 - 1 = i /\ \A k \in 1..(i - 1) : r[k] = q[k + 1]
  OBVIOUS
<1> HIDE DEF r
<1>2. CASE x = v /\ \A k \in 1..i : ~Sets(q[k], reg, ap)
  <2>1. y = v /\ \A k \in 1..(i - 1) : ~Sets(r[k], reg, ap)
    BY <1>1, <1>2
  <2> QED BY <2>1 DEF Finds, r
<1>3. ASSUME NEW j \in 1..i, Sets(q[j], reg, ap), Gives(q[j], reg, v),
             \A k \in (j + 1)..i : ~Sets(q[k], reg, ap)
      PROVE  Finds(y, r, i, reg, ap, v)
  <2>1. CASE j = 1
    <3>1. y = v /\ \A k \in 1..(i - 1) : ~Sets(r[k], reg, ap)
      BY <1>1, <1>3, <2>1
    <3> QED BY <3>1 DEF Finds
  <2>2. CASE j # 1
    <3>1. j - 1 \in 1..(i - 1) /\ r[j - 1] = q[j]
      BY <1>1, <2>2
    <3>2. \A k \in (j - 1 + 1)..(i - 1) : ~Sets(r[k], reg, ap)
      BY <1>1, <1>3
    <3> QED BY <1>3, <3>1, <3>2 DEF Finds
  <2> QED BY <2>1, <2>2
<1> QED BY <1>1, <1>2, <1>3 DEF Finds, r

(* A request that is dropped had not set the register.                     *)
LEMMA FindsDropped ==
  ASSUME NEW x, NEW q, NEW reg, NEW ap, NEW v, Finds(x, q, 2, reg, ap, v),
         ~(Sets(q[1], reg, ap) /\ Gives(q[1], reg, v))
  PROVE  x = v
<1>1. 2 - 1 = 1
  OBVIOUS
<1>2. \A j \in 1..1 : j = 1
  OBVIOUS
<1> QED BY <1>1, <1>2 DEF Finds

-----------------------------------------------------------------------------
(* The shape of the programs                                               *)

(* The accesses of a transfer through ap.                                  *)
Transfers(p, ap, size) ==
  /\ 1 \in DOMAIN p /\ p[1].reg # "DRW" /\ Ordered(p)
  /\ \A i \in DOMAIN p : Wanted(p[i], ap, size)

(* ... without the write of CSW.                                           *)
AfterSize(p, ap, size) ==
  /\ Transfers(p, ap, size)
  /\ \A i \in DOMAIN p : p[i].reg # "CSW"

MemAccess == [field : {"ap"}, bank : MemAps, wait : {"write", "now", "later"},
              beyond : BOOLEAN, reg : Transferring, size : Sizes, first : Nat,
              count : Nat, guarded : BOOLEAN]

(* The three accesses, field by field.                                     *)
LEMMA CswFields ==
  ASSUME NEW ap \in MemAps, NEW size \in Sizes, NEW guarded \in BOOLEAN
  PROVE  /\ Csw(ap, size, guarded) \in MemAccess
         /\ Csw(ap, size, guarded).reg = "CSW"
         /\ Csw(ap, size, guarded).bank = ap /\ Csw(ap, size, guarded).size = size
         /\ Wanted(Csw(ap, size, guarded), ap, size)
<1> DEFINE plain ==
             [field |-> "ap", bank |-> ap, wait |-> "write", beyond |-> FALSE, reg |-> "CSW",
              size |-> Word, first |-> 0, count |-> 0, guarded |-> guarded]
           c == Csw(ap, size, guarded)
<1>1. c = [plain EXCEPT !.size = size]
  BY DEF Csw, ApWrite
<1> HIDE DEF c
<1>2. c = [field |-> "ap", bank |-> ap, wait |-> "write", beyond |-> FALSE, reg |-> "CSW",
           size |-> size, first |-> 0, count |-> 0, guarded |-> guarded]
  BY <1>1
<1>3. c \in MemAccess
  BY <1>2 DEF MemAccess, Transferring
<1>4. c.reg = "CSW" /\ c.bank = ap /\ c.size = size /\ Wanted(c, ap, size)
  BY <1>2 DEF Wanted, Transferring
<1> QED
  BY <1>3, <1>4 DEF c

LEMMA TarFields ==
  ASSUME NEW ap \in MemAps, NEW addr \in Nat, NEW guarded \in BOOLEAN, NEW size
  PROVE  /\ Tar(ap, addr, guarded) \in MemAccess
         /\ Tar(ap, addr, guarded).reg = "TAR" /\ Tar(ap, addr, guarded).bank = ap
         /\ Tar(ap, addr, guarded).first = addr
         /\ Wanted(Tar(ap, addr, guarded), ap, size)
<1> DEFINE plain ==
             [field |-> "ap", bank |-> ap, wait |-> "write", beyond |-> FALSE, reg |-> "TAR",
              size |-> Word, first |-> 0, count |-> 0, guarded |-> guarded]
           c == Tar(ap, addr, guarded)
<1>1. c = [plain EXCEPT !.first = addr]
  BY DEF Tar, ApWrite
<1> HIDE DEF c
<1>2. c = [field |-> "ap", bank |-> ap, wait |-> "write", beyond |-> FALSE, reg |-> "TAR",
           size |-> Word, first |-> addr, count |-> 0, guarded |-> guarded]
  BY <1>1
<1>3. c \in MemAccess
  BY <1>2, MemApAssumption DEF MemAccess, Transferring
<1>4. c.reg = "TAR" /\ c.bank = ap /\ c.first = addr /\ Wanted(c, ap, size)
  BY <1>2 DEF Wanted, Transferring
<1> QED
  BY <1>3, <1>4 DEF c

LEMMA DrwFields ==
  ASSUME NEW ap \in MemAps, NEW size \in Sizes, NEW addr \in Nat, NEW count \in Nat \ {0},
         (addr % PageSize) + count <= PageSize, NEW wait \in {"write", "now", "later"}
  PROVE  /\ Drw(ap, size, addr, count, wait) \in MemAccess
         /\ Drw(ap, size, addr, count, wait).reg = "DRW"
         /\ Drw(ap, size, addr, count, wait).bank = ap
         /\ Drw(ap, size, addr, count, wait).first = addr
         /\ Wanted(Drw(ap, size, addr, count, wait), ap, size)
<1> DEFINE plain ==
             [field |-> "ap", bank |-> ap, wait |-> "write", beyond |-> FALSE, reg |-> "DRW",
              size |-> Word, first |-> 0, count |-> 0, guarded |-> TRUE]
           c == Drw(ap, size, addr, count, wait)
<1>1. c = [plain EXCEPT !.size = size, !.first = addr, !.count = count, !.wait = wait,
                        !.beyond = TRUE]
  BY DEF Drw, ApWrite
<1> HIDE DEF c
<1>2. c = [field |-> "ap", bank |-> ap, wait |-> wait, beyond |-> TRUE, reg |-> "DRW",
           size |-> size, first |-> addr, count |-> count, guarded |-> TRUE]
  BY <1>1
<1>3. c \in MemAccess
  BY <1>2 DEF MemAccess, Transferring
<1>4. c.reg = "DRW" /\ c.bank = ap /\ c.first = addr /\ Wanted(c, ap, size)
  BY <1>2 DEF Wanted, Transferring
<1> QED
  BY <1>3, <1>4 DEF c

(* A program of MEM_AP when that size is known: it writes another one.      *)
Begins(p, ap, size, known) ==
  /\ Transfers(p, ap, size) /\ size \in Sizes
  /\ known = size => \A s : ~WritesSize(p, ap, s)
  /\ known # size => WritesSize(p, ap, size)

(* CSW is written first, unless the size is known to be there.             *)
LEMMA SizeComesFirst ==
  ASSUME NEW ap \in MemAps, NEW size \in Sizes, NEW guarded \in BOOLEAN, NEW known,
         NEW body \in Seq(MemAccess), AfterSize(body, ap, size),
         NEW p, p = SizeWrite(ap, size, guarded, known) \o body
  PROVE  Begins(p, ap, size, known)
<1>1. CASE known = size
  <2>1. p = body
    BY <1>1 DEF SizeWrite
  <2>2. 1 \in DOMAIN body
    BY DEF AfterSize, Transfers
  <2> QED BY <1>1, <2>1, <2>2 DEF Begins, AfterSize, WritesSize
<1>2. CASE known # size
  <2> DEFINE c == Csw(ap, size, guarded)
  <2>1. p = <<c>> \o body
    BY <1>2 DEF SizeWrite
  <2>2. c \in MemAccess /\ c.reg = "CSW" /\ c.bank = ap /\ c.size = size /\ Wanted(c, ap, size)
    BY CswFields
  <2> HIDE DEF c
  <2>3. /\ p \in Seq(MemAccess) /\ Len(p) = Len(body) + 1 /\ Len(body) \in Nat
        /\ p[1] = c /\ \A i \in 1..Len(body) : p[i + 1] = body[i]
    BY <2>1, <2>2
  <2>4. ASSUME NEW i \in DOMAIN p, i > 1
        PROVE  i - 1 \in DOMAIN body /\ p[i] = body[i - 1] /\ i - 1 \in 1..Len(body)
    BY <2>3, <2>4
  <2>5. \A i \in DOMAIN p : Wanted(p[i], ap, size)
    <3> SUFFICES ASSUME NEW i \in DOMAIN p PROVE Wanted(p[i], ap, size)
      OBVIOUS
    <3>1. CASE i = 1
      BY <2>2, <2>3, <3>1
    <3>2. CASE i > 1
      BY <2>4, <3>2 DEF AfterSize, Transfers
    <3> QED BY <2>3, <3>1, <3>2
  <2>6. Ordered(p)
    <3> SUFFICES ASSUME NEW i \in DOMAIN p, i > 1
                 PROVE  /\ p[i].reg # "CSW"
                        /\ p[i].reg = "DRW" =>
                             /\ p[i - 1].reg = "TAR" /\ p[i - 1].bank = p[i].bank
                             /\ p[i - 1].first = p[i].first
      BY DEF Ordered
    <3>1. i - 1 \in DOMAIN body /\ p[i] = body[i - 1]
      BY <2>4
    <3>2. body[i - 1].reg # "CSW"
      BY <3>1 DEF AfterSize
    <3>3. CASE i = 2
      BY <3>1, <3>2, <3>3 DEF AfterSize, Transfers
    <3>4. CASE i > 2
      <4>1. p[i - 1] = body[i - 2] /\ i - 1 > 1 /\ i - 1 - 1 = i - 2
        <5>1. i - 2 \in 1..Len(body) /\ (i - 2) + 1 = i - 1
          BY <2>3, <3>4
        <5> QED BY <2>3, <3>4, <5>1
      <4> QED BY <3>1, <3>2, <4>1 DEF AfterSize, Transfers, Ordered
    <3> QED BY <2>3, <3>3, <3>4
  <2>7. p # <<>> /\ 1 \in DOMAIN p /\ p[1].reg = "CSW"
    BY <2>2, <2>3
  <2> QED BY <1>2, <2>2, <2>3, <2>5, <2>6, <2>7 DEF Begins, Transfers, WritesSize
<1> QED BY <1>1, <1>2 DEF Begins

(* A single transfer.                                                      *)
LEMMA SingleTransfer ==
  ASSUME NEW ap \in MemAps, NEW size \in Sizes, NEW addr \in Nat,
         NEW wait \in {"write", "now", "later"},
         NEW body, body = <<Tar(ap, addr, TRUE), Drw(ap, size, addr, 1, wait)>>
  PROVE  body \in Seq(MemAccess) /\ AfterSize(body, ap, size)
<1> DEFINE a == Tar(ap, addr, TRUE)
           b == Drw(ap, size, addr, 1, wait)
<1>1. (addr % PageSize) + 1 <= PageSize
  BY Division, MemApAssumption
<1>2. a \in MemAccess /\ a.reg = "TAR" /\ a.bank = ap /\ a.first = addr /\ Wanted(a, ap, size)
  BY TarFields
<1>3. b \in MemAccess /\ b.reg = "DRW" /\ b.bank = ap /\ b.first = addr /\ Wanted(b, ap, size)
  BY <1>1, DrwFields
<1>4. body = <<a, b>>
  OBVIOUS
<1> HIDE DEF a, b
<1>5. /\ body \in Seq(MemAccess) /\ DOMAIN body = 1..2
      /\ body[1] = a /\ body[2] = b
  <2>1. a \in MemAccess /\ b \in MemAccess
    BY <1>2, <1>3
  <2>2. <<a, b>> \in Seq(MemAccess) /\ Len(<<a, b>>) = 2
    BY <2>1
  <2>3. DOMAIN <<a, b>> = 1..2 /\ <<a, b>>[1] = a /\ <<a, b>>[2] = b
    OBVIOUS
  <2> QED BY <1>4, <2>2, <2>3
<1>6. Ordered(body)
  <2>1. \A i \in 1..2 : i = 1 \/ i = 2
    OBVIOUS
  <2>2. 2 - 1 = 1
    OBVIOUS
  <2> QED BY <1>2, <1>3, <1>5, <2>1, <2>2 DEF Ordered
<1>7. /\ Wanted(body[1], ap, size) /\ body[1].reg = "TAR"
      /\ Wanted(body[2], ap, size) /\ body[2].reg = "DRW"
  BY <1>2, <1>3, <1>5
<1>8. \A i \in 1..2 : i = 1 \/ i = 2
  OBVIOUS
<1>9. \A i \in 1..2 : Wanted(body[i], ap, size) /\ body[i].reg # "CSW"
  BY <1>7, <1>8
<1>10. DOMAIN body = 1..2 /\ 1 \in DOMAIN body /\ body[1].reg # "DRW"
  <2>1. 1 \in 1..2 /\ "TAR" # "DRW"
    OBVIOUS
  <2>2. DOMAIN body = 1..2
    BY <1>5
  <2>3. body[1].reg # "DRW"
    BY <1>7, <2>1, Zenon
  <2> QED BY <2>1, <2>2, <2>3
<1>11. Transfers(body, ap, size)
  BY <1>6, <1>9, <1>10 DEF Transfers
<1> QED BY <1>5, <1>9, <1>10, <1>11 DEF AfterSize

(* A block: the parts of its pages, each with its own address.             *)
LEMMA BlockTransfer ==
  ASSUME NEW ap \in MemAps, NEW addr \in Nat, NEW count \in Nat \ {0},
         NEW wait \in {"write", "now", "later"}, NEW pages, pages = Pages(addr, count),
         NEW body,
         body = [i \in 1 .. 2 * Len(pages) |->
                   IF i % 2 = 1
                     THEN Tar(ap, pages[(i + 1) \div 2].first, FALSE)
                     ELSE Drw(ap, Word, pages[(i + 1) \div 2].first,
                              pages[(i + 1) \div 2].count, wait)]
  PROVE  body \in Seq(MemAccess) /\ AfterSize(body, ap, Word)
<1>1. PICK n \in Nat \ {0} :
        /\ Len(pages) = n
        /\ \A k \in 1..n : /\ pages[k].first \in Nat /\ pages[k].count \in Nat \ {0}
                           /\ (pages[k].first % PageSize) + pages[k].count <= PageSize
  BY PagesFit
<1>2. Word \in Sizes
  BY MemApAssumption
<1> DEFINE k(i) == (i + 1) \div 2
           m == 2 * n
<1>3. \A i \in 1..m : k(i) \in 1..n /\ (i % 2 = 1 \/ i % 2 = 0)
  OBVIOUS
<1>4. \A i \in 1..m : i % 2 = 0 => i - 1 \in 1..m /\ (i - 1) % 2 = 1 /\ k(i - 1) = k(i)
  OBVIOUS
<1>5. m \in Nat /\ 1 \in 1..m /\ 1 % 2 = 1
  OBVIOUS
<1>6. body = [i \in 1..m |-> IF i % 2 = 1
                               THEN Tar(ap, pages[k(i)].first, FALSE)
                               ELSE Drw(ap, Word, pages[k(i)].first, pages[k(i)].count, wait)]
  BY <1>1
<1> HIDE DEF k, m
<1>7. ASSUME NEW i \in 1..m, i % 2 = 1
      PROVE  /\ body[i] \in MemAccess /\ body[i].reg = "TAR" /\ body[i].bank = ap
             /\ body[i].first = pages[k(i)].first /\ Wanted(body[i], ap, Word)
  <2> DEFINE f == pages[k(i)].first
             c == Tar(ap, f, FALSE)
  <2>1. f \in Nat
    BY <1>1, <1>3
  <2>2. body[i] = c
    BY <1>6, <1>7
  <2> HIDE DEF f
  <2>3. /\ c \in MemAccess /\ c.reg = "TAR" /\ c.bank = ap /\ c.first = f
        /\ Wanted(c, ap, Word)
    BY <2>1, TarFields
  <2> QED BY <2>2, <2>3 DEF f
<1>8. ASSUME NEW i \in 1..m, i % 2 = 0
      PROVE  /\ body[i] \in MemAccess /\ body[i].reg = "DRW" /\ body[i].bank = ap
             /\ body[i].first = pages[k(i)].first /\ Wanted(body[i], ap, Word)
  <2> DEFINE f == pages[k(i)].first
             g == pages[k(i)].count
             c == Drw(ap, Word, f, g, wait)
  <2>1. f \in Nat /\ g \in Nat \ {0} /\ (f % PageSize) + g <= PageSize
    BY <1>1, <1>3
  <2>2. i % 2 # 1
    BY <1>8
  <2>3. body[i] = c
    BY <1>6, <2>2
  <2> HIDE DEF f, g
  <2>4. /\ c \in MemAccess /\ c.reg = "DRW" /\ c.bank = ap /\ c.first = f
        /\ Wanted(c, ap, Word)
    BY <1>2, <2>1, DrwFields
  <2> QED BY <2>3, <2>4 DEF f
<1>9. \A i \in 1..m : body[i] \in MemAccess /\ Wanted(body[i], ap, Word) /\ body[i].reg # "CSW"
  <2> SUFFICES ASSUME NEW i \in 1..m
               PROVE  body[i] \in MemAccess /\ Wanted(body[i], ap, Word) /\ body[i].reg # "CSW"
    OBVIOUS
  <2>1. CASE i % 2 = 1
    BY <1>7, <2>1
  <2>2. CASE i % 2 = 0
    BY <1>8, <2>2
  <2> QED BY <1>3, <2>1, <2>2
<1>10. body \in Seq(MemAccess) /\ DOMAIN body = 1..m
  <2>1. body \in [1..m -> MemAccess]
    BY <1>6, <1>9
  <2>2. \A f \in [1..m -> MemAccess] : f \in Seq(MemAccess)
    BY <1>5
  <2> QED BY <2>1, <2>2
<1>11. Ordered(body)
  <2> SUFFICES ASSUME NEW i \in 1..m, i > 1, body[i].reg = "DRW"
               PROVE  /\ body[i - 1].reg = "TAR" /\ body[i - 1].bank = body[i].bank
                      /\ body[i - 1].first = body[i].first
    BY <1>9, <1>10 DEF Ordered
  <2>1. i % 2 = 0
    BY <1>3, <1>7
  <2>2. i - 1 \in 1..m /\ (i - 1) % 2 = 1 /\ k(i - 1) = k(i)
    BY <1>4, <2>1
  <2>3. body[i].bank = ap /\ body[i].first = pages[k(i)].first
    BY <1>8, <2>1
  <2>4. /\ body[i - 1].reg = "TAR" /\ body[i - 1].bank = ap
        /\ body[i - 1].first = pages[k(i - 1)].first
    BY <1>7, <2>2
  <2> QED BY <2>2, <2>3, <2>4
<1> QED BY <1>5, <1>7, <1>9, <1>10, <1>11 DEF AfterSize, Transfers

(* Every program of a method of MEM_AP is a transfer.                      *)
LEMMA WriteBegins ==
  ASSUME NEW ap \in MemAps, NEW size \in Sizes, NEW addr \in Starts, NEW known,
         NEW p, p = WriteProgram(ap, size, addr, known)
  PROVE  Begins(p, ap, size, known)
<1> DEFINE body == <<Tar(ap, addr, TRUE), Drw(ap, size, addr, 1, "write")>>
<1>1. body \in Seq(MemAccess) /\ AfterSize(body, ap, size)
  BY MemApAssumption, SingleTransfer
<1>2. p = SizeWrite(ap, size, FALSE, known) \o body
  BY DEF WriteProgram
<1> HIDE DEF body
<1> QED BY <1>1, <1>2, SizeComesFirst

(* ... a read, ...                                                         *)
LEMMA ReadBegins ==
  ASSUME NEW ap \in MemAps, NEW size \in Sizes, NEW addr \in Starts, NEW known,
         NEW wait \in {"now", "later"}, NEW p, p = ReadProgram(ap, size, addr, wait, known)
  PROVE  Begins(p, ap, size, known)
<1> DEFINE body == <<Tar(ap, addr, TRUE), Drw(ap, size, addr, 1, wait)>>
<1>1. body \in Seq(MemAccess) /\ AfterSize(body, ap, size)
  <2>1. addr \in Nat /\ wait \in {"write", "now", "later"}
    BY MemApAssumption
  <2> QED BY <2>1, SingleTransfer
<1>2. p = SizeWrite(ap, size, TRUE, known) \o body
  BY DEF ReadProgram
<1> HIDE DEF body
<1> QED BY <1>1, <1>2, SizeComesFirst

(* ... and a block.                                                        *)
LEMMA BlockBegins ==
  ASSUME NEW ap \in MemAps, NEW addr \in Starts, NEW count \in Counts, NEW known,
         NEW wait \in {"now", "write"}, NEW p, p = BlockProgram(ap, addr, count, wait, known)
  PROVE  Begins(p, ap, Word, known)
<1> DEFINE pages == Pages(addr, count)
           body  == [i \in 1 .. 2 * Len(pages) |->
                       IF i % 2 = 1
                         THEN Tar(ap, pages[(i + 1) \div 2].first, FALSE)
                         ELSE Drw(ap, Word, pages[(i + 1) \div 2].first,
                                  pages[(i + 1) \div 2].count, wait)]
<1>1. p = SizeWrite(ap, Word, FALSE, known) \o body
  BY DEF BlockProgram
<1> HIDE DEF pages
<1>2. body \in Seq(MemAccess) /\ AfterSize(body, ap, Word)
  <2>1. addr \in Nat /\ count \in Nat \ {0} /\ wait \in {"write", "now", "later"}
    BY MemApAssumption
  <2> QED BY <2>1, BlockTransfer DEF pages
<1> HIDE DEF body
<1>3. Word \in Sizes
  BY MemApAssumption
<1> QED BY <1>1, <1>2, <1>3, SizeComesFirst

-----------------------------------------------------------------------------
(* What a step needs                                                       *)

(* What is left of a program is a part of it.                              *)
LEMMA RestIn ==
  ASSUME TypeOK, ProgramsKept, NEW t \in Thread
  PROVE  /\ pc[t] # "accessing" => Rests[t] = program[t]
         /\ pc[t] = "accessing" => Rests[t] = Tail(program[t]) /\ program[t] # <<>>
         /\ program[t] \in Seq(Access) /\ Rests[t] \in Seq(Access)
         /\ \A i \in DOMAIN Rests[t] :
              \E j \in DOMAIN program[t] : Rests[t][i] = program[t][j]
         /\ program[t] = <<>> => Rests[t] = <<>>
<1>1. program[t] \in Seq(Access) /\ (pc[t] = "accessing" => program[t] # <<>>)
  BY DEF TypeOK, ProgramsKept
<1>2. CASE pc[t] = "accessing"
  BY <1>1, <1>2, TailType DEF Rests
<1>3. CASE pc[t] # "accessing"
  BY <1>1, <1>3 DEF Rests
<1> QED BY <1>2, <1>3

(* Whoever accesses memory has the lock.                                   *)
LEMMA TransferOwns ==
  ASSUME Kept, ProgramsFit, NEW t \in Thread, NEW i \in DOMAIN program[t],
         program[t][i].reg \in Transferring
  PROVE  owner = t
<1>1. /\ program[t] \in Seq(Access) /\ program[t] # <<>>
      /\ Len(program[t]) > 1 => \A j \in DOMAIN program[t] : program[t][j].field = "ap"
  <2>1. program[t] \in Seq(Access)
    BY DEF Kept, TypeOK
  <2>2. program[t] # <<>>
    BY <2>1
  <2> QED BY <2>1, <2>2 DEF Kept, ProgramsKept
<1>2. program[t][i].field = "ap"
  BY DEF ProgramsFit, Proper, Wanted
<1>3. Head(program[t]) = program[t][1] /\ 1 \in DOMAIN program[t]
      /\ (Len(program[t]) > 1 \/ i = 1)
  BY <1>1
<1>4. Outer(Head(program[t])) = 1
  BY <1>1, <1>2, <1>3 DEF Outer
<1>5. Holds(t) # 0
  BY <1>1, <1>4, HoldsType DEF Holds, Kept
<1> QED
  BY <1>5 DEF Kept, LockKept

(* ... also for what is left of its program.                               *)
LEMMA RestOwns ==
  ASSUME Kept, ProgramsFit, NEW t \in Thread, NEW i \in DOMAIN Rests[t],
         Rests[t][i].reg \in Transferring
  PROVE  owner = t
BY RestIn, TransferOwns DEF Kept

(* Who takes the lock finds no other thread in the middle of a transfer.   *)
LEMMA NoneTransfers ==
  ASSUME Kept, ProgramsFit, NEW t \in Thread, Free(t), program[t] = <<>>,
         NEW u \in Thread, NEW i \in DOMAIN Rests[u]
  PROVE  Rests[u][i].reg \notin Transferring
<1> SUFFICES ASSUME Rests[u][i].reg \in Transferring
             PROVE  FALSE
  OBVIOUS
<1>1. owner = u
  BY RestOwns
<1>2. u = t
  BY <1>1, DebugPortAssumption DEF Free
<1>3. Rests[u] = <<>>
  BY <1>2, RestIn DEF Kept
<1> QED BY <1>3

(* A program without transfers does not write a size.                      *)
LEMMA WriterTransfers ==
  ASSUME NEW rest \in Seq(Access), \A i \in DOMAIN rest : rest[i].reg \notin Transferring,
         NEW ap, NEW size
  PROVE  ~WritesSize(rest, ap, size)
<1>1. rest # <<>> => 1 \in DOMAIN rest
  OBVIOUS
<1> QED BY <1>1 DEF WritesSize, Transferring

(* The rest of a program is in order too.                                  *)
LEMMA TailOrdered ==
  ASSUME NEW p \in Seq(Access), p # <<>>, Ordered(p)
  PROVE  /\ Ordered(Tail(p))
         /\ \A i \in DOMAIN Tail(p) : Tail(p)[i].reg # "CSW"
         /\ \A ap, size : ~WritesSize(Tail(p), ap, size)
         /\ 1 \in DOMAIN Tail(p) /\ Tail(p)[1].reg = "DRW" =>
              /\ p[1].reg = "TAR" /\ p[1].bank = Tail(p)[1].bank
              /\ p[1].first = Tail(p)[1].first
<1> DEFINE q == Tail(p)
<1>1. /\ Len(p) \in Nat /\ DOMAIN q = 1..(Len(p) - 1) /\ DOMAIN p = 1..Len(p)
      /\ q \in Seq(Access)
      /\ \A i \in 1..(Len(p) - 1) : q[i] = p[i + 1]
  OBVIOUS
<1> HIDE DEF q
<1>2. ASSUME NEW i \in DOMAIN q
      PROVE  /\ i + 1 \in DOMAIN p /\ i + 1 > 1 /\ i + 1 - 1 = i /\ q[i] = p[i + 1]
             /\ i > 1 => q[i - 1] = p[i]
  <2>1. i \in Nat /\ i + 1 \in DOMAIN p /\ i + 1 > 1 /\ i + 1 - 1 = i /\ q[i] = p[i + 1]
    BY <1>1
  <2>2. i > 1 => i - 1 \in 1..(Len(p) - 1) /\ i - 1 + 1 = i
    BY <1>1
  <2> QED BY <1>1, <2>1, <2>2
<1>3. ASSUME NEW i \in DOMAIN q
      PROVE  q[i].reg # "CSW"
  <2> DEFINE j == i + 1
  <2>1. j \in DOMAIN p /\ j > 1 /\ q[i] = p[j]
    BY <1>2
  <2> HIDE DEF j
  <2> QED BY <2>1 DEF Ordered
<1>4. ASSUME NEW i \in DOMAIN q, q[i].reg = "DRW"
      PROVE  p[i].reg = "TAR" /\ p[i].bank = q[i].bank /\ p[i].first = q[i].first
  <2> DEFINE j == i + 1
  <2>1. j \in DOMAIN p /\ j > 1 /\ j - 1 = i /\ q[i] = p[j]
    BY <1>2
  <2> HIDE DEF j
  <2>2. p[j - 1].reg = "TAR" /\ p[j - 1].bank = p[j].bank /\ p[j - 1].first = p[j].first
    BY <1>4, <2>1 DEF Ordered
  <2> QED BY <2>1, <2>2
<1>5. Ordered(q)
  BY <1>2, <1>3, <1>4 DEF Ordered
<1>6. q # <<>> => 1 \in DOMAIN q
  BY <1>1
<1>7. \A ap, size : ~WritesSize(q, ap, size)
  BY <1>3, <1>6 DEF WritesSize
<1> QED BY <1>3, <1>4, <1>5, <1>7 DEF q

(* The registers still get the values they were to get.                    *)
Carries(c, a, q, d, b, r) ==
  \A ap \in MemAps : \A v :
    /\ HasSize(ap, v, c, q) => HasSize(ap, v, d, r)
    /\ HasAddress(ap, v, a, q) => HasAddress(ap, v, b, r)

(* The rest of a program fits as well then.                                *)
LEMMA RestCarried ==
  ASSUME NEW rest, NEW c, NEW a, NEW q, NEW d, NEW b, NEW r, NEW m,
         Carries(c, a, q, d, b, r), RestFits(rest, c, a, q),
         \A i \in DOMAIN rest : Proper(rest[i], m)
  PROVE  RestFits(rest, d, b, r)
<1> SUFFICES ASSUME NEW i \in DOMAIN rest, rest[i].reg = "DRW"
             PROVE  /\ i = 1 => HasAddress(rest[i].bank, rest[i].first, b, r)
                    /\ IF rest[1].reg = "CSW"
                         THEN WritesSize(rest, rest[i].bank, rest[i].size)
                         ELSE HasSize(rest[i].bank, rest[i].size, d, r)
  BY DEF RestFits
<1>1. rest[i].bank \in MemAps
  BY DEF Proper, Wanted, Transferring
<1>2. /\ i = 1 => HasAddress(rest[i].bank, rest[i].first, a, q)
      /\ IF rest[1].reg = "CSW" THEN WritesSize(rest, rest[i].bank, rest[i].size)
                                ELSE HasSize(rest[i].bank, rest[i].size, c, q)
  BY DEF RestFits
<1>3. /\ \A v : HasSize(rest[i].bank, v, c, q) => HasSize(rest[i].bank, v, d, r)
      /\ \A v : HasAddress(rest[i].bank, v, a, q) => HasAddress(rest[i].bank, v, b, r)
  BY <1>1 DEF Carries
<1> QED BY <1>2, <1>3

(* What a step that neither issues an access nor begins a transfer keeps:  *)
(* programs go on or are dropped without a write of CSW that was still to  *)
(* come, and nothing new is remembered.                                    *)
LEMMA Carried ==
  ASSUME Kept, ProgramsFit, CacheFits, mode' = mode,
         Carries(csw, tar, queue, csw', tar', queue'),
         \A t \in Thread :
           \/ /\ Rests'[t] = Rests[t]
              /\ \/ program'[t] = program[t]
                 \/ program[t] # <<>> /\ program'[t] = Tail(program[t])
           \/ /\ \A i \in DOMAIN program'[t] : program'[t][i].reg \notin Transferring
              /\ Rests'[t] = program'[t] /\ program'[t] \in Seq(Access)
              /\ \A ap \in MemAps : \A size : ~WritesSize(Rests[t], ap, size),
         \A ap \in MemAps : cachedCsw'[ap] \in {cachedCsw[ap], Unknown}
  PROVE  ProgramsFit' /\ CacheFits'
<1>0. \A t \in Thread : program[t] \in Seq(Access)
  BY DEF Kept, TypeOK
<1>1. ASSUME NEW t \in Thread, Rests'[t] = Rests[t],
             \/ program'[t] = program[t]
             \/ program[t] # <<>> /\ program'[t] = Tail(program[t])
      PROVE  /\ Ordered(program'[t])
             /\ \A i \in DOMAIN program'[t] : Proper(program'[t][i], mode)
             /\ RestFits(Rests'[t], csw', tar', queue')
  <2>1. Ordered(program'[t]) /\ \A i \in DOMAIN program'[t] : Proper(program'[t][i], mode)
    <3>1. CASE program'[t] = program[t]
      BY <3>1 DEF ProgramsFit
    <3>2. CASE program[t] # <<>> /\ program'[t] = Tail(program[t])
      <4>1. Ordered(program'[t])
        BY <1>0, <3>2, TailOrdered DEF ProgramsFit
      <4>2. \A i \in DOMAIN program'[t] : /\ i + 1 \in DOMAIN program[t]
                                          /\ program'[t][i] = program[t][i + 1]
        BY <1>0, <3>2, TailType
      <4> QED BY <4>1, <4>2 DEF ProgramsFit
    <3> QED BY <1>1, <3>1, <3>2
  <2>2. \A i \in DOMAIN Rests[t] : Proper(Rests[t][i], mode)
    BY RestIn DEF Kept, ProgramsFit
  <2>3. RestFits(Rests[t], csw, tar, queue)
    BY DEF ProgramsFit
  <2>4. RestFits(Rests[t], csw', tar', queue')
    BY <2>2, <2>3, RestCarried
  <2> QED BY <1>1, <2>1, <2>4
<1>2. ASSUME NEW t \in Thread, Rests'[t] = program'[t],
             \A i \in DOMAIN program'[t] : program'[t][i].reg \notin Transferring
      PROVE  /\ Ordered(program'[t])
             /\ \A i \in DOMAIN program'[t] : Proper(program'[t][i], mode)
             /\ RestFits(Rests'[t], csw', tar', queue')
  BY <1>2 DEF Ordered, Proper, Transferring, RestFits
<1>3. \A t \in Thread : /\ Ordered(program'[t])
                        /\ \A i \in DOMAIN program'[t] : Proper(program'[t][i], mode)
                        /\ RestFits(Rests'[t], csw', tar', queue')
  BY <1>1, <1>2
<1>4. ProgramsFit'
  BY <1>3 DEF ProgramsFit
<1>5. ASSUME NEW t \in Thread, NEW ap \in MemAps, NEW size
      PROVE  WritesSize(Rests'[t], ap, size) <=> WritesSize(Rests[t], ap, size)
  <2>1. CASE Rests'[t] = Rests[t]
    BY <2>1
  <2>2. CASE /\ \A i \in DOMAIN program'[t] : program'[t][i].reg \notin Transferring
             /\ Rests'[t] = program'[t] /\ program'[t] \in Seq(Access)
             /\ ~WritesSize(Rests[t], ap, size)
    BY <2>2, WriterTransfers
  <2> QED BY <2>1, <2>2
<1>6. ASSUME NEW ap \in MemAps
      PROVE  /\ Remembers(ap, cachedCsw'[ap], Rests', csw', queue')
             /\ mode' \notin MemoryModes => cachedCsw'[ap] = Unknown
  <2> DEFINE known == cachedCsw'[ap]
  <2>1. known \in {cachedCsw[ap], Unknown}
    OBVIOUS
  <2>2. /\ Remembers(ap, cachedCsw[ap], Rests, csw, queue)
        /\ mode \notin MemoryModes => cachedCsw[ap] = Unknown
    BY DEF CacheFits
  <2>3. Remembers(ap, known, Rests, csw, queue)
    BY <2>1, <2>2 DEF Remembers
  <2> HIDE DEF known
  <2>4. Remembers(ap, known, Rests', csw', queue')
    <3>1. HasSize(ap, known, csw, queue) => HasSize(ap, known, csw', queue')
      BY DEF Carries
    <3> QED BY <1>5, <2>3, <3>1 DEF Remembers
  <2> QED BY <2>1, <2>2, <2>4 DEF known
<1>7. CacheFits'
  BY <1>6 DEF CacheFits
<1> QED BY <1>4, <1>7

-----------------------------------------------------------------------------
(* The steps                                                               *)

(* A request that sets no register of a MEM-AP.                            *)
LEMMA CarriesPast ==
  ASSUME NEW c, NEW a, NEW q \in Seq(Request), NEW request \in Request,
         \A ap \in MemAps, reg \in {"CSW", "TAR"} : ~Sets(request, reg, ap)
  PROVE  Carries(c, a, q, c, a, Append(q, request))
<1> DEFINE r == Append(q, request)
<1>1. Len(r) + 1 = Len(q) + 2
  OBVIOUS
<1>2. ASSUME NEW ap \in MemAps, NEW v, HasSize(ap, v, c, q)
      PROVE  HasSize(ap, v, c, r)
  <2>1. Finds(c[ap], q, Len(q) + 1, "CSW", ap, v) /\ ~Sets(request, "CSW", ap)
    BY <1>2 DEF HasSize
  <2>2. Finds(c[ap], r, Len(q) + 2, "CSW", ap, v)
    BY <2>1, FindsPast
  <2> QED BY <1>1, <2>2 DEF HasSize
<1>3. ASSUME NEW ap \in MemAps, NEW v, HasAddress(ap, v, a, q)
      PROVE  HasAddress(ap, v, a, r)
  <2>1. Finds(a[ap], q, Len(q) + 1, "TAR", ap, v) /\ ~Sets(request, "TAR", ap)
    BY <1>3 DEF HasAddress
  <2>2. Finds(a[ap], r, Len(q) + 2, "TAR", ap, v)
    BY <2>1, FindsPast
  <2> QED BY <1>1, <2>2 DEF HasAddress
<1> HIDE DEF r
<1>4. Carries(c, a, q, c, a, r)
  BY <1>2, <1>3 DEF Carries
<1> QED BY <1>4 DEF r

(* The requests that were queued find what they found.                     *)
LEMMA RequestsStay ==
  ASSUME NEW c, NEW a, NEW m, NEW q \in Seq(Request), NEW request \in Request,
         NEW i \in DOMAIN q, RequestFits(i, c, a, q, m)
  PROVE  RequestFits(i, c, a, Append(q, request), m)
<1> DEFINE r == Append(q, request)
           value == q[i].value
<1>1. r[i] = q[i] /\ i \in 1..(Len(q) + 1)
  OBVIOUS
<1> HIDE DEF r
<1>2. CASE q[i].kind = "access" /\ value.reg = "DRW"
  <2>1. /\ Finds(c[value.bank], q, i, "CSW", value.bank, value.size)
        /\ Finds(a[value.bank], q, i, "TAR", value.bank, value.first)
    BY <1>2 DEF RequestFits
  <2>2. /\ Finds(c[value.bank], r, i, "CSW", value.bank, value.size)
        /\ Finds(a[value.bank], r, i, "TAR", value.bank, value.first)
    BY <1>1, <2>1, FindsEarlier DEF r
  <2> QED BY <1>1, <2>2 DEF RequestFits, r
<1>3. CASE ~(q[i].kind = "access" /\ value.reg = "DRW")
  BY <1>1, <1>3 DEF RequestFits, r
<1> QED BY <1>2, <1>3

(* A write of SELECT does not concern the MEM-APs.                         *)
LEMMA SelectSets ==
  ASSUME NEW value, NEW reg, NEW ap
  PROVE  ~Sets(SelectRequest(value), reg, ap)
<1>1. SelectRequest(value).kind = "select" /\ "select" # "access"
  BY DEF SelectRequest
<1> QED BY <1>1 DEF Sets

(* The steps that leave registers and queued accesses alone.               *)
LEMMA QuietStep ==
  ASSUME Kept, ProgramsFit, CacheFits, QueueFits, mode' = mode, UNCHANGED registers,
         \/ queue' = queue
         \/ \E value \in SelectType : queue' = Append(queue, SelectRequest(value)),
         \A t \in Thread :
           \/ /\ Rests'[t] = Rests[t]
              /\ \/ program'[t] = program[t]
                 \/ program[t] # <<>> /\ program'[t] = Tail(program[t])
           \/ /\ \A i \in DOMAIN program'[t] : program'[t][i].reg \notin Transferring
              /\ Rests'[t] = program'[t] /\ program'[t] \in Seq(Access)
              /\ \A ap \in MemAps : \A size : ~WritesSize(Rests[t], ap, size),
         \A ap \in MemAps : cachedCsw'[ap] \in {cachedCsw[ap], Unknown}
  PROVE  ProgramsFit' /\ CacheFits' /\ QueueFits'
<1>1. csw' = csw /\ tar' = tar
  BY DEF registers
<1>2. CASE queue' = queue
  <2>1. Carries(csw, tar, queue, csw', tar', queue')
    BY <1>1, <1>2 DEF Carries
  <2>2. ProgramsFit' /\ CacheFits'
    BY <2>1, Carried
  <2>3. QueueFits'
    BY <1>1, <1>2 DEF QueueFits
  <2> QED BY <2>2, <2>3
<1>3. ASSUME NEW value \in SelectType, queue' = Append(queue, SelectRequest(value))
      PROVE  ProgramsFit' /\ CacheFits' /\ QueueFits'
  <2> DEFINE request == SelectRequest(value)
  <2>1. request \in Request /\ queue \in Seq(Request) /\ request.kind = "select"
    BY DEF Request, SelectRequest, Kept, TypeOK
  <2>2. \A ap \in MemAps, reg \in {"CSW", "TAR"} : ~Sets(request, reg, ap)
    BY SelectSets
  <2> HIDE DEF request
  <2>3. queue' = Append(queue, request)
    BY <1>3 DEF request
  <2>4. Carries(csw, tar, queue, csw', tar', queue')
    BY <1>1, <2>1, <2>2, <2>3, CarriesPast
  <2>5. ProgramsFit' /\ CacheFits'
    BY <2>4, Carried
  <2>6. ASSUME NEW i \in DOMAIN queue'
        PROVE  RequestFits(i, csw', tar', queue', mode')
    <3>1. i \in DOMAIN queue \/ queue'[i] = request
      BY <2>1, <2>3
    <3>2. CASE i \in DOMAIN queue
      BY <1>1, <2>1, <2>3, <3>2, RequestsStay DEF QueueFits
    <3>3. CASE queue'[i] = request
      BY <2>1, <3>3 DEF RequestFits
    <3> QED BY <3>1, <3>2, <3>3
  <2> QED BY <2>5, <2>6 DEF QueueFits
<1> QED BY <1>2, <1>3

(* An access is issued: from now on the queue has it, not the program.     *)
LEMMA IssueStep ==
  ASSUME Kept, MemInv, NEW t \in Thread, Issue(t), UNCHANGED <<cachedCsw, registers>>
  PROVE  ProgramsFit' /\ CacheFits' /\ QueueFits'
<1> DEFINE p       == program[t]
           access  == Head(p)
           request == AccessRequest(access)
           n       == Len(queue)
<1>1. /\ pc[t] = "access" /\ p \in Seq(Access) /\ p # <<>> /\ Rests[t] = p
      /\ queue \in Seq(Request) /\ csw' = csw /\ tar' = tar /\ cachedCsw' = cachedCsw
      /\ mode' = mode /\ program' = program
  BY RestIn DEF Issue, Kept, TypeOK, ProgramsKept, registers
<1>2. Rests'[t] = Tail(p) /\ \A u \in Thread \ {t} : Rests'[u] = Rests[u]
  BY DEF Issue, At, Rests, Kept, TypeOK
<1>3. access \in Access /\ access = p[1] /\ 1 \in DOMAIN p
  BY <1>1
<1>4. request \in Request /\ request.kind = "access" /\ request.value = access
  BY <1>3 DEF request, AccessRequest, Request
<1>5. queue' = Append(queue, request)
  BY DEF Issue
<1>6. Ordered(p) /\ (\A i \in DOMAIN p : Proper(p[i], mode)) /\ RestFits(p, csw, tar, queue)
  BY <1>1 DEF MemInv, ProgramsFit
<1>7. /\ Tail(p) \in Seq(Access)
      /\ \A i \in DOMAIN Tail(p) : i + 1 \in DOMAIN p /\ Tail(p)[i] = p[i + 1]
      /\ \A i \in DOMAIN Tail(p) : Tail(p)[i].reg # "CSW"
      /\ \A ap, size : ~WritesSize(Tail(p), ap, size)
      /\ 1 \in DOMAIN Tail(p) /\ Tail(p)[1].reg = "DRW" =>
              /\ p[1].reg = "TAR" /\ p[1].bank = Tail(p)[1].bank
              /\ p[1].first = Tail(p)[1].first
  BY <1>1, <1>6, TailOrdered, TailType
<1> HIDE DEF p, access, request
<1>8. /\ n \in Nat /\ Len(queue') + 1 = n + 2 /\ DOMAIN queue' = 1..(n + 1)
      /\ DOMAIN queue = 1..n /\ queue'[n + 1] = request
  BY <1>1, <1>4, <1>5
<1>9. ASSUME NEW ap, NEW v, access.reg = "CSW", access.bank = ap, access.size = v
      PROVE  HasSize(ap, v, csw', queue')
  <2>1. Sets(request, "CSW", ap) /\ Gives(request, "CSW", v)
    BY <1>4, <1>9 DEF Sets, Gives, Changing
  <2>2. Finds(csw'[ap], queue', n + 2, "CSW", ap, v)
    BY <1>1, <1>4, <1>5, <2>1, FindsSet
  <2> QED BY <1>8, <2>2 DEF HasSize
<1>10. ASSUME NEW ap, NEW v, access.reg = "TAR", access.bank = ap, access.first = v
       PROVE  HasAddress(ap, v, tar', queue')
  <2>1. Sets(request, "TAR", ap) /\ Gives(request, "TAR", v)
    BY <1>4, <1>10 DEF Sets, Gives, Changing
  <2>2. Finds(tar'[ap], queue', n + 2, "TAR", ap, v)
    BY <1>1, <1>4, <1>5, <2>1, FindsSet
  <2> QED BY <1>8, <2>2 DEF HasAddress
<1>11. ASSUME NEW ap, NEW v, HasSize(ap, v, csw, queue),
              access.reg # "CSW" \/ access.bank # ap
       PROVE  HasSize(ap, v, csw', queue')
  <2>1. ~Sets(request, "CSW", ap)
    BY <1>4, <1>11 DEF Sets, Changing
  <2>2. Finds(csw[ap], queue, n + 1, "CSW", ap, v)
    BY <1>11 DEF HasSize
  <2>3. Finds(csw'[ap], queue', n + 2, "CSW", ap, v)
    BY <1>1, <1>4, <1>5, <2>1, <2>2, FindsPast
  <2> QED BY <1>8, <2>3 DEF HasSize
<1>12. ASSUME NEW u \in Thread \ {t}
       PROVE  RestFits(Rests'[u], csw', tar', queue')
  <2>1. RestFits(Rests[u], csw, tar, queue) /\ Rests'[u] = Rests[u]
    BY <1>2 DEF MemInv, ProgramsFit
  <2>2. CASE access.reg \in Transferring
    <3>1. owner = t
      BY <1>3, <2>2, TransferOwns DEF MemInv, p
    <3>2. \A i \in DOMAIN Rests[u] : Rests[u][i].reg \notin Transferring
      BY <3>1, RestOwns DEF MemInv
    <3> QED BY <2>1, <3>2 DEF RestFits, Transferring
  <2>3. CASE access.reg \notin Transferring
    <3>1. \A ap \in MemAps, reg \in {"CSW", "TAR"} : ~Sets(request, reg, ap)
      BY <1>4, <2>3 DEF Sets, Changing, Transferring
    <3>2. Carries(csw, tar, queue, csw', tar', queue')
      BY <1>1, <1>4, <1>5, <3>1, CarriesPast
    <3>3. \A i \in DOMAIN Rests[u] : Proper(Rests[u][i], mode)
      BY RestIn DEF Kept, MemInv, ProgramsFit
    <3> QED BY <2>1, <3>2, <3>3, RestCarried
  <2> QED BY <2>2, <2>3
<1>13. RestFits(Rests'[t], csw', tar', queue')
  <2> DEFINE rest == Tail(p)
  <2>0. /\ \A i \in DOMAIN rest : i + 1 \in DOMAIN p /\ rest[i] = p[i + 1] /\ i \in Nat \ {0}
        /\ rest # <<>> => 1 \in DOMAIN rest
    BY <1>7
  <2> HIDE DEF rest
  <2> SUFFICES ASSUME NEW i \in DOMAIN rest, rest[i].reg = "DRW"
               PROVE  /\ i = 1 => HasAddress(rest[i].bank, rest[i].first, tar', queue')
                      /\ rest[1].reg # "CSW"
                      /\ HasSize(rest[i].bank, rest[i].size, csw', queue')
    BY <1>2 DEF RestFits, rest
  <2>1. 1 \in DOMAIN rest /\ rest[1].reg # "CSW"
    <3>1. rest # <<>>
      BY <2>0
    <3> QED BY <1>7, <2>0, <3>1 DEF rest
  <2>2. ASSUME i = 1
        PROVE  HasAddress(rest[i].bank, rest[i].first, tar', queue')
    BY <1>3, <1>7, <1>10, <2>1, <2>2 DEF rest
  <2> DEFINE j == i + 1
  <2>3. j \in DOMAIN p /\ rest[i] = p[j]
    BY <2>0
  <2> HIDE DEF j
  <2>4. CASE p[1].reg = "CSW"
    <3>1. WritesSize(p, p[j].bank, p[j].size)
      BY <1>6, <2>3, <2>4 DEF RestFits
    <3> QED BY <1>3, <1>9, <2>1, <2>2, <2>3, <3>1 DEF WritesSize
  <2>5. CASE p[1].reg # "CSW"
    <3>1. HasSize(p[j].bank, p[j].size, csw, queue)
      BY <1>6, <2>3, <2>5 DEF RestFits
    <3> QED BY <1>3, <1>11, <2>1, <2>2, <2>3, <2>5, <3>1
  <2> QED BY <2>4, <2>5
<1>14. ProgramsFit'
  <2>1. \A u \in Thread : /\ Ordered(program[u])
                          /\ \A i \in DOMAIN program[u] : Proper(program[u][i], mode)
    BY DEF MemInv, ProgramsFit
  <2> QED BY <1>1, <1>12, <1>13, <2>1 DEF ProgramsFit
<1>15. ASSUME NEW ap \in MemAps
       PROVE  Remembers(ap, cachedCsw[ap], Rests', csw', queue')
  <2> DEFINE known == cachedCsw[ap]
  <2> HIDE DEF known
  <2>1. Remembers(ap, known, Rests, csw, queue)
    BY DEF MemInv, CacheFits, known
  <2>2. known \in Sizes \cup {Unknown}
    BY DEF MemInv, MemTypes, Known, known
  <2>3. \A u \in Thread : \A size :
          WritesSize(Rests'[u], ap, size) => u # t /\ WritesSize(Rests[u], ap, size)
    BY <1>2, <1>7
  <2>4. ASSUME known # Unknown
        PROVE  \/ HasSize(ap, known, csw', queue')
               \/ \E u \in Thread : WritesSize(Rests'[u], ap, known)
    <3>1. CASE access.reg = "CSW" /\ access.bank = ap
      <4>1. WritesSize(Rests[t], ap, access.size)
        BY <1>1, <1>3, <3>1 DEF WritesSize
      <4>2. access.size \in Sizes
        BY <1>3, <1>6, <3>1 DEF Proper, Wanted, Transferring
      <4>3. access.size = known
        BY <2>1, <2>4, <4>1, <4>2 DEF Remembers
      <4> QED BY <1>9, <3>1, <4>3
    <3>2. CASE ~(access.reg = "CSW" /\ access.bank = ap)
      <4>1. CASE HasSize(ap, known, csw, queue)
        BY <1>11, <3>2, <4>1
      <4>2. ASSUME NEW u \in Thread, WritesSize(Rests[u], ap, known)
            PROVE  WritesSize(Rests'[u], ap, known)
        <5>1. u # t
          BY <1>1, <1>3, <3>2, <4>2 DEF WritesSize
        <5> QED BY <1>2, <4>2, <5>1
      <4> QED BY <2>1, <2>4, <4>1, <4>2 DEF Remembers
    <3> QED BY <3>1, <3>2
  <2>5. Remembers(ap, known, Rests', csw', queue')
    BY <2>1, <2>3, <2>4 DEF Remembers
  <2> QED BY <2>5 DEF known
<1>16. CacheFits'
  BY <1>1, <1>15 DEF MemInv, CacheFits
<1>17. ASSUME NEW i \in DOMAIN queue'
       PROVE  RequestFits(i, csw', tar', queue', mode')
  <2>1. CASE i \in DOMAIN queue
    BY <1>1, <1>4, <1>5, <2>1, RequestsStay DEF MemInv, QueueFits
  <2>2. CASE i = n + 1
    <3>1. queue'[i].value = access /\ Proper(access, mode)
      BY <1>3, <1>4, <1>6, <1>8, <2>2
    <3>2. ASSUME access.reg = "DRW"
          PROVE  /\ HasAddress(access.bank, access.first, tar, queue)
                 /\ HasSize(access.bank, access.size, csw, queue)
      BY <1>3, <1>6, <3>2 DEF RestFits
    <3>3. ASSUME access.reg = "DRW"
          PROVE  /\ Finds(csw[access.bank], queue, n + 1, "CSW", access.bank, access.size)
                 /\ Finds(tar[access.bank], queue, n + 1, "TAR", access.bank, access.first)
      BY <3>2, <3>3 DEF HasSize, HasAddress
    <3>4. ASSUME access.reg = "DRW"
          PROVE  /\ Finds(csw'[access.bank], queue', i, "CSW", access.bank, access.size)
                 /\ Finds(tar'[access.bank], queue', i, "TAR", access.bank, access.first)
      <4>1. n + 1 \in 1..(n + 1)
        BY <1>8
      <4> QED BY <1>1, <1>4, <1>5, <2>2, <3>3, <3>4, <4>1, FindsEarlier
    <3> QED BY <1>1, <3>1, <3>4 DEF RequestFits
  <2> QED BY <1>8, <2>1, <2>2
<1> QED BY <1>14, <1>16, <1>17 DEF QueueFits

(* What an access of a transfer does to the registers of the MEM-APs.      *)
LEMMA PerformEffect ==
  ASSUME MemInv, NEW access, Proper(access, mode), Perform(access),
         access.reg \in Transferring => select["ap"] = access.bank,
         NEW request, request.kind = "access", request.value = access
  PROVE  /\ csw' \in [MemAps -> Sizes] /\ tar' \in [MemAps -> Nat]
         /\ \A ap \in MemAps : \A v :
              /\ Sets(request, "CSW", ap) /\ Gives(request, "CSW", v) => csw'[ap] = v
              /\ ~Sets(request, "CSW", ap) => csw'[ap] = csw[ap]
              /\ Sets(request, "TAR", ap) /\ Gives(request, "TAR", v) => tar'[ap] = v
              /\ ~Sets(request, "TAR", ap) => tar'[ap] = tar[ap]
<1> DEFINE b == access.bank
<1>1. csw \in [MemAps -> Sizes] /\ tar \in [MemAps -> Nat]
  BY DEF MemInv, MemTypes
<1>2. CASE access.reg \notin Transferring
  <2>1. csw' = csw /\ tar' = tar
    BY <1>2 DEF Perform, Transferring
  <2>2. \A ap, reg : reg \in {"CSW", "TAR"} => ~Sets(request, reg, ap)
    BY <1>2 DEF Sets, Changing, Transferring
  <2> QED BY <1>1, <2>1, <2>2
<1>3. CASE access.reg = "CSW"
  <2>1. access.size \in Sizes /\ b \in MemAps /\ select["ap"] = b
    BY <1>3 DEF Proper, Wanted, Transferring
  <2>2. csw' = [csw EXCEPT ![b] = access.size] /\ tar' = tar
    BY <1>3, <2>1 DEF Perform
  <2>3. \A ap : /\ Sets(request, "CSW", ap) <=> ap = b
                /\ ~Sets(request, "TAR", ap)
                /\ \A v : Gives(request, "CSW", v) <=> v = access.size
    BY <1>3 DEF Sets, Changing, Gives
  <2> HIDE DEF b
  <2> QED BY <1>1, <2>1, <2>2, <2>3
<1>4. CASE access.reg = "TAR"
  <2>1. access.first \in Nat /\ b \in MemAps /\ select["ap"] = b
    BY <1>4 DEF Proper, Wanted, Transferring
  <2>2. tar' = [tar EXCEPT ![b] = access.first] /\ csw' = csw
    BY <1>4, <2>1 DEF Perform
  <2>3. \A ap : /\ Sets(request, "TAR", ap) <=> ap = b
                /\ ~Sets(request, "CSW", ap)
                /\ \A v : Gives(request, "TAR", v) <=> v = access.first
    BY <1>4 DEF Sets, Changing, Gives
  <2> HIDE DEF b
  <2> QED BY <1>1, <2>1, <2>2, <2>3
<1>5. CASE access.reg = "DRW"
  <2>1. access.count \in Nat \ {0} /\ b \in MemAps /\ select["ap"] = b
    BY <1>5 DEF Proper, Wanted, Transferring
  <2>2. tar' = [tar EXCEPT ![b] = Wrap(tar[b], access.count)] /\ csw' = csw
    BY <1>5, <2>1 DEF Perform
  <2>3. \A ap : /\ Sets(request, "TAR", ap) <=> ap = b
                /\ ~Sets(request, "CSW", ap)
                /\ \A v : ~Gives(request, "TAR", v)
    BY <1>5 DEF Sets, Changing, Gives
  <2>4. Wrap(tar[b], access.count) \in Nat
    <3>1. tar[b] \in Nat /\ PageSize \in Nat \ {0} /\ tar[b] + access.count \in Nat
      BY <1>1, <2>1, MemApAssumption
    <3>2. tar[b] \div PageSize \in Nat /\ (tar[b] + access.count) % PageSize \in Nat
      BY <3>1, Division
    <3>3. (tar[b] \div PageSize) * PageSize \in Nat
      BY <3>1, <3>2
    <3> QED BY <3>2, <3>3 DEF Wrap
  <2> HIDE DEF b
  <2> QED BY <1>1, <2>1, <2>2, <2>3, <2>4
<1> QED BY <1>2, <1>3, <1>4, <1>5 DEF Transferring

(* The target executes the first request.                                  *)
LEMMA DeliverStep ==
  ASSUME Kept, MemInv, Prompt, RightBank, MemDeliver
  PROVE  /\ csw' \in [MemAps -> Sizes] /\ tar' \in [MemAps -> Nat]
         /\ ProgramsFit' /\ CacheFits' /\ QueueFits'
<1> DEFINE request == queue[1]
           n       == Len(queue)
<1>1. /\ queue \in Seq(Request) /\ queue # <<>> /\ error = "none" /\ queue' = Tail(queue)
      /\ Head(queue) = request /\ request \in Request /\ 1 \in DOMAIN queue
      /\ mode' = mode /\ cachedCsw' = cachedCsw /\ program' = program /\ pc' = pc
  BY DEF MemDeliver, Deliver, Kept, TypeOK, threadVars
<1>2. /\ n \in Nat \ {0} /\ Len(queue') + 1 = n /\ DOMAIN queue' = 1..(n - 1)
      /\ DOMAIN queue = 1..n
      /\ \A i \in 1..(n - 1) : queue'[i] = queue[i + 1] /\ i + 1 \in 1..n /\ i \in 1..n
  BY <1>1
<1>3. request.kind = "access" => Proper(request.value, mode)
  BY <1>1 DEF MemInv, QueueFits, RequestFits
<1> HIDE DEF request
<1>4. /\ csw' \in [MemAps -> Sizes] /\ tar' \in [MemAps -> Nat]
      /\ \A ap \in MemAps : \A v :
           /\ Sets(request, "CSW", ap) /\ Gives(request, "CSW", v) => csw'[ap] = v
           /\ ~Sets(request, "CSW", ap) => csw'[ap] = csw[ap]
           /\ Sets(request, "TAR", ap) /\ Gives(request, "TAR", v) => tar'[ap] = v
           /\ ~Sets(request, "TAR", ap) => tar'[ap] = tar[ap]
  <2>1. CASE request.kind = "access"
    <3> DEFINE access == request.value
    <3>1. Proper(access, mode) /\ Perform(access)
      BY <1>1, <1>3, <2>1 DEF MemDeliver
    <3>2. ASSUME access.reg \in Transferring
          PROVE  select["ap"] = access.bank
      <4>1. mode \in MemoryModes /\ access.field = "ap"
        BY <3>1, <3>2 DEF Proper, Wanted
      <4>2. Sheltered
        BY <4>1 DEF Sheltered, Prompt
      <4> QED BY <1>1, <2>1, <4>1, <4>2 DEF RightBank, Field
    <3> HIDE DEF access
    <3>3. request.value = access
      BY DEF access
    <3> QED BY <2>1, <3>1, <3>2, <3>3, PerformEffect
  <2>2. CASE request.kind # "access"
    <3>1. csw' = csw /\ tar' = tar
      BY <1>1, <2>2 DEF MemDeliver, registers
    <3>2. \A reg, ap : ~Sets(request, reg, ap)
      BY <2>2 DEF Sets
    <3> QED BY <3>1, <3>2 DEF MemInv, MemTypes
  <2> QED BY <2>1, <2>2
<1>5. ASSUME NEW i \in 1..n, NEW ap \in MemAps, NEW v
      PROVE  /\ Finds(csw[ap], queue, i + 1, "CSW", ap, v)
                  => Finds(csw'[ap], queue', i, "CSW", ap, v)
             /\ Finds(tar[ap], queue, i + 1, "TAR", ap, v)
                  => Finds(tar'[ap], queue', i, "TAR", ap, v)
  <2>1. ASSUME Finds(csw[ap], queue, i + 1, "CSW", ap, v)
        PROVE  Finds(csw'[ap], queue', i, "CSW", ap, v)
    BY <1>1, <1>4, <2>1, FindsDelivered DEF request
  <2>2. ASSUME Finds(tar[ap], queue, i + 1, "TAR", ap, v)
        PROVE  Finds(tar'[ap], queue', i, "TAR", ap, v)
    BY <1>1, <1>4, <2>2, FindsDelivered DEF request
  <2> QED BY <2>1, <2>2
<1>6. Carries(csw, tar, queue, csw', tar', queue')
  <2>1. n \in 1..n
    BY <1>2
  <2> QED BY <1>2, <1>5, <2>1 DEF Carries, HasSize, HasAddress
<1>7. Rests' = Rests
  BY <1>1 DEF Rests
<1>8. ProgramsFit' /\ CacheFits'
  BY <1>1, <1>6, <1>7, Carried DEF MemInv
<1>9. ASSUME NEW i \in DOMAIN queue'
      PROVE  RequestFits(i, csw', tar', queue', mode')
  <2> DEFINE j == i + 1
  <2>1. queue'[i] = queue[j] /\ j \in DOMAIN queue /\ i \in 1..n
    BY <1>2
  <2>2. RequestFits(j, csw, tar, queue, mode)
    BY <2>1 DEF MemInv, QueueFits
  <2>3. ASSUME queue[j].kind = "access", queue[j].value.reg = "DRW"
        PROVE  queue[j].value.bank \in MemAps
    BY <2>2, <2>3 DEF RequestFits, Proper, Wanted, Transferring
  <2> QED BY <1>1, <1>5, <2>1, <2>2, <2>3 DEF RequestFits
<1> QED BY <1>4, <1>8, <1>9 DEF QueueFits

(* A transfer begins.                                                      *)
LEMMA TransferStep ==
  ASSUME Kept, MemInv, NEW t \in Thread, NEW ap \in MemAps, NEW s, NEW p \in Programs,
         Transfer(t, ap, s, p), Begins(p, ap, s, cachedCsw[ap])
  PROVE  ProgramsFit' /\ CacheFits' /\ QueueFits'
<1>0. /\ Transfers(p, ap, s) /\ s \in Sizes
      /\ cachedCsw[ap] = s => \A v : ~WritesSize(p, ap, v)
      /\ cachedCsw[ap] # s => WritesSize(p, ap, s)
  BY DEF Begins
<1>1. /\ pc[t] = "idle" /\ program[t] = <<>> /\ mode \in MemoryModes
      /\ csw' = csw /\ tar' = tar /\ queue' = queue /\ mode' = mode
      /\ cachedCsw' = [cachedCsw EXCEPT ![ap] = s]
      /\ program' = [program EXCEPT ![t] = p] /\ pc' = [pc EXCEPT ![t] = "select"]
  BY DEF Transfer, Begin, At, Kept, ProgramsKept, registers
<1>2. 1 \in DOMAIN p /\ p # <<>> /\ p \in Seq(Access) /\ Head(p) = p[1]
  BY <1>0, ProgramType DEF Transfers
<1>3. Free(t)
  <2>1. Outer(Head(p)) = 1
    BY <1>0, <1>2 DEF Transfers, Wanted, Outer
  <2> QED BY <2>1 DEF Transfer, Begin, Lock
<1>4. \A u \in Thread : \A i \in DOMAIN Rests[u] : Rests[u][i].reg \notin Transferring
  BY <1>1, <1>3, NoneTransfers DEF MemInv
<1>5. \A u \in Thread : Rests[u] \in Seq(Access)
  BY RestIn DEF Kept
<1>6. \A u \in Thread : \A b, v : ~WritesSize(Rests[u], b, v)
  BY <1>4, <1>5, WriterTransfers
<1>7. Rests'[t] = p /\ \A u \in Thread \ {t} : Rests'[u] = Rests[u]
  BY <1>1 DEF Rests, Kept, TypeOK
<1>8. /\ \A i \in DOMAIN p : Proper(p[i], mode)
      /\ Ordered(p)
  BY <1>0, <1>1 DEF Transfers, Proper
<1>9. cachedCsw[ap] = s => HasSize(ap, s, csw, queue)
  <2>1. s # Unknown
    BY <1>0, MemApAssumption
  <2> QED BY <1>6, <2>1 DEF MemInv, CacheFits, Remembers
<1>10. RestFits(p, csw, tar, queue)
  <2> SUFFICES ASSUME NEW i \in DOMAIN p, p[i].reg = "DRW"
               PROVE  /\ i # 1
                      /\ IF p[1].reg = "CSW" THEN WritesSize(p, p[i].bank, p[i].size)
                                             ELSE HasSize(p[i].bank, p[i].size, csw, queue)
    BY DEF RestFits
  <2>1. i # 1 /\ p[i].bank = ap /\ p[i].size = s
    BY <1>0 DEF Transfers, Wanted
  <2>2. CASE p[1].reg = "CSW"
    <3>1. p[1].bank = ap /\ p[1].size = s
      BY <1>0, <1>2, <2>2 DEF Transfers, Wanted
    <3> QED BY <1>2, <2>1, <2>2, <3>1 DEF WritesSize
  <2>3. CASE p[1].reg # "CSW"
    <3>1. ~WritesSize(p, ap, s)
      BY <2>3 DEF WritesSize
    <3> QED BY <1>0, <1>9, <2>1, <2>3, <3>1
  <2> QED BY <2>1, <2>2, <2>3
<1>11. ProgramsFit'
  <2>1. \A u \in Thread \ {t} : RestFits(Rests[u], csw, tar, queue)
    BY DEF MemInv, ProgramsFit
  <2>2. \A u \in Thread : RestFits(Rests'[u], csw', tar', queue')
    BY <1>1, <1>7, <1>10, <2>1
  <2>3. \A u \in Thread \ {t} : /\ program'[u] = program[u] /\ Ordered(program[u])
                                /\ \A i \in DOMAIN program[u] : Proper(program[u][i], mode)
    BY <1>1 DEF MemInv, ProgramsFit, Kept, TypeOK
  <2>4. program'[t] = p
    BY <1>1 DEF Kept, TypeOK
  <2> QED BY <1>1, <1>8, <2>2, <2>3, <2>4 DEF ProgramsFit
<1>12. ASSUME NEW b \in MemAps
       PROVE  Remembers(b, cachedCsw'[b], Rests', csw', queue')
  <2>1. \A u \in Thread : \A v : WritesSize(Rests'[u], b, v) => u = t /\ WritesSize(p, b, v)
    BY <1>6, <1>7
  <2>2. CASE b = ap
    <3>1. cachedCsw'[b] = s
      BY <1>1, <2>2 DEF MemInv, MemTypes
    <3>2. \/ HasSize(ap, s, csw', queue')
          \/ WritesSize(Rests'[t], ap, s)
      BY <1>0, <1>1, <1>7, <1>9
    <3>3. \A v \in Sizes : WritesSize(p, ap, v) => v = s
      BY <1>0, <1>2 DEF WritesSize, Transfers, Wanted
    <3> QED BY <2>1, <2>2, <3>1, <3>2, <3>3 DEF Remembers
  <2>3. CASE b # ap
    <3>1. cachedCsw'[b] = cachedCsw[b]
      BY <1>1, <2>3 DEF MemInv, MemTypes
    <3>2. \A v : ~WritesSize(p, b, v)
      BY <1>0, <1>2, <2>3 DEF WritesSize, Transfers, Wanted
    <3>3. cachedCsw[b] # Unknown => HasSize(b, cachedCsw[b], csw, queue)
      BY <1>6 DEF MemInv, CacheFits, Remembers
    <3>4. cachedCsw[b] # Unknown => HasSize(b, cachedCsw[b], csw', queue')
      BY <1>1, <3>3
    <3> QED BY <2>1, <3>1, <3>2, <3>4 DEF Remembers
  <2> QED BY <2>2, <2>3
<1>13. CacheFits'
  BY <1>1, <1>12 DEF CacheFits
<1>14. QueueFits'
  BY <1>1 DEF MemInv, QueueFits
<1> QED BY <1>11, <1>13, <1>14

(* An error is raised.  In the sessions in which memory is accessed it is  *)
(* that of the only request, which moved no CSW and wrote no TAR; in the   *)
(* others there is nothing to lose.                                        *)
LEMMA RaiseStep ==
  ASSUME Kept, MemInv, Prompt, NEW t \in Thread, MemRaise(t)
  PROVE  ProgramsFit' /\ CacheFits' /\ QueueFits'
<1>1. /\ pc[t] \in Calling /\ error # "none" /\ error \in mode.kinds /\ queue # <<>>
      /\ queue' = <<>> /\ csw' = csw /\ tar' = tar /\ mode' = mode
      /\ program' = [program EXCEPT ![t] = <<>>] /\ pc' = [pc EXCEPT ![t] = "idle"]
      /\ queue \in Seq(Request)
  BY DEF MemRaise, Raise, At, Kept, CallsKept, registers, TypeOK
<1>2. /\ Rests'[t] = <<>> /\ program'[t] = <<>>
      /\ \A u \in Thread \ {t} : Rests'[u] = Rests[u] /\ program'[u] = program[u]
  BY <1>1 DEF Rests, Kept, TypeOK
<1>3. \A ap \in MemAps : cachedCsw'[ap] \in {cachedCsw[ap], Unknown}
  BY DEF MemRaise
<1>4. QueueFits'
  BY <1>1 DEF QueueFits
<1>5. DOMAIN <<>> = {} /\ <<>> \in Seq(Access)
  OBVIOUS
<1>6. CASE mode \in MemoryModes
  <2>1. ~mode.deferred /\ error \notin {"protocol", "probe"} /\ Len(queue) = 1
    BY <1>1, <1>6 DEF Prompt, Kept, CallsKept
  <2>2. /\ queue[1] = Head(queue) /\ 1 \in DOMAIN queue
        /\ queue[1].kind = "access" /\ queue[1].value.beyond
    BY <1>1, <2>1 DEF Kept, CallsKept, CanFail
  <2>3. queue[1].value.reg \notin {"CSW", "TAR"}
    <3>1. Proper(queue[1].value, mode)
      BY <2>2 DEF MemInv, QueueFits, RequestFits
    <3> QED BY <2>2, <3>1 DEF Proper, Wanted, Transferring
  <2>4. \A reg \in {"CSW", "TAR"} :
          \A ap, v : ~(Sets(queue[1], reg, ap) /\ Gives(queue[1], reg, v))
    BY <2>3 DEF Sets, Gives, Changing
  <2>5. Carries(csw, tar, queue, csw', tar', queue')
    <3>1. Len(queue) + 1 = 2 /\ Len(queue') + 1 = 1
      BY <1>1, <2>1
    <3>2. ASSUME NEW ap \in MemAps, NEW v, HasSize(ap, v, csw, queue)
          PROVE  HasSize(ap, v, csw', queue')
      <4>1. Finds(csw[ap], queue, 2, "CSW", ap, v)
        BY <3>1, <3>2 DEF HasSize
      <4>2. csw[ap] = v
        BY <2>4, <4>1, FindsDropped
      <4>3. Finds(csw'[ap], queue', 1, "CSW", ap, v)
        BY <1>1, <4>2, FindsNow
      <4> QED BY <3>1, <4>3 DEF HasSize
    <3>3. ASSUME NEW ap \in MemAps, NEW v, HasAddress(ap, v, tar, queue)
          PROVE  HasAddress(ap, v, tar', queue')
      <4>1. Finds(tar[ap], queue, 2, "TAR", ap, v)
        BY <3>1, <3>3 DEF HasAddress
      <4>2. tar[ap] = v
        BY <2>4, <4>1, FindsDropped
      <4>3. Finds(tar'[ap], queue', 1, "TAR", ap, v)
        BY <1>1, <4>2, FindsNow
      <4> QED BY <3>1, <4>3 DEF HasAddress
    <3> QED BY <3>2, <3>3 DEF Carries
  <2>6. \A ap \in MemAps : \A size : ~WritesSize(Rests[t], ap, size)
    <3>1. pc[t] # "selecting"
      <4>1. \E u \in Thread : /\ pc[u] \in Calling
                              /\ pc[u] = "selecting" <=> Head(queue).kind = "select"
        BY <1>1, <2>1 DEF Kept, CallsKept
      <4> QED BY <1>1, <2>2, <4>1 DEF Kept, CallsKept
    <3>2. CASE pc[t] = "accessing"
      <4>1. Ordered(program[t]) /\ Rests[t] = Tail(program[t]) /\ program[t] # <<>>
            /\ program[t] \in Seq(Access)
        BY <3>2, RestIn DEF MemInv, ProgramsFit, Kept
      <4> QED BY <4>1, TailOrdered
    <3>3. CASE pc[t] \in {"collecting", "flushing"}
      <4>1. Rests[t] = <<>>
        BY <3>3, RestIn DEF Kept, ProgramsKept
      <4> QED BY <4>1 DEF WritesSize
    <3> QED BY <1>1, <3>1, <3>2, <3>3 DEF Calling
  <2>7. ProgramsFit' /\ CacheFits'
    BY <1>1, <1>2, <1>3, <1>5, <2>5, <2>6, Carried DEF MemInv
  <2> QED BY <1>4, <2>7
<1>7. CASE mode \notin MemoryModes
  <2>1. \A u \in Thread : \A i \in DOMAIN program[u] : program[u][i].reg \notin Transferring
    BY <1>7 DEF MemInv, ProgramsFit, Proper
  <2>2. \A u \in Thread : \A i \in DOMAIN program'[u] : program'[u][i].reg \notin Transferring
    BY <1>2, <1>5, <2>1
  <2>3. \A u \in Thread : \A i \in DOMAIN Rests'[u] : Rests'[u][i].reg \notin Transferring
    BY <1>2, <1>5, <2>1, RestIn DEF Kept
  <2>4. \A u \in Thread : Rests'[u] \in Seq(Access)
    BY <1>2, <1>5, RestIn DEF Kept
  <2>5. \A u \in Thread : \A ap, v : ~WritesSize(Rests'[u], ap, v)
    BY <2>3, <2>4, WriterTransfers
  <2>6. \A ap \in MemAps : cachedCsw'[ap] = Unknown
    BY <1>3, <1>7 DEF MemInv, CacheFits
  <2>7. ProgramsFit'
    BY <2>2, <2>3 DEF ProgramsFit, Ordered, Proper, RestFits, Transferring
  <2>8. CacheFits'
    BY <2>5, <2>6 DEF CacheFits, Remembers
  <2> QED BY <1>4, <2>7, <2>8
<1> QED BY <1>6, <1>7

(* A reset is done: it ends when nobody is in the middle of a transfer.    *)
LEMMA ResetDoneStep ==
  ASSUME Kept, MemInv, Prompt, NEW t \in Thread, MemResetDone(t)
  PROVE  ProgramsFit' /\ CacheFits' /\ QueueFits'
<1>0. cachedCsw' = [ap \in MemAps |-> Unknown]
  <2>1. CASE error = "probe"
    <3>1. mode \notin MemoryModes
      BY <2>1 DEF Kept, CallsKept, Prompt
    <3>2. cachedCsw = [ap \in MemAps |-> Unknown]
      BY <3>1 DEF MemInv, MemTypes, CacheFits
    <3> QED BY <2>1, <3>2 DEF MemResetDone
  <2> QED BY <2>1 DEF MemResetDone
<1>1. /\ pc[t] = "resetting" /\ program[t] = <<>> /\ Free(t) /\ queue' = <<>>
      /\ mode' = mode /\ program' = program /\ pc' = [pc EXCEPT ![t] = "idle"]
      /\ cachedCsw' = [ap \in MemAps |-> Unknown]
  BY <1>0 DEF MemResetDone, ResetDone, At, Kept, ProgramsKept
<1>2. \A u \in Thread : Rests'[u] = Rests[u] /\ program'[u] = program[u]
  BY <1>1 DEF Rests, Kept, TypeOK
<1>3. \A u \in Thread : \A i \in DOMAIN Rests[u] : Rests[u][i].reg \notin Transferring
  BY <1>1, NoneTransfers DEF MemInv
<1>4. \A u \in Thread : Rests[u] \in Seq(Access)
  BY RestIn DEF Kept
<1>5. \A u \in Thread : \A b, v : ~WritesSize(Rests[u], b, v)
  BY <1>3, <1>4, WriterTransfers
<1>6. ProgramsFit'
  BY <1>1, <1>2, <1>3 DEF MemInv, ProgramsFit, RestFits, Transferring
<1>7. CacheFits'
  BY <1>1, <1>2, <1>5 DEF CacheFits, Remembers
<1>8. QueueFits'
  BY <1>1 DEF QueueFits
<1> QED BY <1>6, <1>7, <1>8

(* Nothing is remembered and nothing on its way at first.                  *)
LEMMA MemInvInit == MemInit => MemInv
<1> SUFFICES ASSUME MemInit PROVE MemInv
  OBVIOUS
<1>1. /\ queue = <<>> /\ program = [t \in Thread |-> <<>>] /\ pc = [t \in Thread |-> "idle"]
      /\ cachedCsw = [ap \in MemAps |-> Unknown]
  BY DEF MemInit, Init
<1>2. \A t \in Thread : Rests[t] = <<>> /\ program[t] = <<>>
  BY <1>1 DEF Rests
<1>3. MemTypes
  BY DEF MemInit, MemTypes, Known
<1>4. ProgramsFit
  BY <1>2 DEF ProgramsFit, Ordered, RestFits
<1>5. CacheFits
  BY <1>1, <1>2 DEF CacheFits, Remembers, WritesSize
<1>6. QueueFits
  BY <1>1 DEF QueueFits
<1> QED BY <1>3, <1>4, <1>5, <1>6 DEF MemInv

(* The transfers of MEM_AP begin as transfers.                             *)
LEMMA BeginsTransfer ==
  ASSUME Kept, MemInv, NEW t \in Thread,
         WriteMemory(t) \/ ReadMemory(t) \/ WriteBlock(t) \/ ReadBlock(t)
  PROVE  MemInv'
<1>1. ASSUME NEW ap \in MemAps, NEW s, NEW p \in Programs, Transfer(t, ap, s, p),
             Begins(p, ap, s, cachedCsw[ap])
      PROVE  MemInv'
  <2>1. ProgramsFit' /\ CacheFits' /\ QueueFits'
    BY <1>1, TransferStep
  <2>2. MemTypes'
    BY <1>1 DEF Begins, Transfer, registers, MemInv, MemTypes, Known
  <2> QED BY <2>1, <2>2 DEF MemInv
<1>2. \A ap \in MemAps : cachedCsw[ap] \in Known
  BY DEF MemInv, MemTypes
<1>3. CASE WriteMemory(t)
  <2>1. PICK ap \in MemAps, size \in Sizes, addr \in Starts :
          Transfer(t, ap, size, WriteProgram(ap, size, addr, cachedCsw[ap]))
    BY <1>3 DEF WriteMemory
  <2> DEFINE known == cachedCsw[ap]
             p     == WriteProgram(ap, size, addr, known)
  <2>2. p \in Programs
    BY <1>2, MemProgramsAssumption DEF AllPrograms
  <2>3. Transfer(t, ap, size, p)
    BY <2>1
  <2>4. Begins(p, ap, size, known)
    BY WriteBegins
  <2> HIDE DEF p
  <2> QED BY <1>1, <2>2, <2>3, <2>4
<1>4. CASE ReadMemory(t)
  <2>1. PICK ap \in MemAps, size \in Sizes, addr \in Starts, wait \in {"now", "later"} :
          Transfer(t, ap, size, ReadProgram(ap, size, addr, wait, cachedCsw[ap]))
    BY <1>4 DEF ReadMemory
  <2> DEFINE known == cachedCsw[ap]
             p     == ReadProgram(ap, size, addr, wait, known)
  <2>2. p \in Programs
    BY <1>2, MemProgramsAssumption DEF AllPrograms
  <2>3. Transfer(t, ap, size, p)
    BY <2>1
  <2>4. Begins(p, ap, size, known)
    BY ReadBegins
  <2> HIDE DEF p
  <2> QED BY <1>1, <2>2, <2>3, <2>4
<1>5. CASE WriteBlock(t) \/ ReadBlock(t)
  <2>1. PICK ap \in MemAps, addr \in Starts, count \in Counts, wait \in {"now", "write"} :
          Transfer(t, ap, Word, BlockProgram(ap, addr, count, wait, cachedCsw[ap]))
    BY <1>5 DEF WriteBlock, ReadBlock
  <2> DEFINE known == cachedCsw[ap]
             p     == BlockProgram(ap, addr, count, wait, known)
  <2>2. p \in Programs
    BY <1>2, MemProgramsAssumption DEF AllPrograms
  <2>3. Transfer(t, ap, Word, p)
    BY <2>1
  <2>4. Begins(p, ap, Word, known)
    BY BlockBegins
  <2> HIDE DEF p
  <2> QED BY <1>1, <2>2, <2>3, <2>4
<1> QED BY <1>3, <1>4, <1>5

(* The steps of the DebugPort that leave transfers alone.                  *)
LEMMA PlainStep ==
  ASSUME Kept, MemInv, NEW t \in Thread,
         \/ Plain(t) /\ ~Issue(t)
         \/ RegisterAccess(t) \/ MemReset(t)
  PROVE  ProgramsFit' /\ CacheFits' /\ QueueFits'
<1>1. /\ pc \in [Thread -> Places] /\ program \in [Thread -> Seq(Access)]
      /\ pc[t] = "idle" => program[t] = <<>>
  BY DEF Kept, TypeOK, ProgramsKept
<1>2. CASE RegisterAccess(t)
  <2>1. PICK access \in Raw : Begin(t, <<access>>)
    BY <1>2 DEF RegisterAccess
  <2>2. <<access>> \in Programs
    BY MemProgramsAssumption DEF AllPrograms
  <2> DEFINE p == <<access>>
  <2>3. p \in Seq(Access) /\ \A i \in DOMAIN p : p[i].reg \notin Transferring
    <3>1. access.reg \notin Transferring
      BY MemApAssumption DEF Transferring
    <3>2. \A i \in DOMAIN p : p[i] = access
      OBVIOUS
    <3> QED BY <2>2, <3>1, <3>2, ProgramType
  <2> HIDE DEF p
  <2>4. /\ pc[t] = "idle" /\ program[t] = <<>>
        /\ program' = [program EXCEPT ![t] = p] /\ pc' = [pc EXCEPT ![t] = "select"]
        /\ mode' = mode /\ queue' = queue /\ cachedCsw' = cachedCsw /\ UNCHANGED registers
    BY <1>1, <1>2, <2>1 DEF Begin, At, RegisterAccess, p
  <2>5. /\ Rests'[t] = p /\ program'[t] = p
        /\ \A u \in Thread \ {t} : Rests'[u] = Rests[u] /\ program'[u] = program[u]
    BY <1>1, <2>4 DEF Rests
  <2>6. \A ap \in MemAps : \A size : ~WritesSize(Rests[t], ap, size)
    <3>1. Rests[t] = <<>>
      BY <2>4, RestIn DEF Kept
    <3> QED BY <3>1 DEF WritesSize
  <2> QED BY <2>3, <2>4, <2>5, <2>6, QuietStep DEF MemInv
<1>3. CASE Return(t) /\ UNCHANGED <<cachedCsw, registers>>
  <2>1. /\ program[t] # <<>> /\ pc[t] = "accessing" /\ pc'[t] # "accessing"
        /\ program' = [program EXCEPT ![t] = Tail(program[t])]
        /\ \A u \in Thread \ {t} : pc'[u] = pc[u]
        /\ mode' = mode /\ queue' = queue /\ cachedCsw' = cachedCsw /\ UNCHANGED registers
    BY <1>1, <1>3 DEF Return, At, Kept, ProgramsKept
  <2>2. Rests'[t] = Rests[t] /\ program'[t] = Tail(program[t])
    BY <1>1, <2>1 DEF Rests
  <2>3. \A u \in Thread \ {t} : Rests'[u] = Rests[u] /\ program'[u] = program[u]
    BY <1>1, <2>1 DEF Rests
  <2> QED BY <2>1, <2>2, <2>3, QuietStep DEF MemInv
<1>4. CASE SelectBank(t) /\ UNCHANGED <<cachedCsw, registers>>
  <2>1. /\ pc[t] = "select" /\ program' = program /\ pc'[t] \in {"access", "selecting"}
        /\ \A u \in Thread \ {t} : pc'[u] = pc[u]
        /\ mode' = mode /\ cachedCsw' = cachedCsw /\ UNCHANGED registers
    BY <1>1, <1>4 DEF SelectBank, At
  <2>2. Rests' = Rests
    BY <2>1 DEF Rests
  <2>3. \/ queue' = queue
        \/ \E value \in SelectType : queue' = Append(queue, SelectRequest(value))
    <3>1. Head(program[t]) \in Access /\ Head(program[t]).field \in Field
      BY <1>4, <2>1, HoldsType DEF SelectBank, Kept, ProgramsKept
    <3>2. Chosen(Head(program[t])) \in SelectType
      BY <3>1, ChosenRight DEF Kept
    <3> QED BY <1>4, <3>2 DEF SelectBank
  <2> QED BY <2>1, <2>2, <2>3, QuietStep DEF MemInv
<1>5. CASE /\ \/ SelectNothing(t) \/ SelectReturns(t) \/ Remember(t) \/ Collect(t)
              \/ Collected(t) \/ Flush(t) \/ Flushed(t)
           /\ UNCHANGED <<cachedCsw, registers>>
  <2>1. /\ program' = program /\ pc[t] # "accessing" /\ pc'[t] # "accessing"
        /\ \A u \in Thread \ {t} : pc'[u] = pc[u]
        /\ mode' = mode /\ queue' = queue /\ cachedCsw' = cachedCsw /\ UNCHANGED registers
    BY <1>1, <1>5 DEF SelectNothing, SelectReturns, Remember, Collect, Collected, Flush,
                      Flushed, At
  <2>2. Rests' = Rests
    BY <2>1 DEF Rests
  <2> QED BY <2>1, <2>2, QuietStep DEF MemInv
<1>6. CASE MemReset(t)
  <2>1. /\ program' = program /\ pc[t] # "accessing" /\ pc'[t] # "accessing"
        /\ \A u \in Thread \ {t} : pc'[u] = pc[u]
        /\ mode' = mode /\ queue' = queue /\ UNCHANGED registers
        /\ \A ap \in MemAps : cachedCsw'[ap] = Unknown
    BY <1>1, <1>6 DEF MemReset, Reset, At
  <2>2. Rests' = Rests
    BY <2>1 DEF Rests
  <2> QED BY <2>1, <2>2, QuietStep DEF MemInv
<1> QED BY <1>2, <1>3, <1>4, <1>5, <1>6 DEF Plain

(* A failing access does nothing yet; where the probe itself may fail, no  *)
(* memory is accessed.                                                     *)
LEMMA FailStep ==
  ASSUME Kept, MemInv, Prompt, MemFail
  PROVE  ProgramsFit' /\ CacheFits' /\ QueueFits' /\ UNCHANGED registers
<1>0. UNCHANGED registers
  <2>1. CASE /\ "probe" \in mode.kinds /\ queue # <<>>
             /\ Head(queue).kind = "access" /\ Perform(Head(queue).value)
    <3>1. mode \notin MemoryModes
      BY <2>1 DEF Prompt
    <3>2. 1 \in DOMAIN queue /\ Head(queue) = queue[1]
      BY <2>1 DEF Kept, TypeOK
    <3>3. Head(queue).value.reg \notin Transferring
      BY <2>1, <3>1, <3>2 DEF MemInv, QueueFits, RequestFits, Proper
    <3> QED BY <2>1, <3>3 DEF Perform, Transferring, registers
  <2> QED BY <2>1 DEF MemFail, Fail
<1>1. /\ program' = program /\ pc' = pc
      /\ mode' = mode /\ queue' = queue /\ cachedCsw' = cachedCsw
  BY DEF MemFail, Fail, threadVars
<1>2. Rests' = Rests
  BY <1>1 DEF Rests
<1> QED BY <1>0, <1>1, <1>2, QuietStep DEF MemInv

(* Every step keeps the invariant.                                         *)
LEMMA MemInvStep ==
  ASSUME Kept, MemInv, Prompt, RightBank, [MemNext]_memVars
  PROVE  MemInv'
<1>1. CASE MemDeliver
  <2>1. MemTypes'
    BY <1>1, DeliverStep DEF MemDeliver, MemInv, MemTypes
  <2> QED BY <1>1, <2>1, DeliverStep DEF MemInv
<1>2. ASSUME NEW t \in Thread,
             WriteMemory(t) \/ ReadMemory(t) \/ WriteBlock(t) \/ ReadBlock(t)
      PROVE  MemInv'
  BY <1>2, BeginsTransfer
<1>3. ASSUME NEW t \in Thread, RegisterAccess(t) \/ Plain(t)
      PROVE  MemInv'
  <2>1. MemTypes'
    BY <1>3 DEF RegisterAccess, Plain, registers, MemInv, MemTypes
  <2>2. CASE Plain(t) /\ Issue(t)
    BY <2>1, <2>2, IssueStep DEF Plain, MemInv
  <2>3. CASE ~(Plain(t) /\ Issue(t))
    BY <1>3, <2>1, <2>3, PlainStep DEF MemInv
  <2> QED BY <2>2, <2>3
<1>4. ASSUME NEW t \in Thread, MemRaise(t)
      PROVE  MemInv'
  <2>1. MemTypes'
    BY <1>4 DEF MemRaise, registers, MemInv, MemTypes, Known
  <2> QED BY <1>4, <2>1, RaiseStep DEF MemInv
<1>5. ASSUME NEW t \in Thread, MemReset(t)
      PROVE  MemInv'
  <2>1. MemTypes'
    BY <1>5 DEF MemReset, registers, MemInv, MemTypes, Known
  <2> QED BY <1>5, <2>1, PlainStep DEF MemInv
<1>6. ASSUME NEW t \in Thread, MemResetDone(t)
      PROVE  MemInv'
  <2>1. MemTypes'
    BY <1>6, MemApAssumption DEF MemResetDone, MemInv, MemTypes, Known
  <2> QED BY <1>6, <2>1, ResetDoneStep DEF MemInv
<1>7. CASE UNCHANGED memVars
  <2>1. /\ UNCHANGED <<cachedCsw, csw, tar, mode, queue, pc, program>>
        /\ Rests' = Rests
    BY <1>7 DEF memVars, vars, Rests
  <2>2. MemTypes' /\ ProgramsFit'
    BY <2>1 DEF MemInv, MemTypes, ProgramsFit
  <2>3. CacheFits' /\ QueueFits'
    BY <2>1 DEF MemInv, CacheFits, QueueFits
  <2> QED BY <2>2, <2>3 DEF MemInv
<1>8. CASE MemFail
  <2>1. MemTypes'
    BY <1>8, FailStep DEF MemFail, registers, MemInv, MemTypes
  <2> QED BY <1>8, <2>1, FailStep DEF MemInv
<1> QED BY <1>1, <1>2, <1>3, <1>4, <1>5, <1>6, <1>7, <1>8 DEF MemNext

-----------------------------------------------------------------------------
(* Theorems                                                                *)

(* In sessions in which no error comes late and the wire does not fail,    *)
(* the registers find what the transfers need.                             *)
LEMMA MemInvariant ==
  ASSUME Prompt
  PROVE  MemSpec => [](Kept /\ MemInv)
<1>1. MemSpec => []Kept
  BY MemAccessesAreAccesses, KeptInvariant, PTL
<1>2. MemSpec => []RightBank
  BY MemBankIsSelected
<1>3. Kept /\ MemInv /\ RightBank /\ [MemNext]_memVars => MemInv'
  BY MemInvStep
<1> QED BY <1>1, <1>2, <1>3, MemInvInit, PTL DEF MemSpec

(* When the target performs a transfer of MEM_AP, CSW holds its size and   *)
(* the addresses touched are those its caller meant, whatever the other    *)
(* threads access, and whatever failed or was reset before.                *)
THEOREM TransfersAreAsMeant ==
  ASSUME Prompt
  PROVE  MemSpec => []AsMeant
<1>1. Kept /\ MemInv /\ RightBank => AsMeant
  <2> SUFFICES ASSUME Kept, MemInv, RightBank,
                      error = "none", queue # <<>>, Head(queue).kind = "access",
                      Head(queue).value.reg = "DRW",
                      NEW access, access = Head(queue).value
               PROVE  /\ select["ap"] = access.bank /\ csw[access.bank] = access.size
                      /\ Touched(tar[access.bank], access.count)
                           = access.first .. access.first + access.count - 1
    BY DEF AsMeant
  <2>1. 1 \in DOMAIN queue /\ Head(queue) = queue[1]
    BY DEF Kept, TypeOK
  <2>2. /\ Proper(access, mode)
        /\ Finds(csw[access.bank], queue, 1, "CSW", access.bank, access.size)
        /\ Finds(tar[access.bank], queue, 1, "TAR", access.bank, access.first)
    BY <2>1 DEF MemInv, QueueFits, RequestFits
  <2>3. csw[access.bank] = access.size /\ tar[access.bank] = access.first
    BY <2>2, FindsNow
  <2>4. /\ mode \in MemoryModes /\ access.field = "ap"
        /\ access.first \in Nat /\ access.count \in Nat \ {0}
        /\ (access.first % PageSize) + access.count <= PageSize
    BY <2>2 DEF Proper, Wanted, Transferring
  <2>5. select["ap"] = access.bank
    <3>1. Sheltered
      BY <2>4 DEF Sheltered, Prompt
    <3> QED BY <2>4, <3>1 DEF RightBank, Field
  <2> QED BY <2>3, <2>4, <2>5, TouchedInPage
<1> QED BY <1>1, MemInvariant, MemBankIsSelected, PTL
==============================================================================
