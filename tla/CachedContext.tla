---------------------------- MODULE CachedContext ----------------------------
(***************************************************************************)
(* CachingDebugContext: the memory cache and the register cache of one     *)
(* core, and the run token that is to tell them that the core has run.     *)
(*                                                                         *)
(* Each access first asks the core whether it is running and compares run  *)
(* tokens, then uses the cache or the target.  The core may halt, sleep    *)
(* or wake between the two.  The two caches share nothing, so a behaviour  *)
(* uses one of them.                                                       *)
(***************************************************************************)
EXTENDS MemoryCache, RegisterCache

CONSTANTS Address,     \* addresses that can be read and written
          Spans,       \* <<address, size>> of the reads
          Data,        \* byte sequences that are written
          Byte,        \* what a memory cell holds
          Initial,     \* memory at the start
          FieldValues, \* values of each field of the core's state
          ReadLists,   \* sets of registers read together
          WriteLists,  \* sequences of registers written together
          UseAsleep,   \* accesses are made while the core sleeps (WFI, WFE)
          FaultKinds,  \* see Fail
          MaxToken,    \* bound: how often the core is let run
          MaxFaults    \* bound: accesses that fail

ASSUME ContextAssumption ==
  /\ Address \subseteq Nat /\ Initial \in [Address -> Byte]
  /\ \A s \in Spans : /\ s[1] \in Address /\ s[2] \in Nat \ {0}
                      /\ s[1]..(s[1] + s[2] - 1) \subseteq Address
  /\ Data \subseteq Seq(Byte) \ {<<>>}
  /\ ReadLists \subseteq SUBSET Reg /\ WriteLists \subseteq Seq(Reg)
  /\ UseAsleep \in BOOLEAN /\ MaxToken \in Nat /\ MaxFaults \in Nat
  /\ FaultKinds \subseteq {"read", "write", "partial", "register", "transfer"}

(* A register that is read shares no field with one that is written, or    *)
(* with the one it is written with, unless both are parts of XPSR, or stack*)
(* pointers, or the written one is a CFBP and the other one or its byte, or*)
(* both are the same byte of one, or both are bytes of the same CFBP, or   *)
(* the cache overlooks it.                                                 *)
ASSUME AliasAssumption ==
  \A r \in UNION ReadLists, w \in UNION {Range(l) : l \in WriteLists} :
    \/ {r, w} \subseteq XpsrRegs \cup {XpsrIndex}
    \/ {r, w} \subseteq SpRegs
    \/ \E u, v \in CfbpVariants :
         \/ w = u.index /\ r \in Range(v.regs) \cup {v.index}
         \/ \E p \in 1..4 : w = u.regs[p] /\ r = v.regs[p]
    \/ r = w /\ Through(w) = w
    \/ r \in Overlooked({w})
    \/ /\ FieldsOf[r] \cap FieldsOf[w] = {}
       /\ Through(r) # r \/ FieldsOf[r] \cap FieldsOf[Through(w)] = {}

VARIABLES uses,    \* "memory", "registers": the cache this behaviour uses
          core,    \* "halted", "running", "sleeping"
          token,   \* CortexM._run_token
          mem,     \* the target's memory
          fields,  \* the state of the core
          mcache,  \* MemoryCache._cache
          rcache,  \* RegisterCache._cache
          cached,  \* _run_token of the cache in use
          op,      \* the access under way
          faults,
          torn,    \* history: addresses cached when a write that failed changed them
          doubted  \* history: registers cached with a value the write of which
                   \* failed unnoticed, or overlooked by a write

target == <<core, token, mem, fields>>
caches == <<mcache, rcache, cached, torn, doubted>>
vars   == <<uses, core, token, mem, fields, caches, op, faults>>

NoReg == [r \in {} |-> r]
Idle == [kind |-> "none"]

Init ==
  /\ uses \in {"memory", "registers"}
  /\ core \in {"halted", "running"} /\ token = 0
  /\ mem = Initial
  /\ \E v \in FieldValues : fields = [f \in Field |-> v]
  /\ mcache = {} /\ rcache = NoReg /\ cached = -1
  /\ op = Idle /\ faults = 0 /\ torn = {} /\ doubted = {}

-----------------------------------------------------------------------------
(* The core.                                                               *)

(* The client that lets the core run waits for its access to be over.      *)
LetRun == op = Idle /\ token < MaxToken /\ token' = token + 1

Resume ==
  /\ core = "halted" /\ LetRun /\ core' = "running"
  /\ UNCHANGED <<uses, mem, fields, caches, op, faults>>

(* An instruction changes a byte, or a field (only what is looked at in    *)
(* this behaviour matters).                                                *)
Executed ==
  \/ /\ uses = "memory" /\ UNCHANGED fields
     /\ \E a \in Address, v \in Byte : mem' = [mem EXCEPT ![a] = v]
  \/ /\ uses = "registers" /\ UNCHANGED mem
     /\ \E f \in Field, v \in FieldValues : fields' = [fields EXCEPT ![f] = v]

(* step() runs one or more instructions; it gives up waiting after a time. *)
Step ==
  /\ core = "halted" /\ LetRun /\ Executed
  /\ core' \in {"halted", "running"}
  /\ UNCHANGED <<uses, caches, op, faults>>

(* reset() leaves the memory and sets the registers.                       *)
ResetCore ==
  /\ LetRun /\ core' = "running"
  /\ IF uses = "memory" THEN UNCHANGED fields
       ELSE \E v \in FieldValues : fields' = [f \in Field |-> v]
  /\ UNCHANGED <<uses, mem, caches, op, faults>>

Execute ==
  /\ core = "running" /\ Executed
  /\ UNCHANGED <<uses, core, token, caches, op, faults>>

Halt ==
  /\ core \in {"running", "sleeping"} /\ core' = "halted"
  /\ UNCHANGED <<uses, token, mem, fields, caches, op, faults>>

Sleep ==
  /\ core = "running" /\ core' = "sleeping"
  /\ UNCHANGED <<uses, token, mem, fields, caches, op, faults>>

Wake ==
  /\ core = "sleeping" /\ core' = "running"
  /\ UNCHANGED <<uses, token, mem, fields, caches, op, faults>>

-----------------------------------------------------------------------------
(* Accesses.                                                               *)

Emptied == mcache' = {} /\ rcache' = NoReg /\ torn' = {} /\ doubted' = {}

(* Mutant: the token is not compared.                                      *)
Check_IgnoresToken ==
  /\ cached' = token
  /\ IF core = "running" THEN Emptied ELSE UNCHANGED <<mcache, rcache, torn, doubted>>

(* _check_cache, of either cache.                                          *)
Check ==
  IF core = "running"
    THEN Emptied /\ UNCHANGED cached
  ELSE IF cached # token
    THEN Emptied /\ cached' = token
  ELSE UNCHANGED caches

Begin(access) ==
  /\ op = Idle /\ (core = "sleeping" => UseAsleep)
  /\ op' = access
  /\ Check
  /\ UNCHANGED <<uses, target, faults>>

BeginMemory ==
  /\ uses = "memory"
  /\ \/ \E s \in Spans : Begin([kind |-> "read", begin |-> s[1], end |-> s[1] + s[2]])
     \/ \E a \in Address, d \in Data :
          /\ \A b \in a..(a + Len(d) - 1) : b \in Address
          /\ Begin([kind |-> "write", begin |-> a, end |-> a + Len(d), data |-> d])

(* If the core is running the register cache is passed by.                 *)
BeginRegisters ==
  /\ uses = "registers"
  /\ \/ \E l \in ReadLists :
          Begin([kind |-> "readRegs", regs |-> l, direct |-> core = "running"])
     \/ \E l \in WriteLists : \E vs \in [DOMAIN l -> FieldValues] :
          Begin([kind |-> "writeRegs", direct |-> core = "running",
                 writes |-> [i \in DOMAIN l |->
                   [reg |-> l[i], value |-> [f \in FieldsOf[l[i]] |-> vs[i]]]]])

Done == op' = Idle /\ UNCHANGED <<uses, core, token>>
Return == Done /\ UNCHANGED faults

(* An access fails: "read" and "write" do nothing to the target, "partial" *)
(* is a block write that fails after some of its bytes, "register" is a    *)
(* CoreRegisterAccessError, "transfer" a TransferError, which the register *)
(* cache does not catch; some writes may have been performed.              *)
Fail(kind) ==
  /\ kind \in FaultKinds /\ faults < MaxFaults
  /\ faults' = faults + 1
  /\ Done

FromTarget(b, e) == [i \in 1..(e - b) |-> mem[b + i - 1]]

(* read_memory_block8: the bytes of the ranges that are not cached yet, and *)
(* what the read returns if it gets on now.                                *)
FetchedNow == Fetched(Uncached(mcache, op.begin, op.end), mem)
Bytes == Merge(Ascending(Overlap(mcache, op.begin, op.end) \cup FetchedNow), op.begin, op.end)

BytesRead ==
  IF CheckRegions(op.begin, op.end) = "cached" THEN Bytes ELSE FromTarget(op.begin, op.end)

ReadMemory ==
  /\ op.kind = "read"
  /\ Return
  /\ mcache' = IF CheckRegions(op.begin, op.end) = "cached" THEN mcache \cup FetchedNow
                                                          ELSE mcache
  /\ UNCHANGED <<mem, fields, rcache, cached, torn, doubted>>

(* The ranges read before the one that failed are in the cache.            *)
ReadMemoryFails ==
  /\ op.kind = "read" /\ CheckRegions(op.begin, op.end) # "fault"
  /\ Fail("read")
  /\ \E read \in SUBSET Uncached(mcache, op.begin, op.end) :
       /\ read # Uncached(mcache, op.begin, op.end)
       /\ CheckRegions(op.begin, op.end) = "cached" \/ read = {}
       /\ mcache' = mcache \cup Fetched(read, mem)
  /\ UNCHANGED <<mem, fields, rcache, cached, torn, doubted>>

Stored(b, value) ==
  [a \in Address |-> IF b <= a /\ a < b + Len(value) THEN value[a - b + 1] ELSE mem[a]]

(* write_memory_block8: the target first, then the cache.                  *)
WriteMemory ==
  /\ op.kind = "write"
  /\ Return
  /\ LET kind == CheckRegions(op.begin, op.end)
     IN /\ mem' = IF kind = "fault" THEN mem ELSE Stored(op.begin, op.data)
        /\ mcache' = IF kind = "cached" THEN Written(mcache, op.begin, op.data) ELSE mcache
        /\ torn' = IF kind = "fault" THEN torn ELSE torn \ (op.begin..(op.end - 1))
  /\ UNCHANGED <<fields, rcache, cached, doubted>>

WriteMemoryFails ==
  /\ op.kind = "write" /\ CheckRegions(op.begin, op.end) # "fault"
  /\ \/ Fail("write") /\ UNCHANGED <<mem, torn>>
     \/ /\ Fail("partial")
        /\ \E n \in 1..Len(op.data) :
             /\ mem' = Stored(op.begin, SubSeq(op.data, 1, n))
             /\ torn' = torn \cup ((op.begin..(op.begin + n - 1)) \cap Held(mcache))
  /\ UNCHANGED <<fields, mcache, rcache, cached, doubted>>

(* A CoreRegisterAccessError empties the cache it comes through.           *)
Discarded ==
  /\ rcache'  = IF op.direct THEN rcache ELSE NoReg
  /\ doubted' = IF op.direct THEN doubted ELSE {}

(* The core refuses register accesses unless it is halted.                 *)
Refused ==
  /\ core # "halted" /\ Return /\ Discarded
  /\ UNCHANGED <<mem, fields, mcache, cached, torn>>

RegistersRead ==
  IF op.direct THEN [r \in op.regs |-> ValueOf(r, fields)]
               ELSE Restrict(AfterRead(rcache, op.regs, fields), op.regs)

(* Reading a part of CFBP or XPSR renews all of it.                        *)
StillDoubted == doubted \ Refreshed(rcache, op.regs)

ReadRegisters ==
  /\ op.kind = "readRegs"
  /\ \/ (op.direct \/ ToRead(rcache, op.regs) # {}) /\ Refused
     \/ /\ core = "halted" \/ (~op.direct /\ ToRead(rcache, op.regs) = {})
        /\ Return
        /\ rcache'  = IF op.direct THEN rcache ELSE AfterRead(rcache, op.regs, fields)
        /\ doubted' = IF op.direct THEN doubted ELSE StillDoubted
        /\ UNCHANGED <<mem, fields, mcache, cached, torn>>

ReadRegistersFails ==
  /\ op.kind = "readRegs" /\ core = "halted"
  /\ (op.direct \/ ToRead(rcache, op.regs) # {})
  /\ \/ Fail("register") /\ Discarded
     \/ Fail("transfer") /\ UNCHANGED <<rcache, doubted>>
  /\ UNCHANGED <<mem, fields, mcache, cached, torn>>

RegsWritten == {op.writes[i].reg : i \in DOMAIN op.writes}

(* The written values are cached; more than the given registers cannot be  *)
(* relied on then.                                                         *)
CacheWrites(doubtful) ==
  /\ rcache'  = IF op.direct THEN rcache ELSE AfterWrite(rcache, op.writes)
  /\ doubted' = IF op.direct THEN doubted
                ELSE (doubtful \cup Overlooked(RegsWritten)) \cap DOMAIN rcache'

(* The cache is updated before the registers are written.                  *)
WriteRegisters ==
  /\ op.kind = "writeRegs"
  /\ \/ Refused
     \/ /\ core = "halted"
        /\ fields' = Apply(fields, DcrsrWrites(op.writes, fields))
        /\ CacheWrites(doubted \ RegsWritten)
        /\ Return
        /\ UNCHANGED <<mem, mcache, cached, torn>>

WriteRegistersFails ==
  /\ op.kind = "writeRegs" /\ core = "halted"
  /\ LET ws == DcrsrWrites(op.writes, fields)
     IN \E performed \in SUBSET DOMAIN ws, halves \in SUBSET UNION {FieldsOf[r] : r \in DoubleRegs} :
          fields' = Apply(fields, Attempted(ws, performed, halves))
  /\ \/ Fail("register") /\ Discarded
     \/ Fail("transfer") /\ CacheWrites(doubted \cup RegsWritten)
  /\ UNCHANGED <<mem, mcache, cached, torn>>

(* invalidate()                                                            *)
Invalidate ==
  /\ op = Idle /\ (mcache # {} \/ rcache # NoReg)
  /\ Emptied
  /\ UNCHANGED <<uses, target, cached, op, faults>>

Next ==
  \/ Resume \/ Step \/ ResetCore \/ Execute \/ Halt \/ Sleep \/ Wake
  \/ BeginMemory \/ ReadMemory \/ ReadMemoryFails \/ WriteMemory \/ WriteMemoryFails
  \/ BeginRegisters \/ ReadRegisters \/ ReadRegistersFails
  \/ WriteRegisters \/ WriteRegistersFails
  \/ Invalidate

Spec == Init /\ [][Next]_vars

-----------------------------------------------------------------------------
(* Properties                                                              *)

Interval == [begin : Address, end : Nat, data : Seq(Byte)]

(* The state has its types; the tree's intervals are apart and hold their  *)
(* bytes.                                                                  *)
TypeOK ==
  /\ core \in {"halted", "running", "sleeping"} /\ token \in 0..MaxToken
  /\ mem \in [Address -> Byte] /\ fields \in [Field -> FieldValues]
  /\ mcache \subseteq Interval /\ WellFormed(mcache)
  /\ DOMAIN rcache \subseteq Reg
  /\ \A r \in DOMAIN rcache : rcache[r] \in [FieldsOf[r] -> FieldValues]
  /\ cached \in -1..MaxToken
  /\ op.kind \in {"none", "read", "write", "readRegs", "writeRegs"}
  /\ faults \in 0..MaxFaults
  /\ torn \subseteq Address /\ doubted \subseteq DOMAIN rcache

(* As long as a cache would be used as it is (the core does not run and    *)
(* the token is the cache's), what it holds of memory, and of the          *)
(* registers that are read, is what the target holds, whatever ran, halted,*)
(* was written or failed since; but for what the code is known to leave:   *)
(* the bytes that a failed block write has changed (memory.py:280), the    *)
(* registers of a write that ended in a TransferError (register.py:208),   *)
(* and those that a write overlooks, until they are read or written anew.  *)
Coherent ==
  core # "running" /\ cached = token =>
    /\ MirrorsBut(mcache, mem, torn)
    /\ Reflects(Restrict(rcache, (DOMAIN rcache \cap UNION ReadLists) \ doubted), fields)

(* "The cache is invalidated whenever the target has run since the last    *)
(* cache operation": what a read through the context returns while the     *)
(* core is halted is what a read of the target would return, but at torn   *)
(* addresses and of doubted registers it does not renew.                   *)
ReadsAreCurrent ==
  core = "halted" =>
    /\ op.kind = "read" /\ CheckRegions(op.begin, op.end) # "fault" =>
         /\ Len(BytesRead) = op.end - op.begin
         /\ \A a \in (op.begin..(op.end - 1)) \ torn : BytesRead[a - op.begin + 1] = mem[a]
    /\ op.kind = "readRegs" =>
         \A r \in op.regs \ StillDoubted : RegistersRead[r] = ValueOf(r, fields)
=============================================================================
