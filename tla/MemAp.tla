-------------------------------- MODULE MemAp --------------------------------
(***************************************************************************)
(* Memory accesses through MEM-APs.  A transfer needs three registers of   *)
(* the AP: CSW holds its size, TAR its address, and reading or writing DRW *)
(* performs it and moves TAR on within a page.  MEM_AP remembers the CSW   *)
(* it wrote and leaves the write out when nothing changes.  Its methods    *)
(* hold the probe's lock and do their accesses through the DebugPort.      *)
(***************************************************************************)
EXTENDS DebugPort

CONSTANTS MemAps,      \* the MEM-APs, by the bank of their registers
          Sizes,       \* values of CSW
          Word,        \* the one of them for words
          PageSize,    \* words after which TAR wraps
          Starts,      \* addresses of this instance, in words
          Counts,      \* words of a block
          Raw,         \* other register accesses of this instance
          MemoryModes  \* sessions in which memory is accessed

ASSUME MemApAssumption ==
  /\ MemAps \subseteq Bank
  /\ Word \in Sizes /\ Unknown \notin Sizes
  /\ PageSize \in Nat \ {0}
  /\ Starts \subseteq Nat /\ Counts \subseteq Nat \ {0}
  /\ MemoryModes \subseteq Modes
  /\ \A access \in Raw : access.reg \notin {"CSW", "TAR", "DRW"}

VARIABLES cachedCsw,  \* _cached_csw of each MEM-AP
          csw,        \* the target's CSW registers
          tar         \* the target's TAR registers

registers == <<csw, tar>>
memVars   == <<vars, cachedCsw, csw, tar>>

MemInit == /\ Init
           /\ cachedCsw = [ap \in MemAps |-> Unknown]
           /\ csw \in [MemAps -> Sizes]
           /\ tar = [ap \in MemAps |-> 0]

-----------------------------------------------------------------------------
(* The accesses of a transfer.  guarded: an error of it is caught by the   *)
(* MEM_AP, which then forgets the cached CSW.                              *)

ApWrite(ap, reg, guarded) ==
  [field |-> "ap", bank |-> ap, wait |-> "write", beyond |-> FALSE, reg |-> reg,
   size |-> Word, first |-> 0, count |-> 0, guarded |-> guarded]

Csw(ap, size, guarded) == [ApWrite(ap, "CSW", guarded) EXCEPT !.size = size]
Tar(ap, addr, guarded) == [ApWrite(ap, "TAR", guarded) EXCEPT !.first = addr]

Drw(ap, size, addr, count, wait) ==
  [ApWrite(ap, "DRW", TRUE) EXCEPT !.size = size, !.first = addr, !.count = count,
                                   !.wait = wait, !.beyond = TRUE]

Least(a, b)    == IF a < b THEN a ELSE b
Greatest(a, b) == IF a > b THEN a ELSE b

(* Mutant: a block is not split where TAR wraps.                           *)
Pages_One(addr, count) == <<[first |-> addr, count |-> count]>>

(* _write_memory_block32(), _read_memory_block32(): a block is split at    *)
(* the boundaries of the pages within which TAR counts on.                 *)
Pages(addr, count) ==
  LET page(i)  == (addr \div PageSize + i - 1) * PageSize
      first(i) == Greatest(addr, page(i))
      end(i)   == Least(addr + count, page(i) + PageSize)
  IN [i \in 1 .. (addr + count - 1) \div PageSize - addr \div PageSize + 1 |->
        [first |-> first(i), count |-> end(i) - first(i)]]

SizeWrite(ap, size, guarded, known) ==
  IF known = size THEN <<>> ELSE <<Csw(ap, size, guarded)>>

(* _write_memory(): the write of CSW is not in its try block.              *)
WriteProgram(ap, size, addr, known) ==
  SizeWrite(ap, size, FALSE, known)
    \o <<Tar(ap, addr, TRUE), Drw(ap, size, addr, 1, "write")>>

(* _read_memory()                                                          *)
ReadProgram(ap, size, addr, wait, known) ==
  SizeWrite(ap, size, TRUE, known)
    \o <<Tar(ap, addr, TRUE), Drw(ap, size, addr, 1, wait)>>

(* _write_block32_page(), _read_block32_page(): only the transfer itself   *)
(* is in the try block.                                                    *)
BlockProgram(ap, addr, count, wait, known) ==
  LET pages   == Pages(addr, count)
      page(i) == pages[(i + 1) \div 2]
  IN SizeWrite(ap, Word, FALSE, known)
       \o [i \in 1 .. 2 * Len(pages) |->
             IF i % 2 = 1 THEN Tar(ap, page(i).first, FALSE)
                          ELSE Drw(ap, Word, page(i).first, page(i).count, wait)]

Known == Sizes \cup {Unknown}

AllPrograms ==
  {<<access>> : access \in Raw}
  \cup {WriteProgram(ap, size, addr, known) :
          ap \in MemAps, size \in Sizes, addr \in Starts, known \in Known}
  \cup {ReadProgram(ap, size, addr, wait, known) :
          ap \in MemAps, size \in Sizes, addr \in Starts, wait \in {"now", "later"},
          known \in Known}
  \cup {BlockProgram(ap, addr, count, wait, known) :
          ap \in MemAps, addr \in Starts, count \in Counts, wait \in {"now", "write"},
          known \in Known}

AllAccesses == UNION {{p[i] : i \in DOMAIN p} : p \in AllPrograms}

ASSUME MemProgramsAssumption == AllPrograms \subseteq Programs

-----------------------------------------------------------------------------
(* MEM_AP.write_reg() notes the new CSW before it is written.              *)
Transfer(t, ap, size, accesses) ==
  /\ mode \in MemoryModes
  /\ Begin(t, accesses)
  /\ cachedCsw' = [cachedCsw EXCEPT ![ap] = size]
  /\ UNCHANGED registers

WriteMemory(t) ==
  \E ap \in MemAps, size \in Sizes, addr \in Starts :
    Transfer(t, ap, size, WriteProgram(ap, size, addr, cachedCsw[ap]))

ReadMemory(t) ==
  \E ap \in MemAps, size \in Sizes, addr \in Starts, wait \in {"now", "later"} :
    Transfer(t, ap, size, ReadProgram(ap, size, addr, wait, cachedCsw[ap]))

WriteBlock(t) ==
  \E ap \in MemAps, addr \in Starts, count \in Counts :
    Transfer(t, ap, Word, BlockProgram(ap, addr, count, "write", cachedCsw[ap]))

ReadBlock(t) ==
  \E ap \in MemAps, addr \in Starts, count \in Counts :
    Transfer(t, ap, Word, BlockProgram(ap, addr, count, "now", cachedCsw[ap]))

RegisterAccess(t) ==
  /\ \E access \in Raw : Begin(t, <<access>>)
  /\ UNCHANGED <<cachedCsw, registers>>

(* TAR counts on within its page.                                          *)
Wrap(addr, i) == ((addr \div PageSize) * PageSize) + ((addr + i) % PageSize)

Touched(addr, count) == {Wrap(addr, i) : i \in 0 .. count - 1}

(* The target performs an access on the AP that SELECT names.              *)
Perform(access) ==
  LET ap == select["ap"]
  IN /\ csw' = IF access.reg = "CSW" THEN [csw EXCEPT ![ap] = access.size] ELSE csw
     /\ tar' = CASE access.reg = "TAR" -> [tar EXCEPT ![ap] = access.first]
                 [] access.reg = "DRW" -> [tar EXCEPT ![ap] = Wrap(@, access.count)]
                 [] OTHER -> tar

MemDeliver ==
  /\ Deliver
  /\ IF Head(queue).kind = "access" THEN Perform(Head(queue).value)
                                     ELSE UNCHANGED registers
  /\ UNCHANGED cachedCsw

(* The MEM_AP whose method catches an error raised to thread t; write_reg()*)
(* itself catches an error of the probe that comes with a write of CSW.    *)
Forgets(t) ==
  LET access == IF pc[t] = "collecting" THEN Head(pending[t]) ELSE Head(program[t])
  IN IF pc[t] # "flushing" /\ (access.guarded \/ (access.reg = "CSW" /\ error = "probe"))
       THEN {access.bank} ELSE {}

MemRaise(t) ==
  /\ Raise(t)
  /\ cachedCsw' = [ap \in MemAps |-> IF ap \in Forgets(t) THEN Unknown ELSE cachedCsw[ap]]
  /\ UNCHANGED registers

(* Both notifications of a reset forget the cached CSW; the reset may set  *)
(* the registers back.                                                     *)
MemReset(t) == /\ Reset(t)
               /\ cachedCsw' = [ap \in MemAps |-> Unknown]
               /\ UNCHANGED registers

MemResetDone(t) == /\ ResetDone(t)
                   /\ cachedCsw' = IF error = "probe" THEN cachedCsw
                                                        ELSE [ap \in MemAps |-> Unknown]
                   /\ csw' \in {csw, [ap \in MemAps |-> Word]}
                   /\ UNCHANGED tar

(* The steps of the DebugPort that concern no MEM-AP.                      *)
Plain(t) == /\ \/ SelectBank(t) \/ SelectNothing(t) \/ SelectReturns(t) \/ Remember(t)
               \/ Issue(t) \/ Return(t) \/ Collect(t) \/ Collected(t)
               \/ Flush(t) \/ Flushed(t)
            /\ UNCHANGED <<cachedCsw, registers>>

MemFail ==
  /\ \E kind \in Kind :
       /\ Fail(kind)
       /\ \/ UNCHANGED registers
          \/ kind = "probe" /\ Head(queue).kind = "access" /\ Perform(Head(queue).value)
  /\ UNCHANGED cachedCsw

MemNext ==
  \/ MemDeliver \/ MemFail
  \/ \E t \in Thread : \/ WriteMemory(t) \/ ReadMemory(t) \/ WriteBlock(t) \/ ReadBlock(t)
                       \/ RegisterAccess(t)
                       \/ Plain(t) \/ MemRaise(t) \/ MemReset(t) \/ MemResetDone(t)

MemSpec == MemInit /\ [][MemNext]_memVars

MemFairSpec ==
  /\ MemSpec /\ WF_memVars(MemDeliver)
  /\ \A t \in Thread :
       WF_memVars(\/ Plain(t) /\ ~Flush(t)
                  \/ MemRaise(t) \/ MemResetDone(t))

-----------------------------------------------------------------------------
(* Properties                                                              *)

(* The registers of the MEM-APs and what is remembered of them have types. *)
MemTypes == /\ cachedCsw \in [MemAps -> Known]
            /\ csw \in [MemAps -> Sizes]
            /\ tar \in [MemAps -> Nat]

(* The sessions in which AsMeant holds: an error comes with the call whose *)
(* access failed, which is not a write of CSW or TAR.                      *)
Prompt == \A m \in MemoryModes : /\ m.deferred => m.kinds = {}
                                 /\ m.kinds \cap {"protocol", "probe"} = {}

(* When the target performs a transfer, it has the size and touches the    *)
(* addresses its caller meant.                                             *)
AsMeant ==
  error = "none" /\ queue # <<>> /\ Head(queue).kind = "access"
    /\ Head(queue).value.reg = "DRW" =>
      LET access == Head(queue).value
          ap     == select["ap"]
      IN /\ ap = access.bank /\ csw[ap] = access.size
         /\ Touched(tar[ap], access.count)
              = access.first .. access.first + access.count - 1
=============================================================================
