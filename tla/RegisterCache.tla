---------------------------- MODULE RegisterCache ----------------------------
(***************************************************************************)
(* The registers of a Cortex-M core as its debug interface presents them,  *)
(* and what RegisterCache keeps of them.                                   *)
(*                                                                         *)
(* A register shows some fields of the core's state; several registers     *)
(* show the same ones (CONTROL is a byte of CFBP, APSR a part of XPSR, SP  *)
(* is MSP or PSP, MSP is MSP_S or MSP_NS).  A value is a function from the *)
(* fields of a register.  The cache is a function from some registers to   *)
(* values.                                                                 *)
(***************************************************************************)
EXTENDS Integers, Sequences, FiniteSets, Functions, SequencesExt

CONSTANTS Field,        \* fields of the core's state
          FieldsOf,     \* what each register shows (the security state fixed)
          CfbpVariants, \* CFBP_INDEX_LIST with CFBP_REGS_LIST: index and regs
          XpsrIndex,    \* XPSR_INDEX
          XpsrRegs,     \* XPSR_REGS
          SpRegs,       \* SP_REGS
          DoubleRegs    \* double-precision registers, each two single ones

Reg == DOMAIN FieldsOf

ASSUME RegisterAssumption ==
  /\ \A r \in Reg : FieldsOf[r] \subseteq Field
  /\ XpsrIndex \in Reg /\ XpsrRegs \subseteq Reg /\ SpRegs \subseteq Reg
  /\ DoubleRegs \subseteq Reg
  /\ \A v \in CfbpVariants : v.index \in Reg /\ Range(v.regs) \subseteq Reg /\ DOMAIN v.regs = 1..4

CfbpIndexes == {v.index : v \in CfbpVariants}

(* The value of a register within the values of more fields.               *)
ValueOf(r, fields) == [f \in FieldsOf[r] |-> fields[f]]

(* The register that one is written with: a byte of a CFBP with that, a    *)
(* part of XPSR with XPSR, any other by itself.                            *)
Through(r) ==
  IF \E v \in CfbpVariants : r \in Range(v.regs)
    THEN (CHOOSE v \in CfbpVariants : r \in Range(v.regs)).index
  ELSE IF r \in XpsrRegs THEN XpsrIndex ELSE r

(* Writes are a sequence of [reg, value].  After them a field has its      *)
(* value in the last one that has it.                                      *)
Apply(fields, writes) ==
  [f \in DOMAIN fields |->
     LET at == {i \in DOMAIN writes : f \in DOMAIN writes[i].value}
     IN IF at = {} THEN fields[f] ELSE writes[Max(at)].value[f]]

(* The writes at some places; the others write nothing.                    *)
NoValue == [f \in {} |-> f]
Only(writes, places) ==
  [i \in DOMAIN writes |-> IF i \in places THEN writes[i]
                           ELSE [reg |-> writes[i].reg, value |-> NoValue]]

(* What writes that failed may have done: some of them, of a double one    *)
(* half perhaps.                                                           *)
Attempted(writes, places, halves) ==
  [i \in DOMAIN writes |->
     [reg   |-> writes[i].reg,
      value |-> IF i \notin places THEN NoValue
                ELSE IF writes[i].reg \in DoubleRegs
                       THEN Restrict(writes[i].value, DOMAIN writes[i].value \cap halves)
                ELSE writes[i].value]]

(* _base_write_core_registers_raw: whole registers are written in order,   *)
(* then XPSR, and then each CFBP, in the order of the first byte of each,  *)
(* with the value it had before and the parts in the list replaced.        *)
Parts(writes, sel) ==
  {i \in DOMAIN writes : writes[i].reg # sel /\ Through(writes[i].reg) = sel}

Merged(writes, sel, fields) ==
  [reg |-> sel, value |-> Apply(ValueOf(sel, fields), Only(writes, Parts(writes, sel)))]

DcrsrWrites(writes, fields) ==
  LET sel(i) == Through(writes[i].reg)
      whole  == {i \in DOMAIN writes : sel(i) = writes[i].reg}
      xpsr   == IF Parts(writes, XpsrIndex) = {} THEN <<>>
                                               ELSE <<Merged(writes, XpsrIndex, fields)>>
      first  == {i \in DOMAIN writes \ whole : \A j \in Parts(writes, sel(i)) : i <= j}
      cfbps  == [i \in DOMAIN writes |->
                   IF i \in first /\ sel(i) # XpsrIndex THEN Merged(writes, sel(i), fields)
                   ELSE [reg |-> writes[i].reg, value |-> NoValue]]
  IN Only(writes, whole) \o xpsr \o cfbps

-----------------------------------------------------------------------------
(* read_core_registers_raw, for the registers regs (a set: the order of    *)
(* the list only orders the results).                                      *)

ToRead(cache, regs) ==
  LET missing == regs \ DOMAIN cache
      cfbp == {v.index : v \in {w \in CfbpVariants :
                 missing \cap (Range(w.regs) \cup {w.index}) # {}}}
      xpsr == IF missing \cap (XpsrRegs \cup {XpsrIndex}) # {}
                THEN {XpsrIndex} ELSE {}
  IN missing \cup cfbp \cup xpsr

(* The registers whose entries are taken from what was read.               *)
Refreshed(cache, regs) ==
  LET read == ToRead(cache, regs)
  IN read \cup (UNION {Range(v.regs) : v \in {w \in CfbpVariants : w.index \in read}})
          \cup (IF XpsrIndex \in read THEN XpsrRegs ELSE {})

AfterRead(cache, regs, fields) ==
  [r \in DOMAIN cache \cup Refreshed(cache, regs) |->
     IF r \in Refreshed(cache, regs) THEN ValueOf(r, fields) ELSE cache[r]]

-----------------------------------------------------------------------------
(* write_core_registers_raw: the written values are cached, then all that  *)
(* may show the same state are dropped.                                    *)

(* A write to a CFBP drops all of them and their bytes; one to a byte      *)
(* drops that byte in every variant.                                       *)
DroppedCfbp(regs) ==
  IF regs \cap CfbpIndexes # {}
    THEN UNION {Range(v.regs) \cup {v.index} : v \in CfbpVariants}
    ELSE UNION {{v.regs[pos] : v \in CfbpVariants} :
                  pos \in {p \in 1..4 : \E v \in CfbpVariants : v.regs[p] \in regs}}

(* Mutant: the registers written are not dropped in their other forms.     *)
Dropped_OnlyCfbp(regs) == DroppedCfbp(regs)

Dropped(regs) ==
  DroppedCfbp(regs)
    \cup (IF regs \cap (XpsrRegs \cup {XpsrIndex}) # {}
            THEN XpsrRegs \cup {XpsrIndex} ELSE {})
    \cup (IF regs \cap SpRegs # {} THEN SpRegs ELSE {})

AfterWrite(cache, writes) ==
  LET regs == {writes[i].reg : i \in DOMAIN writes}
      last(r) == writes[Max({i \in DOMAIN writes : writes[i].reg = r})].value
  IN [r \in (DOMAIN cache \cup regs) \ Dropped(regs) |->
        IF r \in regs THEN last(r) ELSE cache[r]]

(* The registers that the cache keeps though a write may change what they  *)
(* show: CFBP when one of its bytes is written (the class's comment says   *)
(* that all five are invalidated), a double-precision register and the     *)
(* single ones it is made of.                                              *)
Overlooked(regs) ==
  {v.index : v \in {w \in CfbpVariants : \E u \in CfbpVariants : Range(u.regs) \cap regs # {}}}
    \cup {r \in Reg : \E w \in regs \ {r} : /\ {r, w} \cap DoubleRegs # {}
                                           /\ FieldsOf[r] \cap FieldsOf[w] # {}}

(* Every cached register has the value the core shows.                     *)
Reflects(cache, fields) == \A r \in DOMAIN cache : cache[r] = ValueOf(r, fields)
=============================================================================
