------------------------------- MODULE MCCaches -------------------------------
(* Instances of the caching context for TLC: a cacheable region and a      *)
(* device register after it; the registers of a core with the Security     *)
(* Extension in secure state.                                              *)
EXTENDS CachedContext

Cells == 0..4
Map == {[begin |-> 0, end |-> 4, cacheable |-> TRUE],
        [begin |-> 4, end |-> 5, cacheable |-> FALSE]}
Bits == {0, 1}
Zeros == [a \in Cells |-> 0]
AllSpans == {s \in Cells \X {1, 2, 4} : s[1] + s[2] <= 5}
Writable == {<<1>>, <<1, 0>>}

CoreFields == {"msp_s", "control_s", "primask_s", "apsr", "ipsr", "s0", "s1"}
Visible ==
  "sp" :> {"msp_s"} @@ "msp" :> {"msp_s"} @@ "msp_s" :> {"msp_s"}
    @@ "control" :> {"control_s"} @@ "primask" :> {"primask_s"}
    @@ "control_s" :> {"control_s"} @@ "primask_s" :> {"primask_s"}
    @@ "basepri" :> {} @@ "basepri_s" :> {} @@ "faultmask" :> {} @@ "faultmask_s" :> {}
    @@ "cfbp" :> {"control_s", "primask_s"} @@ "cfbp_s" :> {"control_s", "primask_s"}
    @@ "xpsr" :> {"apsr", "ipsr"} @@ "apsr" :> {"apsr"} @@ "ipsr" :> {"ipsr"}
    @@ "s0" :> {"s0"} @@ "d0" :> {"s0", "s1"}
Variants ==
  {[index |-> "cfbp", regs |-> <<"control", "faultmask", "basepri", "primask">>],
   [index |-> "cfbp_s", regs |-> <<"control_s", "faultmask_s", "basepri_s", "primask_s">>]}
PsrParts == {"apsr", "ipsr"}
StackPointers == {"sp", "msp", "msp_s"}
Doubles == {"d0"}

ShownReads  == {{"sp"}, {"msp_s"}, {"control", "xpsr"}, {"primask", "apsr"}, {"cfbp"}, {"s0"}, {"d0"}}
ShownWrites == {<<"sp">>, <<"msp_s">>, <<"xpsr", "apsr">>, <<"primask_s", "control_s">>, <<"s0">>, <<"d0">>}
NoFaults  == {}
AllFaults == {"read", "write", "partial", "register", "transfer"}
=============================================================================
