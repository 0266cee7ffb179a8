-------------------------- MODULE BreakpointService --------------------------
(***************************************************************************)
(* What the breakpoints of one core promise to a debugger, without saying  *)
(* who keeps them.  A client asks for a breakpoint and cancels it; the     *)
(* target is changed one address at a time and only towards what is asked  *)
(* for, except while everything is taken away for a reset or at the end;   *)
(* and the core is let go only when the armed addresses are exactly those  *)
(* the debugger is told are set.                                           *)
(***************************************************************************)
CONSTANTS Addr,       \* instruction addresses
          MayReset    \* the core may be reset without a catch

VARIABLES requested,  \* the addresses the debugger is told are set
          armed,      \* the addresses at which the target would stop
          running,    \* the core executes code
          suspended   \* a reset or a disconnect is removing everything

vars == <<requested, armed, running, suspended>>

Init == /\ requested = {}
        /\ armed = {}
        /\ running \in BOOLEAN
        /\ suspended = FALSE

(* The client's requests change no target state.                           *)
Ask(a)    == /\ requested' = requested \cup {a}
             /\ UNCHANGED <<armed, running, suspended>>
Cancel(a) == /\ requested' = requested \ {a}
             /\ UNCHANGED <<armed, running, suspended>>

(* The target is armed for what is asked and disarmed of what is not.      *)
Arm(a)    == /\ a \in requested /\ ~suspended
             /\ armed' = armed \cup {a}
             /\ UNCHANGED <<requested, running, suspended>>
Disarm(a) == /\ a \notin requested \/ suspended
             /\ armed' = armed \ {a}
             /\ UNCHANGED <<requested, running, suspended>>

(* The core is let go, after requests that found no resource are dropped.  *)
Go == /\ ~suspended
      /\ armed \subseteq requested
      /\ requested' = armed
      /\ running' \in BOOLEAN
      /\ UNCHANGED <<armed, suspended>>

Stop == running' = FALSE /\ UNCHANGED <<requested, armed, suspended>>

(* A reset without a catch lets the core go whatever is pending, and may   *)
(* disarm the target.                                                      *)
Reset == /\ MayReset
         /\ running' \in BOOLEAN
         /\ armed' \in SUBSET armed
         /\ UNCHANGED <<requested, suspended>>

(* Everything is taken away; when that ends nothing is armed.              *)
Suspend == /\ suspended' = TRUE
           /\ UNCHANGED <<requested, armed, running>>
Restore == /\ suspended /\ armed = {}
           /\ suspended' = FALSE
           /\ running' \in BOOLEAN
           /\ UNCHANGED <<requested, armed>>

Next == \/ \E a \in Addr: Ask(a) \/ Cancel(a) \/ Arm(a) \/ Disarm(a)
        \/ Go \/ Stop \/ Reset \/ Suspend \/ Restore

Spec == Init /\ [][Next]_vars
=============================================================================
