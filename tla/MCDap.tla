-------------------------------- MODULE MCDap --------------------------------
(* Instances of the debug port and its MEM-APs for TLC.                    *)
EXTENDS MemAp

CONSTANTS t1, t2

TwoThreads == {t1, t2}

(* The registers of a MEM-AP and those of another AP; two banks of the DP. *)
Banks   == {0, 1}
Cold    == [f \in Field |-> 0]
OneAp   == {0}

Other(field, bank, wait, beyond) ==
  [ApWrite(bank, "other", FALSE) EXCEPT !.field = field, !.wait = wait, !.beyond = beyond]

RawAccesses == {Other("ap", 1, "now", FALSE), Other("dp", 0, "now", FALSE),
                Other("dp", 1, "write", FALSE), Other("none", 0, "write", FALSE),
                Other("ap", 1, "later", TRUE)}

Healthy    == [deferred |-> TRUE,  kinds |-> {}, alone |-> FALSE]
Undeferred == [deferred |-> FALSE, kinds |-> {"fault", "timeout"}, alone |-> FALSE]
LateErrors == [deferred |-> TRUE,  kinds |-> {"fault", "protocol"}, alone |-> TRUE]
ProbeFails == [deferred |-> FALSE, kinds |-> {"probe"}, alone |-> FALSE]

AllModes  == {Healthy, Undeferred, LateErrors, ProbeFails}
SafeModes == {Healthy, Undeferred}

(* A packet of the probe is sent when it is full: bound of the queue.      *)
MaxQueue == 3

(* No CSW is remembered at first: its first value does not matter.         *)
DapInit == MemInit /\ csw = [ap \in MemAps |-> 8]
DapNext == MemNext /\ Len(queue') <= MaxQueue

DapSpec ==
  /\ DapInit /\ [][DapNext]_memVars /\ WF_memVars(MemDeliver)
  /\ \A t \in Thread :
       WF_memVars(\/ Plain(t) /\ ~Flush(t)
                  \/ MemRaise(t) \/ MemResetDone(t))
=============================================================================
