------------------------------ MODULE MCPipeline ------------------------------
(* Instances of the transfer pipeline for TLC.                             *)
EXTENDS DapPipeline, TLC

CONSTANTS t1, t2, readA, writeA

TwoThreads == {t1, t2}
OneRead    == {readA}
OneWrite   == {writeA}

(* One thread; a full block no longer fits as single transfers.            *)
Alone == [threads |-> {t1}, counts |-> {7, 10}, packetSize |-> 37,
          ops |-> {}, faultKinds |-> {"ack"}, maxFaults |-> 1]

(* One thread, which also does everything else there is to do.             *)
Other == [threads |-> {t1}, counts |-> {7}, packetSize |-> 37,
          ops |-> {"flush", "direct", "close", "undefer"},
          faultKinds |-> {"ack"}, maxFaults |-> 1]

(* Two threads; small packets, and a fault of any kind.                    *)
Shared == [threads |-> {t1, t2}, counts |-> {1}, packetSize |-> 12,
           ops |-> {"direct"},
           faultKinds |-> {"ack", "read", "write"}, maxFaults |-> 1]

Short == [threads |-> {t1}, counts |-> {1}, packetSize |-> 16,
          ops |-> {"flush"}, faultKinds |-> {"ack"}, maxFaults |-> 1]

AloneOrShared == {Alone, Other, Shared}
OnlyShort     == {Short}
=============================================================================
