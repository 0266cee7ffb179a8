------------------------------ MODULE RttChannel ------------------------------
(***************************************************************************)
(* A channel of RTT: a ring buffer in the target's memory.  The target     *)
(* moves one offset and the host the other, each with plain reads and      *)
(* writes of memory while the other goes on.  In an `up' channel the host  *)
(* reads (GenericRTTUpChannel), in a `down' channel it writes              *)
(* (GenericRTTDownChannel); a behaviour has one of them.                   *)
(*                                                                         *)
(* The bytes sent are numbered.  The target keeps to the protocol.         *)
(***************************************************************************)
EXTENDS Integers, Sequences

CONSTANTS RingSizes, \* sizes of the buffer
          RttTotal   \* bound: bytes sent

ASSUME RttAssumption == RingSizes \subseteq Nat \ {0, 1} /\ RttTotal \in Nat

VARIABLES side,     \* "up" or "down"
          size,     \* SizeOfBuffer; 0 until the target has prepared it
          ring,     \* pBuffer
          wrOff, rdOff,
          sent,     \* bytes sent and accepted so far
          got,      \* the bytes received
          rttPc,    \* where the host is in read() or write()
          blocking,
          offs,     \* its copies of the offsets
          data,     \* what it has read
          left, put \* bytes to write, bytes written but not yet announced

rttHost   == <<rttPc, blocking, offs, data, left, put>>
rttMemory == <<size, ring, wrOff, rdOff>>
rttVars   == <<side, rttMemory, sent, got, rttHost>>

Lesser(a, b) == IF a < b THEN a ELSE b
Cells(first, n) == [i \in 1..n |-> ring[first + i - 1]]

RttInit ==
  /\ side \in {"up", "down"}
  /\ size = 0 /\ ring = <<>> /\ wrOff = 0 /\ rdOff = 0
  /\ sent = 0 /\ got = <<>>
  /\ rttPc = "idle" /\ blocking = FALSE /\ offs = [wr |-> 0, rd |-> 0]
  /\ data = <<>> /\ left = 0 /\ put = 0

-----------------------------------------------------------------------------
(* The target, and what the host's _read_descriptor() finds.               *)

Prepare ==
  /\ size = 0 /\ size' \in RingSizes
  /\ ring' = [i \in 0..(size' - 1) |-> 0]
  /\ UNCHANGED <<side, wrOff, rdOff, sent, got, rttHost>>

TargetPuts ==
  /\ side = "up" /\ size # 0 /\ sent < RttTotal
  /\ (wrOff + 1) % size # rdOff
  /\ ring' = [ring EXCEPT ![wrOff] = sent + 1]
  /\ wrOff' = (wrOff + 1) % size /\ sent' = sent + 1
  /\ UNCHANGED <<side, size, rdOff, got, rttHost>>

TargetTakes ==
  /\ side = "down" /\ rdOff # wrOff
  /\ got' = Append(got, ring[rdOff])
  /\ rdOff' = (rdOff + 1) % size
  /\ UNCHANGED <<side, size, ring, wrOff, sent, rttHost>>

-----------------------------------------------------------------------------
(* read(): what lies between the offsets, in one part or two.              *)

ReadOffsets ==
  /\ side = "up" /\ rttPc = "idle" /\ size # 0 /\ wrOff # rdOff
  /\ offs' = [wr |-> wrOff, rd |-> rdOff]
  /\ rttPc' = "first"
  /\ UNCHANGED <<side, rttMemory, sent, got, blocking, data, left, put>>

ReadFirst ==
  /\ rttPc = "first"
  /\ LET end == IF offs.wr > offs.rd THEN offs.wr ELSE size
     IN data' = Cells(offs.rd, end - offs.rd)
  /\ rttPc' = IF offs.wr > offs.rd THEN "release" ELSE "second"
  /\ UNCHANGED <<side, rttMemory, sent, got, blocking, offs, left, put>>

ReadSecond ==
  /\ rttPc = "second"
  /\ data' = data \o Cells(0, offs.wr)
  /\ rttPc' = "release"
  /\ UNCHANGED <<side, rttMemory, sent, got, blocking, offs, left, put>>

(* Mutant: to where the target writes by now.                              *)
ReleaseRead_Current ==
  /\ rttPc = "release"
  /\ rdOff' = wrOff
  /\ got' = got \o data
  /\ rttPc' = "idle" /\ data' = <<>>
  /\ UNCHANGED <<side, size, ring, wrOff, sent, blocking, offs, left, put>>

ReleaseRead ==
  /\ rttPc = "release"
  /\ rdOff' = offs.wr
  /\ got' = got \o data
  /\ rttPc' = "idle" /\ data' = <<>>
  /\ UNCHANGED <<side, size, ring, wrOff, sent, blocking, offs, left, put>>

-----------------------------------------------------------------------------
(* write(): what fits at the top of the buffer and then at its bottom.     *)

CallWrite ==
  /\ side = "down" /\ rttPc = "idle"
  /\ IF size = 0 THEN UNCHANGED <<rttPc, blocking, left>>
     ELSE /\ left' \in 1..(RttTotal - sent) /\ blocking' \in BOOLEAN
          /\ rttPc' = "offsets"
  /\ UNCHANGED <<side, rttMemory, sent, got, offs, data, put>>

WriteOffsets ==
  /\ rttPc = "offsets"
  /\ offs' = [wr |-> wrOff, rd |-> rdOff]
  /\ rttPc' = IF wrOff >= rdOff THEN "top" ELSE "bottom"
  /\ UNCHANGED <<side, rttMemory, sent, got, blocking, data, left, put>>

(* n bytes at the write offset.                                            *)
Store(n) ==
  /\ ring' = [i \in DOMAIN ring |->
                IF i \in offs.wr..(offs.wr + n - 1) THEN sent + put + i - offs.wr + 1
                ELSE ring[i]]
  /\ put' = put + n /\ left' = left - n

(* Mutant: the last cell is left empty in any case.                        *)
Top_Never == size - offs.wr - 1

Top    == size - offs.wr - (IF offs.rd = 0 THEN 1 ELSE 0)
Bottom == IF offs.rd - offs.wr - 1 < 0 THEN 0 ELSE offs.rd - offs.wr - 1

WriteTop ==
  /\ rttPc = "top"
  /\ LET n == Lesser(left, Top)
     IN Store(n) /\ offs' = [offs EXCEPT !.wr = (@ + n) % size]
  /\ rttPc' = "bottom"
  /\ UNCHANGED <<side, size, wrOff, rdOff, sent, got, blocking, data>>

WriteBottom ==
  /\ rttPc = "bottom"
  /\ LET n == Lesser(left, Bottom)
     IN Store(n) /\ offs' = [offs EXCEPT !.wr = @ + n]
  /\ rttPc' = "announce"
  /\ UNCHANGED <<side, size, wrOff, rdOff, sent, got, blocking, data>>

(* The new offset is stored.  A write that blocks begins again with what   *)
(* is left; another one returns, and its caller learns what was accepted.  *)
Announce ==
  /\ rttPc = "announce"
  /\ wrOff' = offs.wr /\ sent' = sent + put /\ put' = 0
  /\ IF blocking /\ left > 0
       THEN rttPc' = "offsets" /\ UNCHANGED left
       ELSE rttPc' = "idle" /\ left' = 0
  /\ UNCHANGED <<side, size, ring, rdOff, got, blocking, offs, data>>

RttStep ==
  \/ ReadOffsets \/ ReadFirst \/ ReadSecond \/ ReleaseRead
  \/ WriteOffsets \/ WriteTop \/ WriteBottom \/ Announce
RttNext == Prepare \/ TargetPuts \/ TargetTakes \/ CallWrite \/ RttStep

(* The worker thread reads again and again and finishes what it writes,    *)
(* and the target's program takes what it is sent: it is not halted.       *)
RttFairness == WF_rttVars(RttStep) /\ WF_rttVars(TargetTakes)

RttSpec == RttInit /\ [][RttNext]_rttVars /\ RttFairness

-----------------------------------------------------------------------------
(* Properties                                                              *)

RttTypeOK ==
  /\ size \in RingSizes \cup {0} /\ DOMAIN ring = 0..(size - 1)
  /\ \A off \in {wrOff, rdOff, offs.wr, offs.rd} : off = 0 \/ off \in 0..(size - 1)
  /\ rttPc \in {"idle", "first", "second", "release", "offsets", "top", "bottom", "announce"}
  /\ sent \in 0..RttTotal /\ left \in 0..RttTotal /\ put \in 0..RttTotal
  /\ blocking \in BOOLEAN

(* What lies between the offsets, however they wrap, is a queue of one     *)
(* byte less than the ring has: none is lost, repeated, or overwritten     *)
(* before it was read, whatever the two sides do at the same time.         *)
Queued ==
  IF size = 0 THEN <<>>
  ELSE [i \in 1..((wrOff - rdOff + size) % size) |-> ring[(rdOff + i - 1) % size]]

Channel == INSTANCE ByteQueue
  WITH Most <- RttTotal, capacity <- (IF size = 0 THEN 0 ELSE size - 1),
       queue <- Queued, taken <- got
RttIsQueue == Channel!Spec

(* write() returns, also one that blocks and has more data than the ring   *)
(* can hold, as long as the target runs ("until all data is sent").        *)
WriteReturns == rttPc # "idle" ~> rttPc = "idle"
=============================================================================
