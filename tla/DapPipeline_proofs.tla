-------------------------- MODULE DapPipeline_proofs --------------------------
(***************************************************************************)
(* Proofs about the transfer pipeline, for any number of threads, any      *)
(* packet size and any mix of accesses of any length. A packet, its reply  *)
(* and its count fit where they are put, and the target performs the       *)
(* accesses in the order of issue and each at most once, whatever fails;   *)
(* without a fault a flush leaves none of them out; until a USB fault the  *)
(* words that the waiting reads lack are, in order, those on their way to  *)
(* them; and so the pipeline implements the service of the transfers.      *)
(***************************************************************************)
EXTENDS DapPipeline, TLAPS, SequenceTheorems, FiniteSetTheorems, WellFoundedInduction

-----------------------------------------------------------------------------
(* The invariant: types, of what the two properties are about.             *)

Kinds  == Requests \cup {"flush", "direct", "close", "open", "undefer"}
Calls  == [kind : Kinds, count : Nat]
Places == Nat \X Nat
Packet == [size : Nat, rc : Nat, wc : Nat, block : BOOLEAN,
           req : Requests \cup {NoReq}, data : Seq(Places)]

Typed ==
  /\ session \in Sessions
  /\ calls \in Seq(Calls)
  /\ crntCmd \in Packet /\ toRead \in Seq(Packet)
  /\ executed \in Seq(Places)
  /\ lock \in Threads \cup {NoReq}
  /\ pc \in [Threads -> Labels]
  /\ job \in [Threads -> [id : Nat, left : Nat, after : Labels]]

(* A thread is inside a locked method exactly when it holds the lock.      *)
LockFits == \A t \in Threads : pc[t] \in Locked <=> lock = t

(* Where a thread goes after its flush.                                    *)
Flushing   == {"fill", "send", "flush", "drain", "check", "assert", "enter", "read"}
Afterwards == {"idle", "check", "exchange", "close", "undefer"}
AfterFits  ==
  \A t \in Threads : /\ pc[t] \in Flushing => job[t].after \in Afterwards
                     /\ pc[t] \in {"fill", "send"} => job[t].after \in {"idle", "check"}

(* Whoever fills packets works on the access issued last.                  *)
Filling(t) == pc[t] \in {"fill", "send"}
LastFits ==
  \A t \in Threads : Filling(t) =>
    /\ job[t].id = Len(calls) /\ Len(calls) > 0
    /\ calls[Len(calls)].kind \in Requests
    /\ job[t].left <= calls[Len(calls)].count

ControlInv == Typed /\ LockFits /\ AfterFits /\ LastFits

(* A packet counts its words; a block has either reads or writes; and it   *)
(* fits.                                                                   *)
Counts(cmd) ==
  /\ cmd.rc + cmd.wc = Len(cmd.data)
  /\ cmd.block /\ cmd.req \in Reads => cmd.wc = 0
  /\ cmd.block /\ cmd.req \in Writes => cmd.rc = 0
  /\ cmd.req = NoReq => cmd.data = <<>>
PacketInv ==
  /\ Counts(crntCmd) /\ PacketFits(crntCmd)
  /\ \A i \in DOMAIN toRead : PacketFits(toRead[i])

(* What has been performed comes before what is in the current packet, and *)
(* that before what the thread in _write() has still to add.               *)
Before(v, w) == v[1] < w[1] \/ (v[1] = w[1] /\ v[2] < w[2])
Sorted(s)    == \A i, j \in DOMAIN s : i < j => Before(s[i], s[j])
Issued(w) ==
  /\ w[1] <= Len(calls)
  /\ \A t \in Threads : Filling(t) /\ w[1] = Len(calls) =>
       w[2] <= calls[Len(calls)].count - job[t].left
OrderInv ==
  /\ Sorted(executed) /\ Sorted(crntCmd.data)
  /\ \A i \in DOMAIN executed : Issued(executed[i])
  /\ \A j \in DOMAIN crntCmd.data : Issued(crntCmd.data[j])
  /\ \A i \in DOMAIN executed, j \in DOMAIN crntCmd.data :
       Before(executed[i], crntCmd.data[j])

PipelineInv == ControlInv /\ PacketInv /\ OrderInv

-----------------------------------------------------------------------------
(* Words of a packet                                                       *)

(* A quotient takes no more than there is.                                 *)
LEMMA Quotients ==
  ASSUME NEW x \in Int
  PROVE  /\ x \div 4 \in Int /\ 4 * (x \div 4) <= x
         /\ x \div 5 \in Int /\ 5 * (x \div 5) <= x
  BY SMT

(* The room that _get_free_transfers finds is there.                       *)
LEMMA FreeIsFree ==
  ASSUME NEW cmd \in Packet, NEW block \in BOOLEAN, NEW isRead \in BOOLEAN,
         NEW free, free = FreeTransfers(cmd, block, isRead)
  PROVE  /\ free \in Int
         /\ block /\ isRead => 4 + 4 * (cmd.rc + free) <= cmd.size
         /\ block /\ ~isRead => 5 + 4 * (cmd.wc + free) <= cmd.size
         /\ ~block /\ isRead => /\ 3 + cmd.rc + free + 5 * cmd.wc <= cmd.size
                                /\ 3 + 4 * (cmd.rc + free) <= cmd.size
         /\ ~block /\ ~isRead => 3 + cmd.rc + 5 * (cmd.wc + free) <= cmd.size
<1>1. cmd.size \in Nat /\ cmd.rc \in Nat /\ cmd.wc \in Nat
  BY DEF Packet
<1> DEFINE readBlock  == cmd.size - 4 - 4 * cmd.rc
           writeBlock == cmd.size - 5 - 4 * cmd.wc
           recv       == cmd.size - 3 - 4 * cmd.rc
           send       == cmd.size - 3 - cmd.rc - 5 * cmd.wc
<1>2. readBlock \in Int /\ writeBlock \in Int /\ recv \in Int /\ send \in Int
  BY <1>1
<1>3. /\ readBlock \div 4 \in Int /\ 4 * (readBlock \div 4) <= readBlock
      /\ writeBlock \div 4 \in Int /\ 4 * (writeBlock \div 4) <= writeBlock
      /\ recv \div 4 \in Int /\ 4 * (recv \div 4) <= recv
      /\ send \div 5 \in Int /\ 5 * (send \div 5) <= send
  <2> HIDE DEF readBlock, writeBlock, recv, send
  <2> QED BY <1>2, Quotients
<1>4. free = IF block THEN IF isRead THEN readBlock \div 4 ELSE writeBlock \div 4
                      ELSE IF isRead THEN Smaller(send, recv \div 4) ELSE send \div 5
  BY Zenon DEF FreeTransfers
<1>5. /\ free \in Int
      /\ block /\ isRead => 4 * free <= readBlock
      /\ block /\ ~isRead => 4 * free <= writeBlock
      /\ ~block /\ isRead => free <= send /\ 4 * free <= recv
      /\ ~block /\ ~isRead => 5 * free <= send
  <2> HIDE DEF readBlock, writeBlock, recv, send
  <2> QED BY <1>2, <1>3, <1>4 DEF Smaller
<1> QED BY <1>1, <1>5

(* What there is room for still fits when fewer are added.                 *)
LEMMA SumsFit ==
  ASSUME NEW size \in Nat, NEW rc \in Nat, NEW wc \in Nat, NEW free \in Int,
         NEW n \in Nat, n <= free, n # 0
  PROVE  /\ 3 + rc + free + 5 * wc <= size => 3 + (rc + n) + 5 * wc <= size
         /\ 3 + 4 * (rc + free) <= size => 3 + 4 * (rc + n) <= size
         /\ 3 + rc + 5 * (wc + free) <= size =>
              3 + rc + 5 * (wc + n) <= size /\ (rc = 0 => 3 + 4 * rc <= size)
  BY SMT

(* The words of two sequences one after the other.                         *)
LEMMA Joined ==
  ASSUME NEW S, NEW v \in Seq(S), NEW w \in Seq(S)
  PROVE  /\ v \o w \in Seq(S) /\ Len(v \o w) = Len(v) + Len(w)
         /\ \A i \in 1..(Len(v) + Len(w)) :
              (v \o w)[i] = IF i <= Len(v) THEN v[i] ELSE w[i - Len(v)]
  OBVIOUS

(* A request fits as often as there is space for it.                       *)
LEMMA SpaceFits ==
  ASSUME NEW cmd \in Packet, Counts(cmd), PacketFits(cmd), NEW req \in Requests,
         NEW id \in Nat, NEW first \in Nat, NEW count \in Nat,
         NEW space, space = RequestSpace(cmd, count, req),
         NEW new, new = AddTo(cmd, id, first, space, req)
  PROVE  /\ space \in Nat /\ space <= count
         /\ space # 0 => new \in Packet /\ Counts(new) /\ PacketFits(new)
<1> DEFINE block == BlockAllowed(cmd, req)
           isRead == req \in Reads
           free  == FreeTransfers(cmd, block, isRead)
<1>1. /\ cmd.size \in Nat /\ cmd.rc \in Nat /\ cmd.wc \in Nat /\ cmd.block \in BOOLEAN
      /\ cmd.data \in Seq(Places) /\ cmd.req \in Requests \cup {NoReq} /\ MaxCount \in Nat
  BY PipelineAssumption DEF Packet
<1>2. block \in BOOLEAN /\ isRead \in BOOLEAN
  BY <1>1 DEF BlockAllowed
<1>3. /\ free \in Int
      /\ block /\ isRead => 4 + 4 * (cmd.rc + free) <= cmd.size
      /\ block /\ ~isRead => 5 + 4 * (cmd.wc + free) <= cmd.size
      /\ ~block /\ isRead => /\ 3 + cmd.rc + free + 5 * cmd.wc <= cmd.size
                             /\ 3 + 4 * (cmd.rc + free) <= cmd.size
      /\ ~block /\ ~isRead => 3 + cmd.rc + 5 * (cmd.wc + free) <= cmd.size
  <2> HIDE DEF block, isRead, free
  <2> QED BY <1>2, FreeIsFree DEF free
<1>4. space = Larger(IF block THEN Smaller(count, free)
                     ELSE Smaller(Smaller(count, free), MaxCount - cmd.wc - cmd.rc), 0)
  BY Zenon DEF RequestSpace
<1>5. /\ space \in Nat /\ space <= count
      /\ space # 0 => space <= free /\ (block \/ space + cmd.wc + cmd.rc <= MaxCount)
  <2> DEFINE byte == MaxCount - cmd.wc - cmd.rc
  <2>1. byte \in Int /\ byte + cmd.wc + cmd.rc = MaxCount /\ free \in Int
    <3>1. byte \in Int /\ byte + cmd.wc + cmd.rc = MaxCount
      BY ONLY <1>1
    <3>2. free \in Int
      <4> HIDE DEF block, isRead, free
      <4> QED BY ONLY <1>3
    <3> QED BY <3>1, <3>2
  <2>2. CASE block
    <3> HIDE DEF block, isRead, free, byte
    <3>1. space = Larger(Smaller(count, free), 0)
      BY ONLY <1>4, <2>2
    <3> QED BY ONLY <2>1, <2>2, <3>1 DEF Larger, Smaller
  <2>3. CASE ~block
    <3>1. space = Larger(Smaller(Smaller(count, free), byte), 0)
      BY <1>4, <2>3
    <3> HIDE DEF block, isRead, free, byte
    <3>2. space \in Nat /\ space <= count /\ (space # 0 => space <= free /\ space <= byte)
      BY <2>1, <3>1 DEF Larger, Smaller
    <3> QED BY <1>1, <2>1, <3>2
  <2> QED BY <2>2, <2>3
<1>6. ASSUME space # 0
      PROVE  new \in Packet /\ Counts(new) /\ PacketFits(new)
  <2> DEFINE words == [i \in 1..space |-> <<id, first + i>>]
  <2>1. words \in Seq(Places) /\ Len(words) = space
    BY <1>5 DEF Places
  <2>2. new.data = cmd.data \o words
    BY DEF AddTo
  <2>3. /\ new.data \in Seq(Places)
        /\ Len(new.data) = Len(cmd.data) + space
    <3>1. cmd.data \in Seq(Places)
      BY <1>1
    <3> HIDE DEF words, block, isRead, free
    <3>2. cmd.data \o words \in Seq(Places) /\ Len(cmd.data \o words) = Len(cmd.data) + Len(words)
      BY <2>1, <3>1, Joined
    <3> QED BY <2>1, <2>2, <3>2
  <2>4. /\ new.size = cmd.size /\ new.block = block
        /\ new.rc = (IF isRead THEN cmd.rc + space ELSE cmd.rc)
        /\ new.wc = (IF isRead THEN cmd.wc ELSE cmd.wc + space)
        /\ new.req = (IF cmd.req = NoReq THEN req ELSE cmd.req)
    BY DEF AddTo
  <2>5. new \in Packet
    <3>1. new = [size |-> new.size, rc |-> new.rc, wc |-> new.wc, block |-> new.block,
                 req |-> new.req, data |-> new.data]
      BY DEF AddTo
    <3> HIDE DEF block, isRead
    <3>2. /\ new.size \in Nat /\ new.rc \in Nat /\ new.wc \in Nat /\ new.block \in BOOLEAN
          /\ new.req \in Requests \cup {NoReq}
      BY <1>1, <1>2, <1>5, <2>4
    <3> QED BY <2>3, <3>1, <3>2 DEF Packet
  <2>6. /\ cmd.rc + cmd.wc = Len(cmd.data)
        /\ block => cmd.block /\ (cmd.req = NoReq \/ cmd.req = req)
        /\ cmd.req = NoReq => cmd.rc = 0 /\ cmd.wc = 0
        /\ req # NoReq /\ ~(req \in Reads /\ req \in Writes) /\ (req \in Reads \/ req \in Writes)
    <3>1. cmd.rc + cmd.wc = Len(cmd.data) /\ (cmd.req = NoReq => cmd.data = <<>>)
      BY DEF Counts
    <3>2. block => cmd.block /\ (cmd.req = NoReq \/ cmd.req = req)
      BY DEF BlockAllowed
    <3>3. cmd.req = NoReq => Len(cmd.data) = 0
      BY <3>1
    <3>4. cmd.req = NoReq => cmd.rc = 0 /\ cmd.wc = 0
      <4> HIDE DEF block, isRead, free
      <4> QED BY <1>1, <3>1, <3>3
    <3>5. req # NoReq /\ ~(req \in Reads /\ req \in Writes) /\ (req \in Reads \/ req \in Writes)
      BY PipelineAssumption DEF Requests
    <3> QED BY <3>1, <3>2, <3>4, <3>5
  <2>7. block => (isRead => cmd.wc = 0) /\ (~isRead => cmd.rc = 0)
    BY <2>6 DEF Counts
  <2>8. Counts(new)
    <3>1. new.rc + new.wc = Len(new.data)
      <4> HIDE DEF block, isRead
      <4> QED BY <1>1, <1>2, <1>5, <2>3, <2>4, <2>6
    <3>2. new.block => (cmd.req = NoReq \/ cmd.req = req) /\ new.req = req
      <4> HIDE DEF isRead
      <4> QED BY <2>4, <2>6
    <3>3. new.block /\ new.req \in Reads => new.wc = 0
      BY <2>4, <2>7, <3>2
    <3>4. new.block /\ new.req \in Writes => new.rc = 0
      BY <2>4, <2>6, <2>7, <3>2
    <3>5. new.req # NoReq
      BY <2>4, <2>6
    <3> QED BY <3>1, <3>3, <3>4, <3>5 DEF Counts
  <2>9. IsEmpty(cmd) => cmd.rc = 0 /\ cmd.wc = 0
    BY <1>1, <2>6 DEF IsEmpty
  <2>10. ~IsEmpty(cmd) => 3 + 4 * cmd.rc <= cmd.size
    BY <1>1 DEF PacketFits, ReplySize
  <2>11. PacketFits(new)
    <3> HIDE DEF block, isRead, free
    <3>1. CASE block /\ isRead
      <4>1. /\ space \in Nat /\ space # 0 /\ free \in Int
            /\ new.size = cmd.size /\ new.block /\ new.rc = cmd.rc + space /\ new.wc = 0
            /\ 4 + 4 * (cmd.rc + free) <= cmd.size /\ space <= free
        BY <1>3, <1>5, <1>6, <2>4, <2>7, <3>1
      <4>2. 5 <= cmd.size /\ 4 + 4 * (cmd.rc + space) <= cmd.size
        BY ONLY <1>1, <4>1
      <4>3. EncodedSize(new) <= new.size /\ ReplySize(new) <= new.size
        BY <4>1, <4>2 DEF EncodedSize, ReplySize
      <4> QED BY <4>1, <4>3 DEF PacketFits
    <3>2. CASE block /\ ~isRead
      <4>1. /\ space \in Nat /\ space # 0 /\ free \in Int
            /\ new.size = cmd.size /\ new.block /\ new.rc = 0 /\ new.wc = cmd.wc + space
            /\ 5 + 4 * (cmd.wc + free) <= cmd.size /\ space <= free
        BY <1>3, <1>5, <1>6, <2>4, <2>7, <3>2
      <4>2. 4 <= cmd.size /\ 5 + 4 * (cmd.wc + space) <= cmd.size
        BY ONLY <1>1, <4>1
      <4>3. EncodedSize(new) <= new.size /\ ReplySize(new) <= new.size
        BY <4>1, <4>2 DEF EncodedSize, ReplySize
      <4> QED BY <4>1, <4>3 DEF PacketFits
    <3>3. CASE ~block /\ isRead
      <4>1. /\ space \in Nat /\ space # 0 /\ free \in Int
            /\ new.size = cmd.size /\ ~new.block /\ new.rc = cmd.rc + space /\ new.wc = cmd.wc
            /\ 3 + cmd.rc + free + 5 * cmd.wc <= cmd.size
            /\ 3 + 4 * (cmd.rc + free) <= cmd.size
            /\ space <= free /\ space + cmd.wc + cmd.rc <= MaxCount
        BY <1>3, <1>5, <1>6, <2>4, <3>3
      <4>2. /\ 3 + (cmd.rc + space) + 5 * cmd.wc <= cmd.size
            /\ 3 + 4 * (cmd.rc + space) <= cmd.size
        <5> HIDE DEF free
        <5> QED BY ONLY <1>1, <4>1, SumsFit
      <4>3. EncodedSize(new) <= new.size /\ ReplySize(new) <= new.size
        BY <4>1, <4>2 DEF EncodedSize, ReplySize
      <4>4. new.rc + new.wc <= MaxCount
        BY ONLY <1>1, <4>1
      <4> QED BY <4>3, <4>4 DEF PacketFits
    <3>4. CASE ~block /\ ~isRead
      <4>1. /\ space \in Nat /\ space # 0 /\ free \in Int
            /\ new.size = cmd.size /\ ~new.block /\ new.rc = cmd.rc /\ new.wc = cmd.wc + space
            /\ 3 + cmd.rc + 5 * (cmd.wc + free) <= cmd.size
            /\ space <= free /\ space + cmd.wc + cmd.rc <= MaxCount
        BY <1>3, <1>5, <1>6, <2>4, <3>4
      <4>2. 3 + 4 * cmd.rc <= cmd.size
        BY <1>1, <2>9, <2>10, <4>1, SumsFit
      <4>3. 3 + cmd.rc + 5 * (cmd.wc + space) <= cmd.size
        <5> HIDE DEF free
        <5> QED BY ONLY <1>1, <4>1, SumsFit
      <4>4. EncodedSize(new) <= new.size /\ ReplySize(new) <= new.size
        BY <4>1, <4>2, <4>3 DEF EncodedSize, ReplySize
      <4>5. new.rc + new.wc <= MaxCount
        BY ONLY <1>1, <4>1
      <4> QED BY <4>4, <4>5 DEF PacketFits
    <3> QED BY <1>2, <3>1, <3>2, <3>3, <3>4
  <2> QED BY <2>5, <2>8, <2>11
<1> QED BY <1>5, <1>6

(* A new command is an empty packet.                                       *)
LEMMA NewFits ==
  ASSUME NEW size \in Nat, NEW cmd, cmd = NewCommand(size)
  PROVE  /\ cmd \in Packet /\ Counts(cmd) /\ PacketFits(cmd)
         /\ cmd.data = <<>>
<1>1. cmd.data = <<>> /\ cmd.rc = 0 /\ cmd.wc = 0
  BY DEF NewCommand
<1>2. cmd \in Packet
  BY DEF NewCommand, Packet
<1> QED BY <1>1, <1>2 DEF Counts, PacketFits, IsEmpty

-----------------------------------------------------------------------------
(* What steps have in common                                               *)

(* A thread goes on inside the call it is in.                              *)
LEMMA ControlKept ==
  ASSUME ControlInv, NEW t \in Threads, NEW label \in Labels, Goto(t, label),
         UNCHANGED <<session, calls>>,
         crntCmd' \in Packet, toRead' \in Seq(Packet), executed' \in Seq(Places),
         lock' \in {lock, t, NoReq},
         job' \in [Threads -> [id : Nat, left : Nat, after : Labels]],
         \A u \in Threads : u # t => job'[u] = job[u],
         lock' # lock => lock = t \/ lock = NoReq,
         label \in Locked <=> lock' = t,
         label \in Flushing => job'[t].after \in Afterwards,
         label \in {"fill", "send"} => Filling(t) /\ job'[t] = job[t]
  PROVE  /\ ControlInv'
         /\ calls' = calls
         /\ \A u \in Threads : Filling(u)' => Filling(u) /\ job'[u] = job[u]
<1>1. /\ pc' \in [Threads -> Labels] /\ pc'[t] = label
      /\ \A u \in Threads : u # t => pc'[u] = pc[u]
  BY DEF ControlInv, Typed, Goto
<1>2. NoReq \notin Threads
  BY PipelineAssumption
<1>3. Typed'
  BY <1>1 DEF ControlInv, Typed
<1>4. LockFits'
  BY <1>1, <1>2 DEF ControlInv, LockFits
<1>5. AfterFits'
  BY <1>1 DEF ControlInv, AfterFits, Filling
<1>6. \A u \in Threads : Filling(u)' => Filling(u) /\ job'[u] = job[u]
  BY <1>1 DEF Filling
<1>7. LastFits'
  BY <1>6 DEF ControlInv, LastFits
<1> QED BY <1>3, <1>4, <1>5, <1>6, <1>7 DEF ControlInv

(* The target performs the first words of the current packet, and the rest *)
(* of the packet is forgotten; or nothing happens to either.               *)
LEMMA OrderKept ==
  ASSUME Typed, OrderInv, calls' = calls,
         \A u \in Threads : Filling(u)' => Filling(u) /\ job'[u] = job[u],
         \/ crntCmd'.data = crntCmd.data /\ executed' = executed
         \/ crntCmd'.data = <<>> /\ executed' = executed
         \/ /\ crntCmd'.data = <<>>
            /\ \E n \in 0..Len(crntCmd.data) :
                 executed' = executed \o SubSeq(crntCmd.data, 1, n)
  PROVE  OrderInv'
<1>1. \A w \in Places : Issued(w) => Issued(w)'
  BY DEF Issued
<1>2. CASE crntCmd'.data = crntCmd.data /\ executed' = executed
  BY <1>1, <1>2 DEF OrderInv, Sorted, Typed, Packet
<1>3. CASE crntCmd'.data = <<>> /\ executed' = executed
  BY <1>1, <1>3 DEF OrderInv, Sorted, Typed
<1>4. ASSUME crntCmd'.data = <<>>, NEW n \in 0..Len(crntCmd.data),
             executed' = executed \o SubSeq(crntCmd.data, 1, n)
      PROVE  OrderInv'
  <2> DEFINE data == crntCmd.data
             old  == executed
             m    == Len(old)
  <2>1. /\ data \in Seq(Places) /\ old \in Seq(Places) /\ m \in Nat
        /\ Len(data) \in Nat
    BY DEF Typed, Packet
  <2>2. /\ executed' \in Seq(Places) /\ Len(executed') = m + n
        /\ \A i \in 1..(m + n) :
             executed'[i] = IF i <= m THEN old[i] ELSE data[i - m]
    <3> HIDE DEF data, old
    <3> QED BY <1>4, <2>1 DEF data, old
  <2>3. DOMAIN executed' = 1..(m + n) /\ DOMAIN old = 1..m /\ DOMAIN data = 1..Len(data)
    BY <2>1, <2>2
  <2>4. ASSUME NEW i \in 1..(m + n)
        PROVE  i \in 1..m \/ (~(i <= m) /\ i - m \in DOMAIN data)
    BY <2>1, <2>3, <2>4
  <2>5. Sorted(executed')
    <3> SUFFICES ASSUME NEW i \in 1..(m + n), NEW j \in 1..(m + n), i < j
                 PROVE  Before(executed'[i], executed'[j])
      BY <2>3 DEF Sorted
    <3>1. CASE j <= m
      <4>1. i \in DOMAIN old /\ j \in DOMAIN old /\ executed'[i] = old[i] /\ executed'[j] = old[j]
        BY <2>1, <2>2, <2>3, <3>1
      <4> QED BY <4>1 DEF OrderInv, Sorted
    <3>2. CASE i <= m /\ ~(j <= m)
      <4>1. /\ i \in DOMAIN old /\ j - m \in DOMAIN data
            /\ executed'[i] = old[i] /\ executed'[j] = data[j - m]
        BY <2>1, <2>2, <2>3, <2>4, <3>2
      <4> QED BY <4>1 DEF OrderInv
    <3>3. CASE ~(i <= m)
      <4>1. /\ i - m \in DOMAIN data /\ j - m \in DOMAIN data /\ i - m < j - m
            /\ executed'[i] = data[i - m] /\ executed'[j] = data[j - m]
        BY <2>1, <2>2, <2>3, <2>4, <3>3
      <4> QED BY <4>1 DEF OrderInv, Sorted
    <3> QED BY <2>1, <3>1, <3>2, <3>3
  <2>6. ASSUME NEW i \in 1..(m + n)
        PROVE  executed'[i] \in Places /\ Issued(executed'[i])
    <3>1. CASE i \in 1..m
      <4>1. i \in DOMAIN old /\ executed'[i] = old[i]
        BY <2>1, <2>2, <2>3, <3>1
      <4> QED BY <2>1, <4>1 DEF OrderInv
    <3>2. CASE ~(i <= m) /\ i - m \in DOMAIN data
      <4>1. executed'[i] = data[i - m]
        BY <2>2, <3>2
      <4> QED BY <2>1, <3>2, <4>1 DEF OrderInv
    <3> QED BY <2>4, <3>1, <3>2
  <2>7. (\A i \in DOMAIN executed : Issued(executed[i]))'
    <3>1. \A w \in Places : Issued(w) => /\ w[1] <= Len(calls')
                 /\ \A u \in Threads : Filling(u)' /\ w[1] = Len(calls') =>
                      w[2] <= calls'[Len(calls')].count - job'[u].left
      BY DEF Issued
    <3> QED BY <2>3, <2>6, <3>1 DEF Issued
  <2>8. (DOMAIN crntCmd.data)' = {}
    BY <1>4
  <2> QED BY <2>5, <2>7, <2>8 DEF OrderInv, Sorted
<1> QED BY <1>2, <1>3, <1>4

(* What a step may do that changes none of calls, packets and accesses.    *)
LEMMA Elsewhere ==
  ASSUME PipelineInv, NEW t \in Threads, NEW label \in Labels, Goto(t, label),
         UNCHANGED <<session, calls, crntCmd, toRead, executed>>,
         lock' \in {lock, t, NoReq},
         job' \in [Threads -> [id : Nat, left : Nat, after : Labels]],
         \A u \in Threads : u # t => job'[u] = job[u],
         lock' # lock => lock = t \/ lock = NoReq,
         label \in Locked <=> lock' = t,
         label \in Flushing => job'[t].after \in Afterwards,
         label \in {"fill", "send"} => Filling(t) /\ job'[t] = job[t]
  PROVE  PipelineInv'
<1>1. ControlInv /\ Typed /\ crntCmd' \in Packet /\ toRead' \in Seq(Packet)
      /\ executed' \in Seq(Places) /\ UNCHANGED <<session, calls>>
  BY DEF PipelineInv, ControlInv, Typed
<1>2. /\ ControlInv'
      /\ \A u \in Threads : Filling(u)' => Filling(u) /\ job'[u] = job[u]
  BY <1>1, ControlKept
<1>3. PacketInv'
  BY DEF PipelineInv, PacketInv
<1>4. OrderInv'
  BY <1>1, <1>2, OrderKept DEF PipelineInv
<1> QED BY <1>2, <1>3, <1>4 DEF PipelineInv

-----------------------------------------------------------------------------
(* Steps that leave calls, packets and accesses alone                      *)

(* A flush begins or ends, get_result() looks at the queue, an exchange or *)
(* a change of mode ends: the lock and the label of one thread change      *)
(* together.                                                               *)
LEMMA MovesKeepInv ==
  ASSUME PipelineInv, NEW t \in Threads, UNCHANGED session,
         \/ FillEnd(t) \/ SendNothing(t) \/ DrainEnd(t) \/ Check(t) \/ CheckCurrent(t)
         \/ GetFlush(t) \/ Exchange(t) \/ UndeferEnd(t)
         \/ \E id \in DOMAIN calls : Callback(t, id)
  PROVE  PipelineInv'
<1>1. /\ calls \in Seq(Calls)
      /\ pc[t] \in Locked <=> lock = t
      /\ pc[t] \in Flushing => job[t].after \in Afterwards
      /\ pc[t] \in {"fill", "send"} => job[t].after \in {"idle", "check"}
      /\ pc[t] \in Labels /\ NoReq # t
      /\ job \in [Threads -> [id : Nat, left : Nat, after : Labels]]
      /\ lock \in Threads \cup {NoReq}
  BY PipelineAssumption DEF PipelineInv, ControlInv, Typed, LockFits, AfterFits
<1> DEFINE Went(label) ==
      /\ Goto(t, label)
      /\ label \in Labels
      /\ lock' \in {lock, t, NoReq}
      /\ lock' # lock => lock = t \/ lock = NoReq
      /\ label \in Locked <=> lock' = t
      /\ label \in Flushing => job'[t].after \in Afterwards
      /\ label \in {"fill", "send"} => Filling(t) /\ job'[t] = job[t]
<1>2. ASSUME NEW label, Went(label),
             UNCHANGED <<session, calls, crntCmd, toRead, executed>>,
             job' \in [Threads -> [id : Nat, left : Nat, after : Labels]],
             \A u \in Threads : u # t => job'[u] = job[u]
      PROVE  PipelineInv'
  BY <1>2, Elsewhere
<1>3. ASSUME UNCHANGED <<history, buffers, probe>> \/ UNCHANGED <<calls, buffers, executed>>
      PROVE  UNCHANGED <<session, calls, crntCmd, toRead, executed>>
  BY <1>3 DEF history, buffers, probe
<1> HIDE DEF Went
<1>4. CASE FillEnd(t)
  <2>1. pc[t] = "fill" /\ lock = t /\ job' = job
    BY <1>1, <1>4 DEF FillEnd, Locked
  <2>2. CASE deferred
    <3>1. Went(job[t].after)
      BY <1>1, <1>4, <2>1, <2>2
         DEF FillEnd, Went, Labels, Locked, Flushing, Afterwards
    <3> QED BY <1>1, <1>2, <1>3, <1>4, <2>1, <3>1 DEF FillEnd
  <2>3. CASE ~deferred
    <3>1. Went("flush")
      BY <1>1, <1>4, <2>1, <2>3
         DEF FillEnd, Went, Labels, Locked, Flushing, Afterwards
    <3> QED BY <1>1, <1>2, <1>3, <1>4, <2>1, <3>1 DEF FillEnd
  <2> QED BY <2>2, <2>3
<1>5. CASE SendNothing(t)
  <2>1. /\ pc[t] \in {"send", "flush"} /\ lock = t /\ job' = job
        /\ Goto(t, AfterSend(t)) /\ lock' = lock
    BY <1>1, <1>5 DEF SendNothing, Locked
  <2>2. Went(AfterSend(t))
    BY <1>1, <2>1 DEF AfterSend, Filling, Went, Labels, Locked, Flushing, Afterwards
  <2> QED BY <1>1, <1>2, <1>3, <1>5, <2>1, <2>2 DEF SendNothing
<1>6. CASE DrainEnd(t)
  <2>1. pc[t] = "drain" /\ lock = t /\ job' = job /\ Goto(t, job[t].after)
    BY <1>1, <1>6 DEF DrainEnd, Locked
  <2>2. Went(job[t].after)
    BY <1>1, <1>6, <2>1 DEF DrainEnd, Went, Labels, Locked, Flushing, Afterwards
  <2> QED BY <1>1, <1>2, <1>3, <1>6, <2>1, <2>2 DEF DrainEnd
<1>7. CASE Check(t)
  <2>1. pc[t] = "check" /\ lock' = lock /\ lock # t /\ job' = job
    BY <1>1, <1>7 DEF Check, Locked
  <2>2. \E label \in {"idle", "read", "assert"} : Goto(t, label)
    BY <1>7 DEF Check
  <2>3. \E label : Went(label)
    BY <1>1, <2>1, <2>2 DEF Went, Labels, Locked, Flushing
  <2> QED BY <1>1, <1>2, <1>3, <1>7, <2>1, <2>3 DEF Check, probe
<1>8. CASE CheckCurrent(t)
  <2>1. pc[t] = "assert" /\ lock' = lock /\ lock # t /\ job' = job
    BY <1>1, <1>8 DEF CheckCurrent, Locked
  <2>2. \E label \in {"idle", "enter"} : Goto(t, label)
    BY <1>8 DEF CheckCurrent
  <2>3. \E label : Went(label)
    BY <1>1, <2>1, <2>2 DEF Went, Labels, Locked, Flushing
  <2> QED BY <1>1, <1>2, <1>3, <1>8, <2>1, <2>3 DEF CheckCurrent, probe
<1>9. CASE GetFlush(t)
  <2>1. Went("flush") /\ job' = job
    BY <1>1, <1>9 DEF GetFlush, Went, Labels, Locked, Flushing
  <2> QED BY <1>1, <1>2, <1>3, <1>9, <2>1 DEF GetFlush
<1>10. CASE Exchange(t)
  <2>1. Went("idle") /\ job' = job
    BY <1>1, <1>10 DEF Exchange, Went, Labels, Locked, Flushing
  <2> QED BY <1>1, <1>2, <1>3, <1>10, <2>1 DEF Exchange
<1>11. CASE UndeferEnd(t)
  <2>1. Went("idle") /\ job' = job /\ UNCHANGED <<calls, buffers, probe>>
    BY <1>1, <1>11 DEF UndeferEnd, Went, Labels, Locked, Flushing
  <2> QED BY <1>1, <1>2, <2>1 DEF buffers, probe
<1>12. ASSUME NEW id \in DOMAIN calls, Callback(t, id)
       PROVE  PipelineInv'
  <2>1. job' = [job EXCEPT ![t] = [id |-> id, left |-> 0, after |-> "check"]]
        /\ pc[t] = "idle" /\ lock' = lock /\ Goto(t, "check")
    BY <1>12 DEF Callback
  <2>2. id \in Nat /\ "check" \in Labels
    BY <1>1 DEF Labels
  <2>3. job' \in [Threads -> [id : Nat, left : Nat, after : Labels]]
        /\ (\A u \in Threads : u # t => job'[u] = job[u]) /\ job'[t].after = "check"
    BY <1>1, <2>1, <2>2
  <2>4. Went("check")
    BY <1>1, <2>1, <2>3 DEF Went, Labels, Locked, Flushing, Afterwards
  <2> QED BY <1>2, <1>3, <1>12, <2>3, <2>4 DEF Callback
<1> QED BY <1>4, <1>5, <1>6, <1>7, <1>8, <1>9, <1>10, <1>11, <1>12

-----------------------------------------------------------------------------
(* Steps that send packets, read replies and raise                         *)

(* Executing the current packet, up to some word.                          *)
LEMMA Executes ==
  ASSUME Typed, NEW n \in 0..Len(crntCmd.data), Execute(crntCmd, n)
  PROVE  /\ executed' = executed \o SubSeq(crntCmd.data, 1, n)
         /\ executed' \in Seq(Places)
<1>1. crntCmd.data \in Seq(Places) /\ executed \in Seq(Places)
  BY DEF Typed, Packet
<1>2. SubSeq(crntCmd.data, 1, n) \in Seq(Places)
  BY <1>1
<1>3. executed' = executed \o SubSeq(crntCmd.data, 1, n)
  BY DEF Execute
<1> QED BY <1>1, <1>2, <1>3, Joined

(* The size of a new command is that of the session's packets.             *)
LEMMA SessionSize ==
  ASSUME Typed
  PROVE  session.packetSize \in Nat
  BY PipelineAssumption DEF Typed

(* What happens to the packets, whatever the reply or the error.           *)
LEMMA PacketsStep ==
  ASSUME Typed, PacketInv,
         \/ ReadPacket
         \/ (ReadPacketBad \/ ReadPacketRaises) /\ calls' = calls
         \/ SendPacket
         \/ SendPacketRaises /\ calls' = calls
  PROVE  /\ calls' = calls
         /\ crntCmd' \in Packet /\ toRead' \in Seq(Packet) /\ executed' \in Seq(Places)
         /\ PacketInv'
         /\ \/ crntCmd'.data = crntCmd.data /\ executed' = executed
            \/ crntCmd'.data = <<>> /\ executed' = executed
            \/ /\ crntCmd'.data = <<>>
               /\ \E n \in 0..Len(crntCmd.data) :
                    executed' = executed \o SubSeq(crntCmd.data, 1, n)
<1>1. /\ crntCmd \in Packet /\ toRead \in Seq(Packet) /\ executed \in Seq(Places)
      /\ crntCmd.data \in Seq(Places)
  BY DEF Typed, Packet
<1>2. ASSUME ReadPacket
      PROVE  /\ calls' = calls /\ crntCmd' = crntCmd /\ executed' = executed
             /\ toRead' \in Seq(Packet)
             /\ PacketInv'
  <2>1. /\ calls' = calls /\ crntCmd' = crntCmd /\ executed' = executed
        /\ toRead # <<>> /\ toRead' = Tail(toRead)
    BY <1>2 DEF ReadPacket
  <2>2. /\ toRead' \in Seq(Packet)
        /\ \A i \in DOMAIN toRead' : i + 1 \in DOMAIN toRead /\ toRead'[i] = toRead[i + 1]
    BY <1>1, <2>1
  <2> QED BY <2>1, <2>2 DEF PacketInv
<1>3. ASSUME Abort
      PROVE  /\ crntCmd' \in Packet /\ crntCmd'.data = <<>> /\ toRead' \in Seq(Packet)
             /\ PacketInv'
  <2>1. crntCmd' = NewCommand(session.packetSize) /\ toRead' = <<>>
    BY <1>3 DEF Abort
  <2>2. crntCmd' \in Packet /\ Counts(crntCmd') /\ PacketFits(crntCmd') /\ crntCmd'.data = <<>>
    BY <2>1, NewFits, SessionSize
  <2>3. Counts(crntCmd)' /\ PacketFits(crntCmd)'
    BY <2>2 DEF Counts, PacketFits, IsEmpty
  <2>4. toRead' \in Seq(Packet) /\ (DOMAIN toRead)' = {}
    BY <2>1
  <2> QED BY <2>2, <2>3, <2>4 DEF PacketInv
<1>4. ASSUME ReadPacketBad \/ ReadPacketRaises
      PROVE  Abort /\ executed' = executed
  BY <1>4 DEF ReadPacketBad, ReadPacketRaises
<1>5. ASSUME SendPacket
      PROVE  /\ calls' = calls
             /\ crntCmd' \in Packet /\ crntCmd'.data = <<>> /\ toRead' \in Seq(Packet)
             /\ \E n \in 0..Len(crntCmd.data) : Execute(crntCmd, n)
             /\ PacketInv'
  <2>1. /\ calls' = calls /\ crntCmd' = NewCommand(session.packetSize)
        /\ toRead' = Append(toRead, crntCmd)
        /\ \E n \in 0..Len(crntCmd.data) : Execute(crntCmd, n)
    BY <1>5 DEF SendPacket, history
  <2>2. crntCmd' \in Packet /\ Counts(crntCmd') /\ PacketFits(crntCmd') /\ crntCmd'.data = <<>>
    BY <2>1, NewFits, SessionSize
  <2>3. Counts(crntCmd)' /\ PacketFits(crntCmd)'
    BY <2>2 DEF Counts, PacketFits, IsEmpty
  <2>4. /\ toRead' \in Seq(Packet)
        /\ \A i \in DOMAIN toRead' :
             \/ i \in DOMAIN toRead /\ toRead'[i] = toRead[i]
             \/ toRead'[i] = crntCmd
    BY <1>1, <2>1
  <2> QED BY <2>1, <2>2, <2>3, <2>4 DEF PacketInv
<1>6. ASSUME SendPacketRaises
      PROVE  Abort /\ (executed' = executed \/ Execute(crntCmd, Len(crntCmd.data)))
  BY <1>6 DEF SendPacketRaises, probe
<1>7. Len(crntCmd.data) \in 0..Len(crntCmd.data)
  BY <1>1
<1>8. CASE ReadPacket
  BY <1>1, <1>2, <1>8
<1>9. CASE (ReadPacketBad \/ ReadPacketRaises) /\ calls' = calls
  BY <1>1, <1>3, <1>4, <1>9
<1>10. CASE SendPacket
  BY <1>5, <1>10, Executes
<1>11. CASE SendPacketRaises /\ calls' = calls
  BY <1>1, <1>3, <1>6, <1>7, <1>11, Executes
<1> QED BY <1>8, <1>9, <1>10, <1>11

(* A packet is sent, a reply is read, or either raises.                    *)
LEMMA PacketsKeepInv ==
  ASSUME PipelineInv, NEW t \in Threads, UNCHANGED session,
         MakeRoom(t) \/ Send(t) \/ Drain(t) \/ GetRead(t)
  PROVE  PipelineInv'
<1>1. /\ Typed /\ ControlInv /\ PacketInv /\ OrderInv
      /\ pc[t] \in Locked <=> lock = t
      /\ pc[t] \in Flushing => job[t].after \in Afterwards
      /\ pc[t] \in {"fill", "send"} => job[t].after \in {"idle", "check"}
      /\ pc[t] \in Labels /\ NoReq # t
      /\ job \in [Threads -> [id : Nat, left : Nat, after : Labels]]
      /\ lock \in Threads \cup {NoReq} /\ pc \in [Threads -> Labels]
  BY PipelineAssumption DEF PipelineInv, ControlInv, Typed, LockFits, AfterFits
<1> DEFINE Handled ==
      \/ ReadPacket
      \/ (ReadPacketBad \/ ReadPacketRaises) /\ calls' = calls
      \/ SendPacket
      \/ SendPacketRaises /\ calls' = calls
<1>2. ASSUME NEW label \in Labels, Goto(t, label), Handled, job' = job,
             lock' \in {lock, t, NoReq},
             lock' # lock => lock = t \/ lock = NoReq,
             label \in Locked <=> lock' = t,
             label \in Flushing => job[t].after \in Afterwards,
             label \in {"fill", "send"} => Filling(t)
      PROVE  PipelineInv'
  <2>1. /\ calls' = calls
        /\ crntCmd' \in Packet /\ toRead' \in Seq(Packet) /\ executed' \in Seq(Places)
        /\ PacketInv'
        /\ \/ crntCmd'.data = crntCmd.data /\ executed' = executed
           \/ crntCmd'.data = <<>> /\ executed' = executed
           \/ /\ crntCmd'.data = <<>>
              /\ \E n \in 0..Len(crntCmd.data) :
                   executed' = executed \o SubSeq(crntCmd.data, 1, n)
    BY <1>1, <1>2, PacketsStep
  <2>2. /\ UNCHANGED <<session, calls>>
        /\ job' \in [Threads -> [id : Nat, left : Nat, after : Labels]]
        /\ \A u \in Threads : u # t => job'[u] = job[u]
        /\ label \in Flushing => job'[t].after \in Afterwards
        /\ label \in {"fill", "send"} => Filling(t) /\ job'[t] = job[t]
    BY <1>1, <1>2, <2>1
  <2> HIDE DEF Handled
  <2>3. /\ ControlInv'
        /\ \A u \in Threads : Filling(u)' => Filling(u) /\ job'[u] = job[u]
    BY <1>1, <1>2, <2>1, <2>2, ControlKept
  <2>4. OrderInv'
    BY <1>1, <2>1, <2>3, OrderKept
  <2> QED BY <2>1, <2>3, <2>4 DEF PipelineInv
<1>3. ASSUME Handled, Raise(t), lock = t \/ lock = NoReq
      PROVE  PipelineInv'
  <2>1. Goto(t, "idle") /\ lock' = NoReq /\ job' = job
    BY <1>3 DEF Raise
  <2>2. "idle" \in Labels /\ "idle" \notin Locked /\ "idle" \notin Flushing
    BY DEF Labels, Locked, Flushing
  <2> HIDE DEF Handled
  <2> QED BY <1>1, <1>2, <1>3, <2>1, <2>2
<1>4. ASSUME Raise(t)
      PROVE  calls' = calls
  BY <1>4 DEF Raise
<1>5. ASSUME Handled, UNCHANGED <<pc, lock, job>>
      PROVE  PipelineInv'
  <2>1. Goto(t, pc[t])
    BY <1>1, <1>5 DEF Goto
  <2> HIDE DEF Handled
  <2> QED BY <1>1, <1>2, <1>5, <2>1 DEF Filling
<1>6. CASE MakeRoom(t)
  <2>1. lock = t
    BY <1>1, <1>6 DEF MakeRoom, Sending, Locked
  <2>2. CASE ReadPacket /\ UNCHANGED <<pc, lock, job>>
    BY <1>5, <2>2
  <2>3. CASE (ReadPacketBad \/ ReadPacketRaises) /\ Raise(t)
    BY <1>3, <1>4, <2>1, <2>3
  <2> QED BY <1>6, <2>2, <2>3 DEF MakeRoom
<1>7. CASE Drain(t)
  <2>1. lock = t
    BY <1>1, <1>7 DEF Drain, Locked
  <2>2. CASE ReadPacket /\ UNCHANGED <<pc, lock, job>>
    BY <1>5, <2>2
  <2>3. CASE (ReadPacketBad \/ ReadPacketRaises) /\ Raise(t)
    BY <1>3, <1>4, <2>1, <2>3
  <2> QED BY <1>7, <2>2, <2>3 DEF Drain
<1>8. CASE Send(t)
  <2>1. pc[t] \in {"send", "flush"} /\ lock = t
    BY <1>1, <1>8 DEF Send, Sending, Locked
  <2>2. CASE SendPacket /\ Goto(t, AfterSend(t)) /\ UNCHANGED <<lock, job>>
    <3>1. /\ AfterSend(t) \in Labels /\ AfterSend(t) \in Locked
          /\ AfterSend(t) \in {"fill", "send"} => Filling(t)
      BY <2>1 DEF AfterSend, Labels, Locked, Filling
    <3>2. job[t].after \in Afterwards
      BY <1>1, <2>1 DEF Flushing
    <3> QED BY <1>2, <2>1, <2>2, <3>1, <3>2
  <2>3. CASE SendPacketRaises /\ Raise(t)
    BY <1>3, <1>4, <2>1, <2>3
  <2> QED BY <1>8, <2>2, <2>3 DEF Send
<1>9. CASE GetRead(t)
  <2>1. pc[t] = "read" /\ lock = NoReq
    BY <1>9 DEF GetRead
  <2>2. CASE ReadPacket /\ Goto(t, "check") /\ UNCHANGED <<lock, job>>
    <3>1. "check" \in Labels /\ "check" \notin Locked /\ job[t].after \in Afterwards
      BY <1>1, <2>1 DEF Labels, Locked, Flushing
    <3> QED BY <1>1, <1>2, <2>1, <2>2, <3>1
  <2>3. CASE (ReadPacketBad \/ ReadPacketRaises) /\ Raise(t)
    BY <1>3, <1>4, <2>1, <2>3
  <2>4. CASE /\ Goto(t, "idle")
             /\ UNCHANGED <<calls, buffers, probe, lock, job>>
    <3>1. /\ UNCHANGED <<session, calls, crntCmd, toRead, executed, lock>> /\ job' = job
          /\ "idle" \in Labels /\ "idle" \notin Locked /\ "idle" \notin Flushing
      BY <2>4 DEF buffers, probe, Labels, Locked, Flushing
    <3> QED BY <1>1, <2>1, <2>4, <3>1, Elsewhere
  <2> QED BY <1>9, <2>2, <2>3, <2>4 DEF GetRead
<1> QED BY <1>6, <1>7, <1>8, <1>9

-----------------------------------------------------------------------------
(* Steps that begin an operation                                           *)

(* A new operation is the last one, and no word is of it yet.              *)
LEMMA Issues ==
  ASSUME PipelineInv, NEW t \in Threads, lock = NoReq, UNCHANGED <<session, executed>>,
         NEW call \in Calls, calls' = Append(calls, call),
         \/ UNCHANGED <<crntCmd, toRead>>
         \/ crntCmd' = NewCommand(session.packetSize) /\ toRead' = <<>>,
         \/ UNCHANGED <<pc, lock, job>>
         \/ \E label \in {"fill", "flush"}, after \in Afterwards, left \in Nat :
              /\ Goto(t, label) /\ lock' = t
              /\ job' = [job EXCEPT ![t] =
                           [id |-> Len(calls) + 1, left |-> left, after |-> after]]
              /\ label = "fill" => /\ call.kind \in Requests /\ left = call.count
                                   /\ after \in {"idle", "check"}
  PROVE  PipelineInv'
<1>1. /\ Typed /\ NoReq \notin Threads /\ Len(calls) \in Nat
      /\ calls \in Seq(Calls) /\ pc \in [Threads -> Labels] /\ executed \in Seq(Places)
      /\ job \in [Threads -> [id : Nat, left : Nat, after : Labels]]
      /\ crntCmd \in Packet /\ crntCmd.data \in Seq(Places)
  <2>1. /\ Typed /\ calls \in Seq(Calls) /\ pc \in [Threads -> Labels]
        /\ job \in [Threads -> [id : Nat, left : Nat, after : Labels]]
        /\ crntCmd \in Packet /\ executed \in Seq(Places)
    BY DEF PipelineInv, ControlInv, Typed
  <2>2. crntCmd.data \in Seq(Places) /\ Len(calls) \in Nat
    BY <2>1 DEF Packet
  <2> QED BY <2>1, <2>2, PipelineAssumption
<1>2. \A u \in Threads : pc[u] \notin Locked
  BY <1>1 DEF PipelineInv, ControlInv, LockFits
<1>3. /\ calls' \in Seq(Calls) /\ Len(calls') = Len(calls) + 1
      /\ calls'[Len(calls')] = call
  BY <1>1
<1>4. /\ crntCmd' \in Packet /\ toRead' \in Seq(Packet) /\ PacketInv'
      /\ crntCmd'.data = crntCmd.data \/ crntCmd'.data = <<>>
  <2>1. CASE UNCHANGED <<crntCmd, toRead>>
    BY <2>1 DEF PipelineInv, ControlInv, Typed, PacketInv
  <2>2. CASE crntCmd' = NewCommand(session.packetSize) /\ toRead' = <<>>
    <3>1. crntCmd' \in Packet /\ Counts(crntCmd') /\ PacketFits(crntCmd') /\ crntCmd'.data = <<>>
      BY <1>1, <2>2, NewFits, SessionSize
    <3>2. Counts(crntCmd)' /\ PacketFits(crntCmd)'
      BY <3>1 DEF Counts, PacketFits, IsEmpty
    <3>3. toRead' \in Seq(Packet) /\ (DOMAIN toRead)' = {}
      BY <2>2
    <3> QED BY <3>1, <3>2, <3>3 DEF PacketInv
  <2> QED BY <2>1, <2>2
<1>5. ControlInv'
  <2>1. CASE UNCHANGED <<pc, lock, job>>
    <3>1. \A u \in Threads : ~Filling(u)'
      BY <1>2, <2>1 DEF Filling, Locked
    <3> QED BY <1>3, <1>4, <2>1, <3>1
            DEF PipelineInv, ControlInv, Typed, LockFits, AfterFits, LastFits
  <2>2. ASSUME NEW label \in {"fill", "flush"}, NEW after \in Afterwards, NEW left \in Nat,
               Goto(t, label), lock' = t,
               job' = [job EXCEPT ![t] =
                         [id |-> Len(calls) + 1, left |-> left, after |-> after]],
               label = "fill" => /\ call.kind \in Requests /\ left = call.count
                                 /\ after \in {"idle", "check"}
        PROVE  ControlInv'
    <3>1. /\ pc' \in [Threads -> Labels] /\ pc'[t] = label
          /\ \A u \in Threads : u # t => pc'[u] = pc[u] /\ pc'[u] \notin Locked
      BY <1>1, <1>2, <2>2 DEF Goto, Labels, Locked
    <3>2. /\ job' \in [Threads -> [id : Nat, left : Nat, after : Labels]]
          /\ job'[t].id = Len(calls) + 1 /\ job'[t].left = left /\ job'[t].after = after
          /\ \A u \in Threads : u # t => job'[u] = job[u]
      BY <1>1, <2>2 DEF Labels, Locked, Afterwards
    <3>3. Typed'
      BY <1>3, <1>4, <2>2, <3>1, <3>2 DEF PipelineInv, ControlInv, Typed
    <3>4. LockFits'
      BY <2>2, <3>1 DEF LockFits, Locked
    <3>5. AfterFits'
      BY <2>2, <3>1, <3>2 DEF PipelineInv, ControlInv, AfterFits
    <3>6. \A u \in Threads : Filling(u)' => u = t /\ label = "fill"
      BY <2>2, <3>1 DEF Filling, Locked
    <3>7. LastFits'
      BY <1>1, <1>3, <2>2, <3>2, <3>6 DEF LastFits, Calls
    <3> QED BY <3>3, <3>4, <3>5, <3>7 DEF ControlInv
  <2> QED BY <2>1, <2>2
<1>6. \A w \in Places : Issued(w) => Issued(w)'
  BY <1>1, <1>3 DEF Issued, Places
<1>7. OrderInv'
  <2>1. CASE crntCmd'.data = crntCmd.data
    BY <1>1, <1>6, <2>1 DEF PipelineInv, OrderInv, Sorted
  <2>2. CASE crntCmd'.data = <<>>
    BY <1>1, <1>6, <2>2 DEF PipelineInv, OrderInv, Sorted
  <2> QED BY <1>4, <2>1, <2>2
<1> QED BY <1>4, <1>5, <1>7 DEF PipelineInv

(* Every operation begins with the lock free, and takes it unless it is    *)
(* open().                                                                 *)
LEMMA BeginningsKeepInv ==
  ASSUME PipelineInv, NEW t \in Threads, UNCHANGED session,
         \/ \E req \in Writes, n \in session.counts : BeginWrite(t, req, n)
         \/ \E req \in Reads, n \in session.counts, now \in BOOLEAN :
              BeginRead(t, req, n, now)
         \/ Flush(t) \/ Direct(t) \/ Close(t) \/ Open(t) \/ Undefer(t)
  PROVE  PipelineInv'
<1>1. session.counts \subseteq Nat
  BY PipelineAssumption DEF PipelineInv, ControlInv, Typed
<1> DEFINE New(kind, count) == [kind |-> kind, count |-> count]
<1>2. ASSUME NEW kind \in Kinds, NEW count \in Nat
      PROVE  New(kind, count) \in Calls /\ New(kind, count).kind = kind
             /\ New(kind, count).count = count
  BY DEF Calls
<1>3. ASSUME NEW req \in Writes, NEW n \in session.counts, BeginWrite(t, req, n)
      PROVE  PipelineInv'
  <2>1. n \in Nat /\ req \in Kinds /\ req \in Requests
    BY <1>1 DEF Kinds, Requests
  <2>2. /\ lock = NoReq /\ executed' = executed /\ UNCHANGED <<crntCmd, toRead>>
        /\ calls' = Append(calls, New(req, n))
        /\ Goto(t, "fill") /\ lock' = t
        /\ job' = [job EXCEPT ![t] = [id |-> Len(calls) + 1, left |-> n, after |-> "idle"]]
    BY <1>3 DEF BeginWrite, Call, buffers, probe
  <2>3. "idle" \in Afterwards
    BY DEF Afterwards
  <2>4. New(req, n) \in Calls /\ New(req, n).kind = req /\ New(req, n).count = n
    BY <1>2, <2>1
  <2> HIDE DEF New
  <2> QED BY <2>1, <2>2, <2>3, <2>4, Issues
<1>4. ASSUME NEW req \in Reads, NEW n \in session.counts, NEW now \in BOOLEAN,
             BeginRead(t, req, n, now)
      PROVE  PipelineInv'
  <2> DEFINE after == IF now THEN "check" ELSE "idle"
  <2>1. n \in Nat /\ req \in Kinds /\ req \in Requests
    BY <1>1 DEF Kinds, Requests
  <2>2. /\ lock = NoReq /\ executed' = executed /\ UNCHANGED <<crntCmd, toRead>>
        /\ calls' = Append(calls, New(req, n))
        /\ Goto(t, "fill") /\ lock' = t
        /\ job' = [job EXCEPT ![t] = [id |-> Len(calls) + 1, left |-> n, after |-> after]]
    BY <1>4 DEF BeginRead, Call, probe
  <2>3. after \in Afterwards /\ after \in {"idle", "check"}
    BY DEF Afterwards
  <2>4. New(req, n) \in Calls /\ New(req, n).kind = req /\ New(req, n).count = n
    BY <1>2, <2>1
  <2> HIDE DEF New, after
  <2> QED BY <2>1, <2>2, <2>3, <2>4, Issues
<1>5. ASSUME NEW kind \in {"flush", "direct", "close", "undefer"}, NEW after \in Afterwards,
             Begin(t, kind, after)
      PROVE  PipelineInv'
  <2>1. kind \in Kinds /\ 0 \in Nat
    BY DEF Kinds
  <2>2. /\ lock = NoReq /\ executed' = executed /\ UNCHANGED <<crntCmd, toRead>>
        /\ calls' = Append(calls, New(kind, 0))
        /\ Goto(t, "flush") /\ lock' = t
        /\ job' = [job EXCEPT ![t] = [id |-> Len(calls) + 1, left |-> 0, after |-> after]]
    BY <1>5 DEF Begin, Call, buffers, probe
  <2>3. New(kind, 0) \in Calls
    BY <1>2, <2>1
  <2> HIDE DEF New
  <2> QED BY <2>1, <2>2, <2>3, Issues
<1>6. CASE Open(t)
  <2>1. "open" \in Kinds /\ 0 \in Nat
    BY DEF Kinds
  <2>2. /\ lock = NoReq /\ executed' = executed
        /\ crntCmd' = NewCommand(session.packetSize) /\ toRead' = <<>>
        /\ calls' = Append(calls, New("open", 0))
        /\ UNCHANGED <<pc, lock, job>>
    BY <1>6 DEF Open, Call, probe
  <2>3. New("open", 0) \in Calls
    BY <1>2, <2>1
  <2> HIDE DEF New
  <2> QED BY <2>2, <2>3, Issues
<1>7. CASE Flush(t) \/ Direct(t) \/ Close(t) \/ Undefer(t)
  <2>1. "idle" \in Afterwards /\ "exchange" \in Afterwards /\ "close" \in Afterwards
        /\ "undefer" \in Afterwards
    BY DEF Afterwards
  <2> QED BY <1>5, <1>7, <2>1 DEF Flush, Direct, Close, Undefer
<1> QED BY <1>3, <1>4, <1>6, <1>7

(* close() leaves a command without room.                                  *)
LEMMA ClosingKeepsInv ==
  ASSUME PipelineInv, NEW t \in Threads, UNCHANGED session, CloseEnd(t)
  PROVE  PipelineInv'
<1>1. /\ Typed /\ ControlInv /\ OrderInv /\ (pc[t] \in Locked <=> lock = t) /\ NoReq # t
      /\ job \in [Threads -> [id : Nat, left : Nat, after : Labels]]
      /\ toRead \in Seq(Packet) /\ executed \in Seq(Places)
  BY PipelineAssumption DEF PipelineInv, ControlInv, Typed, LockFits
<1>2. /\ pc[t] = "close" /\ Goto(t, "idle") /\ lock' = NoReq /\ job' = job
      /\ UNCHANGED <<session, calls, toRead, executed>>
      /\ crntCmd' = NewCommand(0)
  BY DEF CloseEnd
<1>3. crntCmd' \in Packet /\ Counts(crntCmd') /\ PacketFits(crntCmd') /\ crntCmd'.data = <<>>
  BY <1>2, NewFits
<1>4. lock = t /\ "idle" \in Labels /\ "idle" \notin Locked /\ "idle" \notin Flushing
  BY <1>1, <1>2 DEF Labels, Locked, Flushing
<1>5. /\ ControlInv'
      /\ \A u \in Threads : Filling(u)' => Filling(u) /\ job'[u] = job[u]
  BY <1>1, <1>2, <1>3, <1>4, ControlKept
<1>6. Counts(crntCmd)' /\ PacketFits(crntCmd)'
  BY <1>3 DEF Counts, PacketFits, IsEmpty
<1>7. PacketInv'
  BY <1>2, <1>6 DEF PipelineInv, PacketInv
<1>8. OrderInv'
  BY <1>1, <1>2, <1>3, <1>5, OrderKept
<1> QED BY <1>5, <1>7, <1>8 DEF PipelineInv

-----------------------------------------------------------------------------
(* The loop of _write()                                                    *)

(* The next words of the last access come after all others.                *)
LEMMA FillKeepsOrder ==
  ASSUME Typed, OrderInv, NEW t \in Threads, Filling(t), Len(calls) > 0,
         \A u \in Threads : Filling(u)' => u = t,
         UNCHANGED <<calls, executed>>,
         NEW first \in Nat, NEW space \in Nat,
         job[t].left \in Nat, first + job[t].left = calls[Len(calls)].count,
         calls[Len(calls)].count \in Nat,
         job'[t].left = job[t].left - space,
         crntCmd'.data = crntCmd.data \o [i \in 1..space |-> <<Len(calls), first + i>>]
  PROVE  OrderInv'
<1> DEFINE data  == crntCmd.data
           words == [i \in 1..space |-> <<Len(calls), first + i>>]
           m     == Len(data)
           new   == crntCmd'.data
<1>1. /\ data \in Seq(Places) /\ executed \in Seq(Places) /\ m \in Nat
      /\ calls \in Seq(Calls) /\ Len(calls) \in Nat
  BY DEF Typed, Packet
<1>2. /\ words \in Seq(Places) /\ Len(words) = space
      /\ \A i \in 1..space : words[i] = <<Len(calls), first + i>>
  <2> DEFINE last == Len(calls)
  <2>1. last \in Nat
    BY <1>1
  <2> HIDE DEF last
  <2>2. /\ [i \in 1..space |-> <<last, first + i>>] \in Seq(Places)
        /\ Len([i \in 1..space |-> <<last, first + i>>]) = space
    BY <2>1 DEF Places
  <2> QED BY <2>2 DEF last
<1>3. /\ new \in Seq(Places) /\ Len(new) = m + space
      /\ \A i \in 1..(m + space) : new[i] = IF i <= m THEN data[i] ELSE words[i - m]
  <2>1. new = data \o words
    OBVIOUS
  <2> HIDE DEF data, words, new
  <2> QED BY <1>1, <1>2, <2>1, Joined DEF m
<1>4. DOMAIN new = 1..(m + space) /\ DOMAIN data = 1..m
  BY <1>1, <1>3
<1> HIDE DEF words, new
<1>5. ASSUME NEW i \in 1..(m + space)
      PROVE  \/ i <= m /\ i \in DOMAIN data /\ new[i] = data[i]
             \/ /\ ~(i <= m) /\ i - m \in 1..space
                /\ new[i] = <<Len(calls), first + (i - m)>>
  <2>1. i \in Nat /\ (i <= m => i \in 1..m) /\ (~(i <= m) => i - m \in 1..space)
    <3> HIDE DEF m
    <3> QED BY <1>1
  <2> QED BY <1>2, <1>3, <1>4, <2>1
<1>6. ASSUME NEW w \in Places, Issued(w)
      PROVE  /\ \A k \in 1..space : Before(w, <<Len(calls), first + k>>)
             /\ w[1] <= Len(calls)
             /\ \A u \in Threads : Filling(u)' /\ w[1] = Len(calls') =>
                  w[2] <= calls'[Len(calls')].count - job'[u].left
  <2>1. /\ w[1] \in Nat /\ w[2] \in Nat /\ w[1] <= Len(calls)
        /\ w[1] = Len(calls) => w[2] <= first
    BY <1>1, <1>6 DEF Issued, Places
  <2>2. ASSUME NEW k \in 1..space
        PROVE  Before(w, <<Len(calls), first + k>>)
    <3>1. w[1] < Len(calls) \/ (w[1] = Len(calls) /\ w[2] < first + k)
      BY <1>1, <2>1
    <3> QED BY <3>1 DEF Before
  <2>3. w[1] = Len(calls) => w[2] <= calls[Len(calls)].count - (job[t].left - space)
    BY <2>1
  <2> QED BY <2>1, <2>2, <2>3
<1>7. ASSUME NEW k \in 1..space
      PROVE  LET w == <<Len(calls), first + k>>
             IN /\ w[1] <= Len(calls)
                /\ \A u \in Threads : Filling(u)' /\ w[1] = Len(calls') =>
                     w[2] <= calls'[Len(calls')].count - job'[u].left
  <2>1. first + k <= calls[Len(calls)].count - (job[t].left - space)
    BY <1>7
  <2> QED BY <1>1, <2>1
<1>8. Sorted(new)
  <2> SUFFICES ASSUME NEW i \in 1..(m + space), NEW j \in 1..(m + space), i < j
               PROVE  Before(new[i], new[j])
    BY <1>4 DEF Sorted
  <2>1. CASE i <= m /\ j <= m
    BY <1>5, <2>1 DEF OrderInv, Sorted
  <2>2. CASE i <= m /\ ~(j <= m)
    <3>1. i \in DOMAIN data /\ new[i] = data[i] /\ j - m \in 1..space
          /\ new[j] = <<Len(calls), first + (j - m)>>
      BY <1>5, <2>2
    <3>2. Issued(data[i]) /\ data[i] \in Places
      BY <1>1, <3>1 DEF OrderInv
    <3> QED BY <1>6, <3>1, <3>2
  <2>3. CASE ~(i <= m)
    <3>1. /\ i - m \in 1..space /\ new[i] = <<Len(calls), first + (i - m)>>
          /\ j - m \in 1..space /\ new[j] = <<Len(calls), first + (j - m)>>
          /\ i - m < j - m
      <4>1. ~(j <= m) /\ i - m < j - m
        <5> HIDE DEF m
        <5> QED BY <1>1, <2>3
      <4> QED BY <1>5, <2>3, <4>1
    <3>2. first + (i - m) < first + (j - m)
      <4> HIDE DEF m
      <4> QED BY <3>1
    <3>3. Before(<<Len(calls), first + (i - m)>>, <<Len(calls), first + (j - m)>>)
      BY <3>2 DEF Before
    <3> QED BY <3>1, <3>3
  <2> QED BY <1>1, <2>1, <2>2, <2>3
<1>9. ASSUME NEW i \in 1..(m + space)
      PROVE  /\ new[i][1] <= Len(calls)
             /\ \A u \in Threads : Filling(u)' /\ new[i][1] = Len(calls') =>
                  new[i][2] <= calls'[Len(calls')].count - job'[u].left
  <2>1. CASE i \in DOMAIN data /\ new[i] = data[i]
    <3>1. data[i] \in Places /\ Issued(data[i])
      BY <1>1, <2>1 DEF OrderInv
    <3> QED BY <1>6, <2>1, <3>1
  <2>2. CASE i - m \in 1..space /\ new[i] = <<Len(calls), first + (i - m)>>
    BY <1>7, <2>2
  <2> QED BY <1>5, <2>1, <2>2
<1>10. (\A j \in DOMAIN crntCmd.data : Issued(crntCmd.data[j]))'
  BY <1>4, <1>9 DEF Issued, new
<1>11. (\A i \in DOMAIN executed : Issued(executed[i]))'
  <2>1. \A i \in DOMAIN executed : executed[i] \in Places /\ Issued(executed[i])
    BY <1>1 DEF OrderInv
  <2> QED BY <1>6, <2>1 DEF Issued
<1>12. ASSUME NEW i \in DOMAIN executed, NEW j \in 1..(m + space)
       PROVE  Before(executed[i], new[j])
  <2>1. executed[i] \in Places /\ Issued(executed[i])
    BY <1>1 DEF OrderInv
  <2>2. CASE j \in DOMAIN data /\ new[j] = data[j]
    BY <2>2 DEF OrderInv
  <2>3. CASE j - m \in 1..space /\ new[j] = <<Len(calls), first + (j - m)>>
    BY <1>6, <2>1, <2>3
  <2> QED BY <1>5, <2>2, <2>3
<1>13. (\A i \in DOMAIN executed, j \in DOMAIN crntCmd.data :
          Before(executed[i], crntCmd.data[j]))'
  BY <1>4, <1>12 DEF Before, new
<1>14. Sorted(executed)' /\ Sorted(crntCmd.data)'
  <2>1. (\A i, j \in DOMAIN new : i < j =>
            new[i][1] < new[j][1] \/ (new[i][1] = new[j][1] /\ new[i][2] < new[j][2]))
    BY <1>8 DEF Sorted, Before
  <2>2. Sorted(crntCmd.data)'
    BY <2>1 DEF Sorted, Before, new
  <2>3. Sorted(executed)'
    BY DEF OrderInv, Sorted, Before
  <2> QED BY <2>2, <2>3
<1> QED BY <1>10, <1>11, <1>13, <1>14 DEF OrderInv

(* A part of an access joins the current packet, or the packet is to be    *)
(* sent first.                                                             *)
LEMMA FillKeepsInv ==
  ASSUME PipelineInv, NEW t \in Threads, UNCHANGED session, Fill(t)
  PROVE  PipelineInv'
<1> DEFINE call  == calls[job[t].id]
           left  == job[t].left
           first == call.count - left
           space == RequestSpace(crntCmd, left, call.kind)
           cmd   == AddTo(crntCmd, job[t].id, first, space, call.kind)
<1>1. /\ Typed /\ ControlInv /\ PacketInv /\ OrderInv
      /\ pc[t] \in Locked <=> lock = t
      /\ pc[t] = "fill" => /\ job[t].after \in {"idle", "check"} /\ Filling(t)
                           /\ job[t].id = Len(calls) /\ Len(calls) > 0
                           /\ calls[Len(calls)].kind \in Requests
                           /\ left <= calls[Len(calls)].count
      /\ NoReq \notin Threads
      /\ calls \in Seq(Calls)
      /\ job \in [Threads -> [id : Nat, left : Nat, after : Labels]]
      /\ toRead \in Seq(Packet) /\ executed \in Seq(Places) /\ crntCmd \in Packet
      /\ pc \in [Threads -> Labels]
  BY PipelineAssumption
     DEF PipelineInv, ControlInv, Typed, LockFits, AfterFits, LastFits, Filling
<1>2. /\ pc[t] = "fill" /\ lock = t /\ lock' = lock /\ left > 0
      /\ UNCHANGED <<session, calls, toRead, executed>>
  BY <1>1 DEF Fill, history, probe, Locked
<1>3. /\ Len(calls) \in Nat /\ job[t].id = Len(calls) /\ call = calls[Len(calls)]
      /\ call.kind \in Requests /\ call.count \in Nat /\ left \in Nat
      /\ first \in Nat /\ first + left = call.count
  <2>1. Len(calls) \in 1..Len(calls) /\ Len(calls) \in Nat
    BY <1>1, <1>2
  <2>2. calls[Len(calls)] \in Calls
    BY <1>1, <2>1
  <2>3. left \in Nat
    BY <1>1
  <2>4. call = calls[Len(calls)]
    BY <1>1, <1>2
  <2>5. call.count \in Nat /\ left <= call.count /\ call.kind \in Requests
    BY <1>1, <1>2, <2>2, <2>4 DEF Calls
  <2> QED BY <1>1, <1>2, <2>1, <2>3, <2>4, <2>5
<1>4. \A u \in Threads : u # t => pc[u] \notin Locked
  BY <1>1, <1>2 DEF ControlInv, LockFits
<1>5. CASE NoRoom(space)
  <2>1. Goto(t, "send") /\ UNCHANGED <<crntCmd, job>>
    BY <1>5 DEF Fill
  <2>2. "send" \in Labels /\ "send" \in Locked /\ job[t].after \in Afterwards
    BY <1>1, <1>2 DEF Labels, Locked, Afterwards
  <2> QED BY <1>1, <1>2, <2>1, <2>2, Elsewhere
<1>6. CASE ~NoRoom(space)
  <2>1. /\ crntCmd' = cmd
        /\ job' = [job EXCEPT ![t].left = @ - space]
        /\ \E label \in {"send", "fill"} : Goto(t, label)
    BY <1>6 DEF Fill
  <2>2. /\ space \in Nat /\ space <= left
        /\ cmd \in Packet /\ Counts(cmd) /\ PacketFits(cmd)
    <3>1. space # 0
      BY <1>6 DEF NoRoom
    <3> HIDE DEF space, cmd, first, left, call
    <3>2. crntCmd \in Packet /\ Counts(crntCmd) /\ PacketFits(crntCmd)
          /\ space = RequestSpace(crntCmd, left, call.kind)
          /\ cmd = AddTo(crntCmd, job[t].id, first, space, call.kind)
          /\ job[t].id \in Nat /\ call.kind \in Requests /\ first \in Nat /\ left \in Nat
      BY <1>1, <1>3 DEF PacketInv, space, cmd
    <3> QED BY <3>1, <3>2, SpaceFits
  <2>3. cmd.data = crntCmd.data \o [i \in 1..space |-> <<Len(calls), first + i>>]
    <3>1. cmd.data = crntCmd.data \o [i \in 1..space |-> <<job[t].id, first + i>>]
      BY DEF AddTo
    <3> QED BY <1>3, <3>1
  <2> HIDE DEF space, cmd, first, call
  <2>4. /\ job'[t].id = job[t].id /\ job'[t].after = job[t].after
        /\ job'[t].left = left - space /\ left - space \in Nat /\ left - space <= left
        /\ job' \in [Threads -> [id : Nat, left : Nat, after : Labels]]
        /\ \A u \in Threads : u # t => job'[u] = job[u]
    <3>1. left - space \in Nat /\ left - space <= left
      BY <1>3, <2>2
    <3>2. job' = [job EXCEPT ![t] = [job[t] EXCEPT !.left = left - space]]
      BY <2>1
    <3>3. job[t] \in [id : Nat, left : Nat, after : Labels]
      BY <1>1
    <3>4. [job[t] EXCEPT !.left = left - space] \in [id : Nat, left : Nat, after : Labels]
      BY <3>1, <3>3
    <3> QED BY <1>1, <3>1, <3>2, <3>3, <3>4
  <2>5. /\ pc' \in [Threads -> Labels] /\ pc'[t] \in {"send", "fill"}
        /\ \A u \in Threads : u # t => pc'[u] = pc[u]
    BY <1>1, <2>1 DEF Goto, Labels, Locked
  <2>6. Typed'
    BY <1>1, <1>2, <2>1, <2>2, <2>4, <2>5 DEF Typed
  <2>7. LockFits'
    BY <1>1, <1>2, <2>5 DEF ControlInv, LockFits, Locked
  <2>8. AfterFits'
    BY <1>1, <1>2, <2>4, <2>5 DEF ControlInv, AfterFits, Afterwards
  <2>9. \A u \in Threads : Filling(u)' => u = t
    BY <1>4, <2>5 DEF Filling, Locked
  <2>10. LastFits'
    <3>1. left - space <= calls[Len(calls)].count
      BY <1>3, <2>2, <2>4
    <3> QED BY <1>1, <1>2, <2>4, <2>9, <3>1 DEF LastFits
  <2>11. PacketInv'
    <3>1. Counts(crntCmd)' /\ PacketFits(crntCmd)'
      BY <2>1, <2>2 DEF Counts, PacketFits, IsEmpty, EncodedSize, ReplySize
    <3> QED BY <1>1, <1>2, <3>1 DEF PacketInv
  <2>12. OrderInv'
    <3>1. /\ crntCmd'.data = crntCmd.data \o [i \in 1..space |-> <<Len(calls), first + i>>]
          /\ Filling(t) /\ Len(calls) > 0 /\ job[t].left \in Nat
          /\ first + job[t].left = calls[Len(calls)].count
          /\ calls[Len(calls)].count \in Nat /\ job'[t].left = job[t].left - space
      BY <1>1, <1>2, <1>3, <2>1, <2>3, <2>4
    <3> QED BY <1>1, <1>2, <1>3, <2>2, <2>9, <3>1, FillKeepsOrder
  <2> QED BY <2>6, <2>7, <2>8, <2>10, <2>11, <2>12 DEF PipelineInv, ControlInv
<1> QED BY <1>5, <1>6

-----------------------------------------------------------------------------
(* All steps                                                               *)

(* The probe is open, all threads are idle and nothing has been performed. *)
LEMMA InitHasInv ==
  ASSUME Init
  PROVE  PipelineInv
<1>1. session \in Sessions /\ session.packetSize \in Nat /\ NoReq \notin Threads
  BY PipelineAssumption DEF Init
<1>2. crntCmd \in Packet /\ Counts(crntCmd) /\ PacketFits(crntCmd) /\ crntCmd.data = <<>>
  BY <1>1, NewFits DEF Init
<1>3. \A t \in Threads : pc[t] = "idle"
  BY DEF Init
<1>4. Typed
  <2>1. pc \in [Threads -> Labels]
    BY DEF Init, Labels
  <2>2. [id |-> 0, left |-> 0, after |-> "fill"] \in [id : Nat, left : Nat, after : Labels]
    BY DEF Labels, Locked
  <2>3. job \in [Threads -> [id : Nat, left : Nat, after : Labels]]
    BY <2>2 DEF Init
  <2> QED BY <1>1, <1>2, <2>1, <2>3 DEF Init, Typed
<1>5. LockFits /\ AfterFits /\ LastFits
  BY <1>1, <1>3 DEF Init, LockFits, AfterFits, LastFits, Filling, Locked, Flushing
<1>6. PacketInv
  BY <1>2 DEF Init, PacketInv
<1>7. OrderInv
  BY <1>2 DEF Init, OrderInv, Sorted
<1> QED BY <1>4, <1>5, <1>6, <1>7 DEF PipelineInv, ControlInv

(* Changing the mode, or nothing, is nothing to the invariant.             *)
LEMMA NothingKeepsInv ==
  ASSUME PipelineInv,
         UNCHANGED <<session, calls, crntCmd, toRead, executed, lock, pc, job>>
  PROVE  PipelineInv'
<1>1. ControlInv'
  BY DEF PipelineInv, ControlInv, Typed, LockFits, AfterFits, LastFits, Filling
<1>2. PacketInv'
  BY DEF PipelineInv, PacketInv
<1>3. OrderInv'
  BY DEF PipelineInv, OrderInv, Sorted, Issued, Filling
<1> QED BY <1>1, <1>2, <1>3 DEF PipelineInv

(* Every step of every thread keeps the invariant.                         *)
LEMMA StepsKeepInv ==
  ASSUME PipelineInv, [Next]_vars
  PROVE  PipelineInv'
<1>1. CASE UNCHANGED vars
  BY <1>1, NothingKeepsInv DEF vars
<1>2. ASSUME NEW t \in session.threads, Continue(t) \/ Start(t)
      PROVE  PipelineInv'
  <2>1. t \in Threads /\ UNCHANGED session
    BY <1>2, PipelineAssumption DEF PipelineInv, ControlInv, Typed, Continue, Start
  <2>2. CASE \/ FillEnd(t) \/ SendNothing(t) \/ DrainEnd(t) \/ Check(t) \/ CheckCurrent(t)
             \/ GetFlush(t) \/ Exchange(t) \/ UndeferEnd(t)
             \/ \E id \in DOMAIN calls : Callback(t, id)
    BY <2>1, <2>2, MovesKeepInv
  <2>3. CASE MakeRoom(t) \/ Send(t) \/ Drain(t) \/ GetRead(t)
    BY <2>1, <2>3, PacketsKeepInv
  <2>4. CASE \/ \E req \in Writes, n \in session.counts : BeginWrite(t, req, n)
             \/ \E req \in Reads, n \in session.counts, now \in BOOLEAN :
                  BeginRead(t, req, n, now)
             \/ Flush(t) \/ Direct(t) \/ Close(t) \/ Open(t) \/ Undefer(t)
    BY <2>1, <2>4, BeginningsKeepInv
  <2>5. CASE Fill(t)
    BY <2>1, <2>5, FillKeepsInv
  <2>6. CASE CloseEnd(t)
    BY <2>1, <2>6, ClosingKeepsInv
  <2>7. CASE Defer(t)
    <3>1. UNCHANGED <<session, calls, crntCmd, toRead, executed, lock, pc, job>>
      BY <2>1, <2>7 DEF Defer, history, buffers, probe
    <3> QED BY <3>1, NothingKeepsInv
  <2> QED BY <1>2, <2>2, <2>3, <2>4, <2>5, <2>6, <2>7 DEF Continue, Start
<1> QED BY <1>1, <1>2 DEF Next

-----------------------------------------------------------------------------
(* The invariant of FlushCompletes.  Until something fails the replies in  *)
(* the probe are those of the packets in flight, so that none is given up; *)
(* and each word of each access has been performed, is in the current      *)
(* packet, or is still to be added by the thread in _write().              *)

Matched ==
  /\ \E S : replies \in Seq(S)
  /\ Len(replies) = Len(toRead)
  /\ \A i \in DOMAIN toRead : Decodes(toRead[i], replies[i])

Performed(id, i) == \E k \in DOMAIN executed : executed[k] = <<id, i>>
Packed(id, i)    == \E k \in DOMAIN crntCmd.data : crntCmd.data[k] = <<id, i>>
Awaited(id, i) ==
  id = Len(calls) /\ \E t \in Threads : Filling(t) /\ i > calls[id].count - job[t].left
NoneLost ==
  \A id \in DOMAIN calls : \A i \in 1..calls[id].count :
    Performed(id, i) \/ Packed(id, i) \/ Awaited(id, i)

(* Where a packet and the packets in flight have to be gone.               *)
Settled ==
  /\ \A t \in Threads : /\ pc[t] \in {"drain", "exchange", "close"} => crntCmd.data = <<>>
                        /\ pc[t] \in {"exchange", "close"} => toRead = <<>>
                        /\ Filling(t) => isOpen
  /\ ~isOpen => crntCmd.data = <<>> /\ toRead = <<>>

FlushInv ==
  /\ faults \in [FaultKinds -> Nat]
  /\ NoFaults => Matched /\ NoneLost /\ Settled

(* A fault is never forgotten.                                             *)
LEMMA FaultsStay ==
  ASSUME faults \in [FaultKinds -> Nat], session \in Sessions, NEW kind, Fail(kind)
  PROVE  faults' \in [FaultKinds -> Nat] /\ ~NoFaults'
<1>1. kind \in FaultKinds /\ faults' = [faults EXCEPT ![kind] = faults[kind] + 1]
  BY PipelineAssumption DEF Fail
<1>2. faults[kind] \in Nat /\ faults[kind] + 1 \in Nat /\ faults[kind] + 1 # 0
  BY <1>1
<1>3. faults' \in [FaultKinds -> Nat] /\ faults'[kind] = faults[kind] + 1
  BY <1>1, <1>2
<1> QED BY <1>1, <1>2, <1>3 DEF NoFaults

(* A thread goes on and leaves calls, packets and accesses alone.          *)
LEMMA MovesKeepWords ==
  ASSUME PipelineInv, FlushInv, NEW t \in Threads, NEW label, Goto(t, label),
         UNCHANGED <<calls, crntCmd, toRead, executed, isOpen, faults>>,
         NoFaults => replies' = replies,
         \A u \in Threads : u # t => job'[u] = job[u],
         Filling(t) => job[t].left = 0 \/ (label \in {"fill", "send"} /\ job'[t] = job[t]),
         label \in {"fill", "send"} => Filling(t),
         NoFaults /\ label \in {"drain", "exchange", "close"} => crntCmd.data = <<>>,
         NoFaults /\ label \in {"exchange", "close"} => toRead = <<>>
  PROVE  FlushInv'
<1>1. NoFaults' = NoFaults
  BY DEF NoFaults
<1>2. SUFFICES ASSUME NoFaults
               PROVE  Matched' /\ NoneLost' /\ Settled'
  BY <1>1 DEF FlushInv
<1>3. Matched /\ NoneLost /\ Settled /\ replies' = replies
  BY <1>2 DEF FlushInv
<1>4. /\ pc'[t] = label
      /\ \A u \in Threads : u # t => pc'[u] = pc[u]
  BY DEF PipelineInv, ControlInv, Typed, Goto
<1>5. Matched'
  BY <1>3 DEF Matched, Decodes
<1>6. calls \in Seq(Calls)
  BY DEF PipelineInv, ControlInv, Typed
<1>7. ASSUME NEW id \in DOMAIN calls, NEW i \in 1..calls[id].count, Awaited(id, i)
      PROVE  Awaited(id, i)'
  <2>1. PICK u \in Threads : Filling(u) /\ i > calls[id].count - job[u].left
    BY <1>7 DEF Awaited
  <2>2. job[u].left # 0
    <3>1. calls[id] \in Calls
      BY <1>6
    <3>2. calls[id].count \in Nat
      BY <3>1 DEF Calls
    <3> QED BY <2>1, <3>2
  <2>3. Filling(u)' /\ job'[u] = job[u]
    BY <1>4, <2>1, <2>2 DEF Filling
  <2> QED BY <1>7, <2>1, <2>3 DEF Awaited
<1>8. NoneLost'
  <2>1. \A id, i : /\ Performed(id, i) => Performed(id, i)'
                   /\ Packed(id, i) => Packed(id, i)'
    BY DEF Performed, Packed
  <2> QED BY <1>3, <1>7, <2>1 DEF NoneLost
<1>9. Settled'
  BY <1>2, <1>3, <1>4 DEF Settled, Filling
<1> QED BY <1>5, <1>8, <1>9

(* ... inside a locked method, or in get_result().                          *)
LEMMA MovesKeepFlush ==
  ASSUME PipelineInv, FlushInv, NEW t \in Threads,
         \/ FillEnd(t) \/ SendNothing(t) \/ DrainEnd(t) \/ Check(t) \/ CheckCurrent(t)
         \/ GetFlush(t) \/ Exchange(t) \/ UndeferEnd(t)
         \/ \E id \in DOMAIN calls : Callback(t, id)
  PROVE  FlushInv'
<1>1. /\ pc[t] \in {"fill", "send"} => job[t].after \in {"idle", "check"}
      /\ crntCmd.data = <<>> <=> IsEmpty(crntCmd)
  BY DEF PipelineInv, ControlInv, AfterFits, IsEmpty
<1>2. ASSUME NoFaults, pc[t] \in {"drain", "exchange", "close"}
      PROVE  /\ crntCmd.data = <<>> /\ (pc[t] # "drain" => toRead = <<>>)
             /\ pc[t] # "drain" => replies = <<>>
  <2>1. crntCmd.data = <<>> /\ (pc[t] # "drain" => toRead = <<>>)
    BY <1>2 DEF FlushInv, Settled
  <2>2. toRead = <<>> => replies = <<>>
    BY <1>2 DEF FlushInv, Matched
  <2> QED BY <2>1, <2>2
<1>3. ASSUME UNCHANGED <<calls, buffers, modes, executed, faults>>
      PROVE  UNCHANGED <<calls, crntCmd, toRead, executed, isOpen, faults>>
  BY <1>3 DEF buffers, modes
<1>4. CASE FillEnd(t)
  <2>1. /\ pc[t] = "fill" /\ job[t].left = 0 /\ job' = job /\ replies' = replies
        /\ UNCHANGED <<calls, buffers, modes, executed, faults>>
    BY <1>4 DEF FillEnd, history, probe
  <2>2. \E label \in {"idle", "check", "flush"} : Goto(t, label)
    BY <1>1, <1>4, <2>1 DEF FillEnd
  <2> QED BY <1>3, <2>1, <2>2, MovesKeepWords
<1>5. CASE SendNothing(t)
  <2>1. /\ pc[t] \in {"send", "flush"} /\ crntCmd.data = <<>> /\ job' = job
        /\ replies' = replies /\ Goto(t, AfterSend(t))
        /\ UNCHANGED <<calls, buffers, modes, executed, faults>>
    BY <1>1, <1>5 DEF SendNothing, history, probe
  <2>2. /\ pc[t] = "send" => AfterSend(t) = "fill"
        /\ pc[t] # "send" => AfterSend(t) = "drain" /\ ~Filling(t)
    BY <2>1 DEF AfterSend, Filling
  <2>3. pc[t] = "send" => Filling(t)
    BY DEF Filling
  <2> QED BY <1>3, <2>1, <2>2, <2>3, MovesKeepWords
<1>6. CASE DrainEnd(t)
  <2>1. /\ pc[t] = "drain" /\ toRead = <<>> /\ job' = job /\ replies' = replies
        /\ UNCHANGED <<calls, buffers, modes, executed, faults>>
        /\ Goto(t, job[t].after)
    BY <1>6 DEF DrainEnd, history, probe
  <2>2. job[t].after \in Afterwards /\ ~Filling(t)
    BY <2>1 DEF PipelineInv, ControlInv, AfterFits, Flushing, Filling
  <2>3. job[t].after \notin {"fill", "send", "drain"}
    BY <2>2 DEF Afterwards
  <2> QED BY <1>2, <1>3, <2>1, <2>2, <2>3, MovesKeepWords
<1>7. CASE Check(t)
  <2>1. /\ ~Filling(t) /\ job' = job /\ replies' = replies
        /\ UNCHANGED <<calls, buffers, modes, executed, faults>>
        /\ \E label \in {"idle", "read", "assert"} : Goto(t, label)
    BY <1>7 DEF Check, probe, Filling
  <2> QED BY <1>3, <2>1, MovesKeepWords
<1>8. CASE CheckCurrent(t)
  <2>1. /\ ~Filling(t) /\ job' = job /\ replies' = replies
        /\ UNCHANGED <<calls, buffers, modes, executed, faults>>
        /\ \E label \in {"idle", "enter"} : Goto(t, label)
    BY <1>8 DEF CheckCurrent, probe, Filling
  <2> QED BY <1>3, <2>1, MovesKeepWords
<1>9. CASE GetFlush(t)
  <2>1. /\ ~Filling(t) /\ job' = job /\ replies' = replies /\ Goto(t, "flush")
        /\ UNCHANGED <<calls, buffers, modes, executed, faults>>
    BY <1>9 DEF GetFlush, history, probe, Filling
  <2> QED BY <1>3, <2>1, MovesKeepWords
<1>10. CASE Exchange(t)
  <2>1. /\ ~Filling(t) /\ job' = job /\ Goto(t, "idle") /\ pc[t] = "exchange"
        /\ UNCHANGED <<calls, buffers, modes, executed, faults>>
        /\ replies = <<>> => replies' = replies
    BY <1>10 DEF Exchange, Filling
  <2> QED BY <1>2, <1>3, <2>1, MovesKeepWords
<1>11. CASE UndeferEnd(t)
  <2>1. /\ ~Filling(t) /\ job' = job /\ replies' = replies /\ Goto(t, "idle")
        /\ UNCHANGED <<calls, crntCmd, toRead, executed, isOpen, faults>>
    BY <1>11 DEF UndeferEnd, buffers, probe, Filling
  <2> QED BY <2>1, MovesKeepWords
<1>12. ASSUME NEW id \in DOMAIN calls, Callback(t, id)
       PROVE  FlushInv'
  <2>1. /\ ~Filling(t) /\ replies' = replies /\ Goto(t, "check")
        /\ UNCHANGED <<calls, buffers, modes, executed, faults>>
        /\ \A u \in Threads : u # t => job'[u] = job[u]
    BY <1>12 DEF Callback, history, probe, Filling, PipelineInv, ControlInv, Typed
  <2> QED BY <1>3, <2>1, MovesKeepWords
<1> QED BY <1>4, <1>5, <1>6, <1>7, <1>8, <1>9, <1>10, <1>11, <1>12

(* Without a fault every reply decodes, and nothing raises.                *)
LEMMA RepliesDecode ==
  ASSUME PipelineInv, FlushInv
  PROVE  /\ ReadPacketBad \/ ReadPacketRaises \/ SendPacketRaises => FlushInv'
         /\ ReadPacket /\ NoFaults => Matched' /\ toRead' = Tail(toRead)
         /\ ReadPacket => faults' = faults
<1>1. /\ session \in Sessions /\ faults \in [FaultKinds -> Nat]
      /\ toRead \in Seq(Packet)
  BY DEF PipelineInv, ControlInv, Typed, FlushInv
<1>2. ASSUME NEW kind, Fail(kind)
      PROVE  FlushInv'
  BY <1>1, <1>2, FaultsStay DEF FlushInv
<1>3. ASSUME toRead # <<>>, NoFaults
      PROVE  Decodes(Head(toRead), Head(replies))
  <2>1. PICK S : replies \in Seq(S)
    BY <1>3 DEF FlushInv, Matched
  <2>2. 1 \in DOMAIN toRead /\ Decodes(toRead[1], replies[1]) /\ replies # <<>>
    BY <1>1, <1>3, <2>1 DEF FlushInv, Matched
  <2>3. Head(toRead) = toRead[1] /\ Head(replies) = replies[1]
    BY <1>1, <1>3, <2>1, <2>2
  <2> QED BY <2>2, <2>3
<1>4. ASSUME ReadPacketBad
      PROVE  FlushInv'
  <2>1. ~NoFaults /\ (faults' = faults \/ \E kind : Fail(kind))
    BY <1>3, <1>4 DEF ReadPacketBad
  <2>2. CASE faults' = faults
    BY <1>1, <2>1, <2>2 DEF FlushInv, NoFaults
  <2> QED BY <1>2, <2>1, <2>2
<1>5. ASSUME ReadPacketRaises \/ SendPacketRaises
      PROVE  FlushInv'
  BY <1>2, <1>5 DEF ReadPacketRaises, SendPacketRaises
<1>6. ASSUME ReadPacket, NoFaults
      PROVE  Matched' /\ toRead' = Tail(toRead)
  <2>1. /\ toRead # <<>> /\ replies # <<>> /\ calls' = calls
        /\ toRead' = Tail(toRead) /\ replies' = Tail(replies)
    BY <1>6 DEF ReadPacket
  <2>2. PICK S : replies \in Seq(S)
    BY <1>6 DEF FlushInv, Matched
  <2>3. Len(replies) = Len(toRead) /\ \A k \in DOMAIN toRead : Decodes(toRead[k], replies[k])
    BY <1>6 DEF FlushInv, Matched
  <2>4. /\ replies' \in Seq(S) /\ Len(replies') = Len(toRead')
        /\ \A k \in DOMAIN toRead' :
             /\ k + 1 \in DOMAIN toRead
             /\ toRead'[k] = toRead[k + 1] /\ replies'[k] = replies[k + 1]
    BY <1>1, <2>1, <2>2, <2>3
  <2>5. \A k \in DOMAIN toRead' : Decodes(toRead'[k], replies'[k])
    BY <2>3, <2>4
  <2> QED BY <2>1, <2>4, <2>5 DEF Matched, Decodes
<1> QED BY <1>4, <1>5, <1>6 DEF ReadPacket

(* A packet that is sent without a fault performs all its words.           *)
LEMMA SendsPerform ==
  ASSUME PipelineInv, FlushInv, SendPacket
  PROVE  /\ faults' \in [FaultKinds -> Nat]
         /\ NoFaults' => /\ NoFaults /\ Matched' /\ calls' = calls
                         /\ \A id, i : Performed(id, i) \/ Packed(id, i) =>
                              Performed(id, i)'
<1>1. /\ session \in Sessions /\ faults \in [FaultKinds -> Nat]
      /\ toRead \in Seq(Packet) /\ crntCmd \in Packet /\ crntCmd.data \in Seq(Places)
      /\ executed \in Seq(Places) /\ Counts(crntCmd)
  BY DEF PipelineInv, PacketInv, ControlInv, Typed, FlushInv, Packet
<1>2. PICK n \in 0..Len(crntCmd.data) :
        /\ Execute(crntCmd, n)
        /\ IF n = Len(crntCmd.data) THEN UNCHANGED faults ELSE Fail("ack")
  BY DEF SendPacket
<1>3. CASE n # Len(crntCmd.data)
  BY <1>1, <1>2, <1>3, FaultsStay
<1>4. CASE n = Len(crntCmd.data)
  <2>1. faults' = faults /\ NoFaults' = NoFaults
    BY <1>2, <1>4 DEF NoFaults
  <2>2. /\ toRead' = Append(toRead, crntCmd) /\ calls' = calls
        /\ executed' = executed \o SubSeq(crntCmd.data, 1, n)
    BY <1>2 DEF SendPacket, Execute, history
  <2> DEFINE data  == crntCmd.data
             reply == [block |-> crntCmd.block, ok |-> n = Len(data), count |-> Len(data),
                       words |-> ReadWords(SubSeq(data, 1, n))]
  <2>3. replies' = Append(replies, reply)
    BY <1>2 DEF Execute
  <2>4. Decodes(crntCmd, reply)
    BY <1>1, <1>4 DEF Decodes, Counts
  <2>5. ASSUME NoFaults
        PROVE  Matched'
    <3>1. PICK S : replies \in Seq(S)
      BY <2>5 DEF FlushInv, Matched
    <3>2. Len(replies) = Len(toRead) /\ \A k \in DOMAIN toRead : Decodes(toRead[k], replies[k])
      BY <2>5 DEF FlushInv, Matched
    <3> HIDE DEF reply
    <3>3. /\ replies' \in Seq(S \cup {reply}) /\ Len(replies') = Len(replies) + 1
          /\ \A k \in 1..(Len(replies) + 1) :
               replies'[k] = IF k = Len(replies) + 1 THEN reply ELSE replies[k]
      BY <2>3, <3>1
    <3>4. /\ Len(toRead') = Len(toRead) + 1 /\ DOMAIN toRead' = 1..(Len(toRead) + 1)
          /\ \A k \in 1..(Len(toRead) + 1) :
               /\ toRead'[k] = IF k = Len(toRead) + 1 THEN crntCmd ELSE toRead[k]
               /\ k # Len(toRead) + 1 => k \in DOMAIN toRead
      BY <1>1, <2>2
    <3>5. \A k \in DOMAIN toRead' : Decodes(toRead'[k], replies'[k])
      BY <2>4, <3>2, <3>3, <3>4
    <3> QED BY <3>2, <3>3, <3>4, <3>5 DEF Matched, Decodes
  <2>6. ASSUME NEW id, NEW i, Performed(id, i)
        PROVE  Performed(id, i)'
    <3>1. PICK k \in DOMAIN executed : executed[k] = <<id, i>>
      BY <2>6 DEF Performed
    <3>2. k \in DOMAIN executed' /\ executed'[k] = executed[k]
      <4>1. SubSeq(data, 1, n) \in Seq(Places)
        BY <1>1
      <4> QED BY <1>1, <2>2, <3>1, <4>1
    <3> QED BY <3>1, <3>2 DEF Performed
  <2>7. ASSUME NEW id, NEW i, Packed(id, i)
        PROVE  Performed(id, i)'
    <3>1. PICK k \in DOMAIN data : data[k] = <<id, i>>
      BY <2>7 DEF Packed
    <3>2. SubSeq(data, 1, n) \in Seq(Places) /\ Len(SubSeq(data, 1, n)) = n
          /\ SubSeq(data, 1, n)[k] = data[k] /\ k \in 1..n
      BY <1>1, <1>4, <3>1
    <3> DEFINE new == SubSeq(data, 1, n)
    <3>3. executed' = executed \o new /\ new \in Seq(Places) /\ Len(new) = n
          /\ new[k] = data[k] /\ k \in 1..n
      BY <2>2, <3>2
    <3> HIDE DEF new
    <3>4. Len(executed) + k \in DOMAIN executed' /\ executed'[Len(executed) + k] = data[k]
      BY <1>1, <3>3
    <3> QED BY <3>1, <3>4 DEF Performed
  <2> QED BY <1>1, <2>1, <2>2, <2>5, <2>6, <2>7
<1> QED BY <1>3, <1>4

(* A packet is sent, a reply is read, or either raises.                    *)
LEMMA PacketsKeepFlush ==
  ASSUME PipelineInv, FlushInv, NEW t \in Threads,
         MakeRoom(t) \/ Send(t) \/ Drain(t) \/ GetRead(t)
  PROVE  FlushInv'
<1>1. /\ pc \in [Threads -> Labels] /\ calls \in Seq(Calls)
      /\ faults \in [FaultKinds -> Nat]
  BY DEF PipelineInv, ControlInv, Typed, FlushInv
<1>2. ASSUME NEW label, ReadPacket, Goto(t, label), job' = job,
             label = pc[t] \/ (label = "check" /\ ~Filling(t))
      PROVE  FlushInv'
  <2>1. /\ faults' = faults /\ NoFaults' = NoFaults /\ toRead # <<>>
        /\ UNCHANGED <<calls, crntCmd, executed, isOpen>>
    BY <1>2 DEF ReadPacket, NoFaults, modes
  <2>2. ASSUME NoFaults
        PROVE  Matched' /\ NoneLost' /\ Settled'
    <3>1. /\ Matched' /\ toRead' = Tail(toRead) /\ NoneLost /\ Settled
      BY <1>2, <2>2, RepliesDecode DEF FlushInv
    <3>2. /\ pc'[t] = label
          /\ \A u \in Threads : u # t => pc'[u] = pc[u]
      BY <1>1, <1>2 DEF Goto
    <3>3. \A u \in Threads : Filling(u)' <=> Filling(u)
      BY <1>2, <3>2 DEF Filling
    <3>4. NoneLost'
      BY <1>2, <2>1, <3>1, <3>3 DEF NoneLost, Performed, Packed, Awaited
    <3>5. Settled'
      BY <1>2, <2>1, <3>1, <3>2, <3>3 DEF Settled
    <3> QED BY <3>1, <3>4, <3>5
  <2> QED BY <1>1, <2>1, <2>2 DEF FlushInv
<1>3. ASSUME ReadPacket, UNCHANGED <<pc, lock, job>>
      PROVE  FlushInv'
  BY <1>1, <1>2, <1>3 DEF Goto
<1>4. CASE MakeRoom(t)
  BY <1>3, <1>4, RepliesDecode DEF MakeRoom
<1>5. CASE Drain(t)
  BY <1>3, <1>5, RepliesDecode DEF Drain
<1>6. CASE Send(t)
  <2>1. pc[t] \in {"send", "flush"}
    BY <1>6 DEF Send, Sending
  <2>2. CASE SendPacketRaises /\ Raise(t)
    BY <2>2, RepliesDecode
  <2>3. ASSUME SendPacket, Goto(t, AfterSend(t)), job' = job, NoFaults'
        PROVE  Matched' /\ NoneLost' /\ Settled'
    <3>1. /\ NoFaults /\ Matched' /\ calls' = calls
          /\ \A id, i : Performed(id, i) \/ Packed(id, i) => Performed(id, i)'
          /\ NoneLost /\ Settled
      BY <2>3, SendsPerform DEF FlushInv
    <3>2. crntCmd'.data = <<>> /\ isOpen' = isOpen
      BY <2>3 DEF SendPacket, modes, NewCommand
    <3>3. /\ pc'[t] = AfterSend(t)
          /\ \A u \in Threads : u # t => pc'[u] = pc[u]
      BY <1>1, <2>3 DEF Goto
    <3>4. /\ \A u \in Threads : Filling(u)' <=> Filling(u)
          /\ pc'[t] \in {"fill", "drain"}
      BY <2>1, <3>3 DEF AfterSend, Filling
    <3>5. NoneLost'
      <4>1. \A id, i : Awaited(id, i) => Awaited(id, i)'
        BY <2>3, <3>1, <3>4 DEF Awaited
      <4> QED BY <3>1, <4>1 DEF NoneLost
    <3>6. ~IsEmpty(crntCmd) /\ lock = t
      BY <1>6, <2>1 DEF Send, Sending, PipelineInv, ControlInv, LockFits, Locked
    <3>7. isOpen
      BY <3>1, <3>6 DEF Settled, IsEmpty
    <3>8. \A u \in Threads : pc'[u] \notin {"exchange", "close"}
      <4>1. \A u \in Threads : u # t => pc[u] \notin Locked
        BY <3>6 DEF PipelineInv, ControlInv, LockFits
      <4> QED BY <3>3, <3>4, <4>1 DEF Locked
    <3>9. Settled'
      BY <3>1, <3>2, <3>4, <3>7, <3>8 DEF Settled
    <3> QED BY <3>1, <3>5, <3>9
  <2>4. CASE SendPacket /\ Goto(t, AfterSend(t)) /\ UNCHANGED <<lock, job>>
    BY <2>3, <2>4, SendsPerform DEF FlushInv
  <2> QED BY <1>6, <2>2, <2>4 DEF Send
<1>7. CASE GetRead(t)
  <2>1. pc[t] = "read" /\ ~Filling(t)
    BY <1>7 DEF GetRead, Filling
  <2>2. CASE ReadPacket /\ Goto(t, "check") /\ UNCHANGED <<lock, job>>
    BY <1>2, <2>1, <2>2
  <2>3. CASE (ReadPacketBad \/ ReadPacketRaises) /\ Raise(t)
    BY <2>3, RepliesDecode
  <2>4. CASE /\ Goto(t, "idle")
             /\ UNCHANGED <<calls, buffers, modes, probe, job, faults>>
    <3>1. UNCHANGED <<calls, crntCmd, toRead, executed, isOpen, faults, replies, job>>
      BY <2>4 DEF buffers, modes, probe
    <3> QED BY <2>1, <2>4, <3>1, MovesKeepWords
  <2> QED BY <1>7, <2>2, <2>3, <2>4 DEF GetRead
<1> QED BY <1>4, <1>5, <1>6, <1>7

(* A new operation awaits all its words, if it has any.                    *)
LEMMA IssuesKeepFlush ==
  ASSUME PipelineInv, FlushInv, NEW t \in Threads, lock = NoReq,
         UNCHANGED <<executed, replies, toRead, faults>>,
         NoFaults => crntCmd'.data = crntCmd.data,
         NEW call \in Calls, calls' = Append(calls, call),
         \/ isOpen' /\ UNCHANGED <<pc, job>> /\ call.count = 0
         \/ isOpen /\ isOpen' /\ \E label \in {"fill", "flush"} : \E after, left :
              /\ Goto(t, label)
              /\ job' = [job EXCEPT ![t] =
                           [id |-> Len(calls) + 1, left |-> left, after |-> after]]
              /\ label = "fill" => left = call.count
              /\ label # "fill" => call.count = 0
  PROVE  FlushInv'
<1>1. /\ NoReq \notin Threads /\ Len(calls) \in Nat
      /\ calls \in Seq(Calls) /\ pc \in [Threads -> Labels]
      /\ job \in [Threads -> [id : Nat, left : Nat, after : Labels]]
  BY PipelineAssumption DEF PipelineInv, ControlInv, Typed
<1>2. \A u \in Threads : pc[u] \notin Locked /\ ~Filling(u)
  BY <1>1 DEF PipelineInv, ControlInv, LockFits, Filling, Locked
<1>3. /\ Len(calls') = Len(calls) + 1 /\ DOMAIN calls' = 1..(Len(calls) + 1)
      /\ calls'[Len(calls) + 1] = call
      /\ \A id \in 1..Len(calls) : calls'[id] = calls[id] /\ id \in DOMAIN calls
  BY <1>1
<1>4. call.count \in Nat
  BY DEF Calls
<1>5. SUFFICES ASSUME NoFaults
               PROVE  Matched' /\ NoneLost' /\ Settled'
  BY DEF FlushInv, NoFaults
<1>6. Matched /\ NoneLost /\ Settled /\ crntCmd'.data = crntCmd.data
  BY <1>5 DEF FlushInv
<1>7. Matched'
  BY <1>6 DEF Matched, Decodes
<1>8. \/ \A u \in Threads : ~Filling(u)' /\ pc'[u] \notin {"drain", "exchange", "close"}
      \/ /\ Filling(t)' /\ job'[t].left = call.count /\ isOpen'
         /\ \A u \in Threads : /\ pc'[u] \notin {"drain", "exchange", "close"}
                               /\ Filling(u)' => isOpen'
  <2>1. CASE UNCHANGED <<pc, job>>
    BY <1>2, <2>1 DEF Filling, Locked
  <2>2. ASSUME isOpen', NEW label \in {"fill", "flush"}, NEW after, NEW left, Goto(t, label),
               job' = [job EXCEPT ![t] =
                         [id |-> Len(calls) + 1, left |-> left, after |-> after]],
               label = "fill" => left = call.count
        PROVE  <1>8!1 \/ <1>8!2
    <3>1. /\ pc'[t] = label /\ job'[t].left = left
          /\ \A u \in Threads : u # t => pc'[u] = pc[u]
      BY <1>1, <2>2 DEF Goto
    <3> QED BY <1>2, <2>2, <3>1 DEF Filling, Locked
  <2> QED BY <2>1, <2>2
<1>9. call.count = 0 \/ (Filling(t)' /\ job'[t].left = call.count)
  <2>1. ASSUME NEW label \in {"fill", "flush"}, NEW after, NEW left, Goto(t, label),
               job' = [job EXCEPT ![t] =
                         [id |-> Len(calls) + 1, left |-> left, after |-> after]],
               label = "fill" => left = call.count,
               label # "fill" => call.count = 0
        PROVE  call.count = 0 \/ (Filling(t)' /\ job'[t].left = call.count)
    BY <1>1, <2>1 DEF Goto, Filling
  <2> QED BY <2>1
<1>10. NoneLost'
  <2>1. ASSUME NEW id \in 1..Len(calls), NEW k \in 1..calls[id].count
        PROVE  Performed(id, k)' \/ Packed(id, k)'
    <3>1. Performed(id, k) \/ Packed(id, k)
      BY <1>2, <1>3, <1>6 DEF NoneLost, Awaited
    <3> QED BY <1>6, <3>1 DEF Performed, Packed
  <2>2. ASSUME NEW id, id = Len(calls) + 1, NEW k \in 1..call.count
        PROVE  Awaited(id, k)'
    <3>1. Filling(t)' /\ job'[t].left = call.count
      BY <1>4, <1>9
    <3>2. k > call.count - call.count
      BY <1>4
    <3> QED BY <1>3, <2>2, <3>1, <3>2 DEF Awaited
  <2>3. ASSUME NEW id \in 1..(Len(calls) + 1)
        PROVE  id \in 1..Len(calls) \/ id = Len(calls) + 1
    BY <1>1
  <2> QED BY <1>3, <2>1, <2>2, <2>3 DEF NoneLost
<1>11. Settled'
  BY <1>6, <1>8 DEF Settled
<1> QED BY <1>7, <1>10, <1>11

(* Every operation that begins.                                            *)
LEMMA BeginningsKeepFlush ==
  ASSUME PipelineInv, FlushInv, NEW t \in Threads,
         \/ \E req \in Writes, n \in session.counts : BeginWrite(t, req, n)
         \/ \E req \in Reads, n \in session.counts, now \in BOOLEAN :
              BeginRead(t, req, n, now)
         \/ Flush(t) \/ Direct(t) \/ Close(t) \/ Open(t) \/ Undefer(t)
  PROVE  FlushInv'
<1>1. session.counts \subseteq Nat
  BY PipelineAssumption DEF PipelineInv, ControlInv, Typed
<1> DEFINE New(kind, count) == [kind |-> kind, count |-> count]
<1>2. ASSUME NEW kind \in Kinds, NEW count \in Nat
      PROVE  New(kind, count) \in Calls /\ New(kind, count).count = count
  BY DEF Calls
<1>3. ASSUME NEW req \in Requests, NEW n \in session.counts, NEW after, lock = NoReq,
             UNCHANGED <<executed, replies, toRead, faults, crntCmd, isOpen>>, isOpen,
             calls' = Append(calls, New(req, n)), Goto(t, "fill"),
             job' = [job EXCEPT ![t] =
                       [id |-> Len(calls) + 1, left |-> n, after |-> after]]
      PROVE  FlushInv'
  <2>1. New(req, n) \in Calls /\ New(req, n).count = n
    BY <1>1, <1>2 DEF Kinds
  <2> HIDE DEF New
  <2> QED BY <1>3, <2>1, IssuesKeepFlush
<1>4. ASSUME NEW req \in Writes, NEW n \in session.counts, BeginWrite(t, req, n)
      PROVE  FlushInv'
  <2>1. /\ lock = NoReq /\ isOpen
        /\ UNCHANGED <<executed, replies, toRead, faults, crntCmd, isOpen>>
        /\ calls' = Append(calls, New(req, n)) /\ Goto(t, "fill")
        /\ job' = [job EXCEPT ![t] = [id |-> Len(calls) + 1, left |-> n, after |-> "idle"]]
    BY <1>4 DEF BeginWrite, Call, buffers, probe, modes
  <2> QED BY <1>3, <2>1 DEF Requests
<1>5. ASSUME NEW req \in Reads, NEW n \in session.counts, NEW now \in BOOLEAN,
             BeginRead(t, req, n, now)
      PROVE  FlushInv'
  <2>1. /\ lock = NoReq /\ isOpen
        /\ UNCHANGED <<executed, replies, toRead, faults, crntCmd, isOpen>>
        /\ calls' = Append(calls, New(req, n)) /\ Goto(t, "fill")
        /\ job' = [job EXCEPT ![t] = [id |-> Len(calls) + 1, left |-> n,
                                      after |-> IF now THEN "check" ELSE "idle"]]
    BY <1>5 DEF BeginRead, Call, probe, modes
  <2> QED BY <1>3, <2>1 DEF Requests
<1>6. ASSUME NEW kind \in {"flush", "direct", "close", "undefer"}, NEW after,
             Begin(t, kind, after)
      PROVE  FlushInv'
  <2>1. New(kind, 0) \in Calls /\ New(kind, 0).count = 0
    BY <1>2 DEF Kinds
  <2>2. /\ lock = NoReq /\ isOpen
        /\ UNCHANGED <<executed, replies, toRead, faults, crntCmd, isOpen>>
        /\ calls' = Append(calls, New(kind, 0)) /\ Goto(t, "flush")
        /\ job' = [job EXCEPT ![t] = [id |-> Len(calls) + 1, left |-> 0, after |-> after]]
    BY <1>6 DEF Begin, Call, buffers, probe, modes
  <2> HIDE DEF New
  <2> QED BY <2>1, <2>2, IssuesKeepFlush
<1>7. CASE Open(t)
  <2>1. New("open", 0) \in Calls /\ New("open", 0).count = 0
    BY <1>2 DEF Kinds
  <2>2. /\ lock = NoReq /\ ~isOpen /\ isOpen'
        /\ UNCHANGED <<executed, replies, faults, pc, job>>
        /\ toRead' = <<>> /\ crntCmd'.data = <<>>
        /\ calls' = Append(calls, New("open", 0))
    BY <1>7 DEF Open, Call, probe, NewCommand
  <2>3. NoFaults => crntCmd.data = <<>> /\ toRead = <<>>
    BY <2>2 DEF FlushInv, Settled
  <2>4. CASE NoFaults
    <3> HIDE DEF New
    <3> QED BY <2>1, <2>2, <2>3, <2>4, IssuesKeepFlush
  <2>5. CASE ~NoFaults
    BY <2>2, <2>5 DEF FlushInv, NoFaults
  <2> QED BY <2>4, <2>5
<1>8. CASE Flush(t) \/ Direct(t) \/ Close(t) \/ Undefer(t)
  BY <1>6, <1>8 DEF Flush, Direct, Close, Undefer
<1> QED BY <1>4, <1>5, <1>7, <1>8

(* When the interface closes, nothing was in flight or packed.             *)
LEMMA ClosingKeepsFlush ==
  ASSUME PipelineInv, FlushInv, NEW t \in Threads, CloseEnd(t)
  PROVE  FlushInv'
<1>1. /\ pc[t] = "close" /\ Goto(t, "idle") /\ job' = job /\ ~isOpen'
      /\ UNCHANGED <<calls, toRead, executed, faults>>
      /\ crntCmd'.data = <<>> /\ replies' = <<>>
  BY DEF CloseEnd, NewCommand
<1>2. SUFFICES ASSUME NoFaults
               PROVE  Matched' /\ NoneLost' /\ Settled'
  BY <1>1 DEF FlushInv, NoFaults
<1>3. /\ crntCmd.data = <<>> /\ toRead = <<>> /\ NoneLost /\ Settled
  BY <1>1, <1>2 DEF FlushInv, Settled
<1>4. /\ pc'[t] = "idle" /\ \A u \in Threads : u # t => pc'[u] = pc[u]
      /\ \A u \in Threads : pc'[u] \notin Locked
  <2>1. NoReq \notin Threads /\ lock = t /\ pc \in [Threads -> Labels]
    BY <1>1, PipelineAssumption DEF PipelineInv, ControlInv, LockFits, Locked, Typed
  <2> QED BY <1>1, <2>1 DEF PipelineInv, ControlInv, LockFits, Locked, Goto
<1>5. \A u \in Threads : ~Filling(u)' /\ pc'[u] \notin {"exchange", "close", "drain"}
  BY <1>4 DEF Filling, Locked
<1>6. \A u \in Threads : ~Filling(u)
  <2>1. lock = t
    BY <1>1 DEF PipelineInv, ControlInv, LockFits, Locked
  <2> QED BY <1>1, <2>1 DEF PipelineInv, ControlInv, LockFits, Filling, Locked
<1>7. Matched'
  <2>1. replies' \in Seq({}) /\ Len(replies') = Len(toRead') /\ DOMAIN toRead' = {}
    BY <1>1, <1>3
  <2> QED BY <2>1 DEF Matched
<1>8. NoneLost'
  BY <1>1, <1>3, <1>6 DEF NoneLost, Performed, Packed, Awaited
<1>9. Settled'
  BY <1>1, <1>3, <1>5 DEF Settled
<1> QED BY <1>7, <1>8, <1>9

(* What joins the packet is no longer awaited.                             *)
LEMMA FillKeepsFlush ==
  ASSUME PipelineInv, FlushInv, PipelineInv', NEW t \in Threads, Fill(t)
  PROVE  FlushInv'
<1> DEFINE call  == calls[job[t].id]
           left  == job[t].left
           first == call.count - left
           space == RequestSpace(crntCmd, left, call.kind)
           cmd   == AddTo(crntCmd, job[t].id, first, space, call.kind)
<1>1. /\ pc[t] = "fill" /\ Filling(t)
      /\ UNCHANGED <<calls, toRead, executed, replies, isOpen, faults>>
  BY DEF Fill, Filling, history, probe, modes
<1>2. /\ lock = t /\ pc \in [Threads -> Labels] /\ calls \in Seq(Calls)
      /\ job \in [Threads -> [id : Nat, left : Nat, after : Labels]]
      /\ job[t].id = Len(calls) /\ Len(calls) > 0
      /\ crntCmd \in Packet /\ crntCmd.data \in Seq(Places)
  BY <1>1 DEF PipelineInv, ControlInv, Typed, LockFits, LastFits, Locked, Filling, Packet
<1>3. SUFFICES ASSUME NoFaults
               PROVE  Matched' /\ NoneLost' /\ Settled'
  BY <1>1 DEF FlushInv, NoFaults
<1>4. Matched /\ NoneLost /\ Settled /\ isOpen
  BY <1>1, <1>3 DEF FlushInv, Settled
<1>5. Matched'
  BY <1>1, <1>4 DEF Matched, Decodes
<1>6. \A u \in Threads : u # t => pc[u] \notin Locked
  BY <1>2 DEF PipelineInv, ControlInv, LockFits
<1>7. \E label \in {"send", "fill"} : Goto(t, label)
  BY DEF Fill
<1>8. /\ pc'[t] \in {"send", "fill"} /\ Filling(t)'
      /\ \A u \in Threads : u # t => pc'[u] = pc[u]
      /\ \A u \in Threads : pc'[u] \notin {"drain", "exchange", "close"}
  BY <1>2, <1>6, <1>7 DEF Goto, Filling, Locked
<1>9. Settled'
  BY <1>1, <1>4, <1>8 DEF Settled
<1>10. CASE NoRoom(space)
  <2>1. UNCHANGED <<crntCmd, job>>
    BY <1>10 DEF Fill
  <2>2. \A u \in Threads : Filling(u) <=> Filling(u)'
    BY <1>1, <1>8 DEF Filling
  <2>3. NoneLost'
    BY <1>1, <1>4, <2>1, <2>2 DEF NoneLost, Performed, Packed, Awaited
  <2> QED BY <1>5, <1>9, <2>3
<1>11. CASE ~NoRoom(space)
  <2>1. crntCmd' = cmd /\ job' = [job EXCEPT ![t].left = @ - space]
    BY <1>11 DEF Fill
  <2>2. /\ left \in Nat /\ call = calls[Len(calls)] /\ call.count \in Nat
        /\ call.kind \in Requests /\ first \in Nat /\ Len(calls) \in Nat
    <3>1. Len(calls) \in DOMAIN calls /\ Len(calls) \in Nat
      BY <1>2
    <3>2. calls[Len(calls)] \in Calls
      BY <1>2, <3>1
    <3>3. call.count \in Nat /\ left \in Nat
      BY <1>2, <3>2 DEF Calls
    <3>4. left <= call.count /\ call.kind \in Requests
      BY <1>1, <1>2 DEF PipelineInv, ControlInv, LastFits
    <3> QED BY <1>2, <3>1, <3>3, <3>4
  <2>3. space \in Nat
    <3> HIDE DEF first, cmd, left, call
    <3>1. crntCmd \in Packet /\ Counts(crntCmd) /\ PacketFits(crntCmd)
      BY <1>2 DEF PipelineInv, PacketInv
    <3> QED BY <1>2, <2>2, <3>1, SpaceFits
  <2>4. crntCmd'.data = crntCmd.data \o [i \in 1..space |-> <<Len(calls), first + i>>]
    <3>1. cmd.data = crntCmd.data \o [i \in 1..space |-> <<job[t].id, first + i>>]
      BY DEF AddTo
    <3> QED BY <1>2, <2>1, <3>1
  <2>5. job'[t].left = left - space
    BY <1>2, <2>1
  <2> HIDE DEF space, first, call, cmd
  <2> DEFINE words == [i \in 1..space |-> <<Len(calls), first + i>>]
  <2>6. words \in Seq(Places) /\ Len(words) = space
    <3> DEFINE last == Len(calls)
    <3>1. last \in Nat
      BY <2>2
    <3> HIDE DEF last
    <3>2. /\ [i \in 1..space |-> <<last, first + i>>] \in Seq(Places)
          /\ Len([i \in 1..space |-> <<last, first + i>>]) = space
      BY <2>2, <2>3, <3>1 DEF Places
    <3> QED BY <3>2 DEF last
  <2>7. \A i \in 1..space : words[i] = <<Len(calls), first + i>>
    OBVIOUS
  <2>8. crntCmd'.data = crntCmd.data \o words
    BY <2>4
  <2> HIDE DEF words
  <2>9. /\ \A k \in DOMAIN crntCmd.data :
             k \in DOMAIN crntCmd'.data /\ crntCmd'.data[k] = crntCmd.data[k]
        /\ \A i \in 1..space :
             /\ Len(crntCmd.data) + i \in DOMAIN crntCmd'.data
             /\ crntCmd'.data[Len(crntCmd.data) + i] = words[i]
    <3> DEFINE data == crntCmd.data
               new  == crntCmd'.data
    <3>1. data \in Seq(Places) /\ new = data \o words
      BY <1>2, <2>8
    <3> HIDE DEF data, new
    <3>2. /\ Len(new) = Len(data) + space /\ DOMAIN new = 1..(Len(data) + space)
          /\ Len(data) \in Nat /\ DOMAIN data = 1..Len(data)
      <4>1. Len(data) \in Nat /\ DOMAIN data = 1..Len(data)
        BY <3>1
      <4>2. new \in Seq(Places) /\ Len(new) = Len(data) + space
        BY <2>6, <3>1, Joined
      <4> QED BY <4>1, <4>2
    <3>3. \A k \in 1..Len(data) : k \in 1..(Len(data) + space)
      BY <2>3, <3>2
    <3>4. \A j \in 1..(Len(data) + space) :
             new[j] = IF j <= Len(data) THEN data[j] ELSE words[j - Len(data)]
      <4>1. \A j \in 1..(Len(data) + Len(words)) :
               (data \o words)[j] = IF j <= Len(data) THEN data[j] ELSE words[j - Len(data)]
        BY <2>6, <3>1, Joined
      <4> QED BY <2>6, <3>1, <4>1
    <3>5. \A i \in 1..space : Len(data) + i \in 1..(Len(data) + space)
      BY <2>3, <3>2
    <3>6. /\ \A k \in 1..Len(data) : new[k] = data[k]
          /\ \A i \in 1..space : new[Len(data) + i] = words[i]
      BY <2>3, <3>2, <3>3, <3>4, <3>5
    <3> QED BY <3>2, <3>3, <3>5, <3>6 DEF data, new
  <2>10. \A id, i : Packed(id, i) => Packed(id, i)'
    BY <2>9 DEF Packed
  <2>11. \A id, i : Performed(id, i) => Performed(id, i)'
    BY <1>1 DEF Performed
  <2>12. ASSUME NEW id \in DOMAIN calls, NEW i \in 1..calls[id].count, Awaited(id, i)
         PROVE  Packed(id, i)' \/ Awaited(id, i)'
    <3>1. id = Len(calls) /\ i > calls[id].count - left
      BY <1>6, <2>12 DEF Awaited, Filling, Locked
    <3>2. i \in Nat /\ i > first /\ first = call.count - left /\ calls[id].count = call.count
      BY <2>2, <3>1 DEF first
    <3>3. CASE i <= first + space
      <4>1. i - first \in 1..space /\ first + (i - first) = i
        BY <2>2, <2>3, <3>2, <3>3
      <4>2. words[i - first] = <<id, i>>
        BY <2>7, <3>1, <4>1
      <4> QED BY <2>9, <4>1, <4>2 DEF Packed
    <3>4. CASE i > first + space
      <4>1. i > calls[id].count - (left - space)
        BY <2>2, <2>3, <3>2, <3>4
      <4> QED BY <1>1, <1>8, <2>5, <3>1, <4>1 DEF Awaited
    <3> QED BY <2>2, <2>3, <3>2, <3>3, <3>4
  <2>13. NoneLost'
    BY <1>1, <1>4, <2>10, <2>11, <2>12 DEF NoneLost
  <2> QED BY <1>5, <1>9, <2>13
<1> QED BY <1>10, <1>11

(* Nothing has been issued.                                                *)
LEMMA InitHasFlush ==
  ASSUME Init
  PROVE  FlushInv
<1>1. faults \in [FaultKinds -> Nat]
  BY DEF Init
<1>2. Matched
  <2>1. replies \in Seq({}) /\ Len(replies) = Len(toRead) /\ DOMAIN toRead = {}
    BY DEF Init
  <2> QED BY <2>1 DEF Matched
<1>3. NoneLost
  BY DEF Init, NoneLost
<1>4. Settled
  BY DEF Init, Settled, Filling
<1> QED BY <1>1, <1>2, <1>3, <1>4 DEF FlushInv

(* Every step of every thread.                                             *)
LEMMA StepsKeepFlush ==
  ASSUME PipelineInv, PipelineInv', FlushInv, [Next]_vars
  PROVE  FlushInv'
<1>1. ASSUME UNCHANGED <<calls, crntCmd, toRead, executed, isOpen, faults, replies, pc, job>>
      PROVE  FlushInv'
  <2>1. \A u \in Threads : Filling(u)' = Filling(u)
    BY <1>1 DEF Filling
  <2>2. Matched => Matched'
    BY <1>1 DEF Matched, Decodes
  <2>3. NoneLost => NoneLost'
    BY <1>1, <2>1 DEF NoneLost, Performed, Packed, Awaited
  <2>4. Settled => Settled'
    BY <1>1, <2>1 DEF Settled
  <2> QED BY <1>1, <2>2, <2>3, <2>4 DEF FlushInv, NoFaults
<1>2. CASE UNCHANGED vars
  BY <1>1, <1>2 DEF vars
<1>3. ASSUME NEW t \in session.threads, Continue(t) \/ Start(t)
      PROVE  FlushInv'
  <2>1. t \in Threads
    BY <1>3, PipelineAssumption DEF PipelineInv, ControlInv, Typed
  <2>2. CASE \/ FillEnd(t) \/ SendNothing(t) \/ DrainEnd(t) \/ Check(t) \/ CheckCurrent(t)
             \/ GetFlush(t) \/ Exchange(t) \/ UndeferEnd(t)
             \/ \E id \in DOMAIN calls : Callback(t, id)
    BY <2>1, <2>2, MovesKeepFlush
  <2>3. CASE MakeRoom(t) \/ Send(t) \/ Drain(t) \/ GetRead(t)
    BY <2>1, <2>3, PacketsKeepFlush
  <2>4. CASE \/ \E req \in Writes, n \in session.counts : BeginWrite(t, req, n)
             \/ \E req \in Reads, n \in session.counts, now \in BOOLEAN :
                  BeginRead(t, req, n, now)
             \/ Flush(t) \/ Direct(t) \/ Close(t) \/ Open(t) \/ Undefer(t)
    BY <2>1, <2>4, BeginningsKeepFlush
  <2>5. CASE Fill(t)
    BY <2>1, <2>5, FillKeepsFlush
  <2>6. CASE CloseEnd(t)
    BY <2>1, <2>6, ClosingKeepsFlush
  <2>7. CASE Defer(t)
    BY <1>1, <2>7 DEF Defer, history, buffers, probe
  <2> QED BY <1>3, <2>2, <2>3, <2>4, <2>5, <2>6, <2>7 DEF Continue, Start
<1> QED BY <1>2, <1>3 DEF Next

-----------------------------------------------------------------------------
(* Sequences of sequences, put together                                    *)

(* A nonempty set of natural numbers has a least element: of the intervals *)
(* that end in its members one is minimal for inclusion.                   *)
LEMMA LeastNumber ==
  ASSUME NEW S \in SUBSET Nat, S # {}
  PROVE  \E m \in S : \A j \in S : m <= j
<1> DEFINE I == {0..n : n \in S}
           R == StrictSubsetOrdering(Nat)
<1>1. I \subseteq FiniteSubsetsOf(Nat) /\ I # {}
  <2>1. \A n \in S : IsFiniteSet(0..n) /\ (0..n) \subseteq Nat
    BY FS_Interval
  <2> QED BY <2>1 DEF FiniteSubsetsOf
<1>2. IsWellFoundedOn(R, FiniteSubsetsOf(Nat))
  BY FS_StrictSubsetOrderingWellFounded
<1> HIDE DEF R
<1>3. PICK x \in I : \A y \in I : <<y, x>> \notin R
  BY <1>1, <1>2, WFMin
<1>4. PICK m \in S : x = 0..m
  OBVIOUS
<1>5. ASSUME NEW j \in S, j < m PROVE FALSE
  <2>1. (0..j) \subseteq Nat /\ (0..m) \subseteq Nat
        /\ (0..j) \subseteq (0..m) /\ m \in (0..m) /\ m \notin (0..j)
    BY <1>5
  <2>2. <<0..j, 0..m>> \in R
    BY <2>1 DEF R, StrictSubsetOrdering
  <2> QED BY <1>3, <1>4, <2>2
<1> QED BY <1>5

(* The first n of some sequences, one after the other.                     *)
Partials(seqs, n, f) == f = [i \in 1..n |-> IF i = 1 THEN seqs[i] ELSE f[i - 1] \o seqs[i]]

(* There is a function that gives the sequences put together so far.       *)
LEMMA PrefixesExist ==
  ASSUME NEW seqs, NEW n \in Nat
  PROVE  \E f : Partials(seqs, n, f)
<1> DEFINE Bad == {m \in 0..n : ~ \E f : Partials(seqs, m, f)}
<1> SUFFICES ASSUME Bad # {} PROVE FALSE
  OBVIOUS
<1>1. PICK m \in Bad : \A j \in Bad : m <= j
  <2>1. Bad \in SUBSET Nat
    OBVIOUS
  <2> QED BY <2>1, LeastNumber
<1>2. m \in 0..n /\ m \in Nat /\ ~ \E f : Partials(seqs, m, f)
  OBVIOUS
<1>3. CASE m = 0
  <2>1. Partials(seqs, m, [i \in 1..m |-> seqs[i]])
    <3>1. 1..m = {}
      BY <1>3
    <3> QED BY <3>1 DEF Partials
  <2> QED BY <1>2, <2>1
<1>4. CASE m # 0
  <2>1. m - 1 \in 0..n /\ m - 1 \notin Bad
    BY <1>1, <1>2, <1>4
  <2>2. PICK f : Partials(seqs, m - 1, f)
    BY <2>1
  <2> DEFINE g == [i \in 1..m |-> IF i = 1 THEN seqs[i] ELSE f[i - 1] \o seqs[i]]
  <2>3. \A i \in 1..(m - 1) : f[i] = IF i = 1 THEN seqs[i] ELSE f[i - 1] \o seqs[i]
    BY <2>2 DEF Partials
  <2>4. ASSUME NEW i \in 1..(m - 1) PROVE g[i] = f[i]
    <3>1. i \in 1..m
      BY <1>2
    <3>2. g[i] = IF i = 1 THEN seqs[i] ELSE f[i - 1] \o seqs[i]
      BY <3>1
    <3> QED BY <2>3, <3>2
  <2>5. ASSUME NEW i \in 1..m, i # 1 PROVE g[i - 1] = f[i - 1]
    <3>1. i - 1 \in 1..(m - 1)
      BY <1>2, <2>5
    <3> QED BY <2>4, <3>1
  <2>6. \A i \in 1..m : g[i] = IF i = 1 THEN seqs[i] ELSE g[i - 1] \o seqs[i]
    BY <2>5
  <2>7. g = [i \in 1..m |-> g[i]]
    OBVIOUS
  <2> HIDE DEF g
  <2>8. Partials(seqs, m, g)
    BY <2>6, <2>7 DEF Partials
  <2> QED BY <1>2, <2>8
<1> QED BY <1>3, <1>4

(* FlattenSeq is the last of its values.                                   *)
LEMMA FlattenUnfolds ==
  ASSUME NEW seqs, Len(seqs) \in Nat \ {0}
  PROVE  \E f : Partials(seqs, Len(seqs), f) /\ FlattenSeq(seqs) = f[Len(seqs)]
<1> DEFINE n == Len(seqs)
           g == CHOOSE f : f = [i \in 1..n |-> IF i = 1 THEN seqs[i] ELSE f[i - 1] \o seqs[i]]
<1>1. FlattenSeq(seqs) = g[n]
  BY DEF FlattenSeq
<1>2. PICK f : Partials(seqs, n, f)
  BY PrefixesExist
<1>3. f = [i \in 1..n |-> IF i = 1 THEN seqs[i] ELSE f[i - 1] \o seqs[i]]
  BY <1>2 DEF Partials
<1>4. g = [i \in 1..n |-> IF i = 1 THEN seqs[i] ELSE g[i - 1] \o seqs[i]]
  BY <1>3, Zenon
<1>5. Partials(seqs, n, g)
  BY <1>4, Zenon DEF Partials
<1> HIDE DEF g
<1> QED BY <1>1, <1>5

(* No sequences put together are the empty one.                            *)
LEMMA FlattenNone == FlattenSeq(<<>>) = <<>>
  BY DEF FlattenSeq

(* Sequences put together are one of the same elements.                    *)
LEMMA FlattenIsSeq ==
  ASSUME NEW S, NEW seqs \in Seq(Seq(S))
  PROVE  FlattenSeq(seqs) \in Seq(S)
<1> DEFINE n == Len(seqs)
<1>1. CASE n = 0
  <2>1. seqs = <<>>
    BY <1>1
  <2> QED BY <2>1, FlattenNone, EmptySeq
<1>2. CASE n # 0
  <2>0. n \in Nat \ {0} /\ \A i \in 1..n : seqs[i] \in Seq(S)
    BY <1>2
  <2>1. PICK f : Partials(seqs, n, f) /\ FlattenSeq(seqs) = f[n]
    BY <2>0, FlattenUnfolds
  <2>2. \A i \in 1..n : f[i] = IF i = 1 THEN seqs[i] ELSE f[i - 1] \o seqs[i]
    BY <2>1 DEF Partials
  <2> HIDE DEF n
  <2> DEFINE Bad == {i \in 1..n : f[i] \notin Seq(S)}
  <2>3. ASSUME Bad # {} PROVE FALSE
    <3>1. PICK k \in Bad : \A j \in Bad : k <= j
      <4>1. Bad \in SUBSET Nat
        OBVIOUS
      <4> QED BY <2>3, <4>1, LeastNumber
    <3>2. k \in 1..n /\ f[k] \notin Seq(S)
      OBVIOUS
    <3>3. k # 1
      BY <2>0, <2>2, <3>2
    <3>4. k - 1 \in 1..n /\ k - 1 \notin Bad
      BY <2>0, <3>1, <3>2, <3>3
    <3>5. f[k - 1] \in Seq(S)
      BY <3>4
    <3>6. f[k] = f[k - 1] \o seqs[k] /\ seqs[k] \in Seq(S)
      BY <2>0, <2>2, <3>2, <3>3
    <3>7. f[k - 1] \o seqs[k] \in Seq(S)
      BY <3>5, <3>6, ConcatProperties
    <3> QED BY <3>2, <3>6, <3>7
  <2> QED BY <2>0, <2>1, <2>3
<1> QED BY <1>1, <1>2

(* One sequence more comes last.                                           *)
LEMMA FlattenAppend ==
  ASSUME NEW S, NEW seqs \in Seq(Seq(S)), NEW s \in Seq(S)
  PROVE  FlattenSeq(Append(seqs, s)) = FlattenSeq(seqs) \o s
<1> DEFINE n == Len(seqs)
           all == Append(seqs, s)
<1>1. /\ n \in Nat /\ all \in Seq(Seq(S)) /\ Len(all) = n + 1 /\ all[n + 1] = s
      /\ \A i \in 1..n : all[i] = seqs[i]
  BY AppendProperties
<1> HIDE DEF all
<1>2. PICK g : Partials(all, n + 1, g) /\ FlattenSeq(all) = g[n + 1]
  <2>1. Len(all) \in Nat \ {0}
    BY <1>1
  <2>2. PICK g : Partials(all, Len(all), g) /\ FlattenSeq(all) = g[Len(all)]
    BY <2>1, FlattenUnfolds
  <2> QED BY <1>1, <2>2
<1>3. \A i \in 1..(n + 1) : g[i] = IF i = 1 THEN all[i] ELSE g[i - 1] \o all[i]
  BY <1>2 DEF Partials
<1>4. CASE n = 0
  <2>1. seqs = <<>>
    BY <1>4
  <2>2. g[1] = s
    BY <1>1, <1>3, <1>4
  <2> QED BY <1>2, <1>4, <2>1, <2>2, FlattenNone, ConcatEmptySeq DEF all
<1>5. CASE n # 0
  <2>1. PICK f : Partials(seqs, n, f) /\ FlattenSeq(seqs) = f[n]
    BY <1>1, <1>5, FlattenUnfolds
  <2>2. \A i \in 1..n : f[i] = IF i = 1 THEN seqs[i] ELSE f[i - 1] \o seqs[i]
    BY <2>1 DEF Partials
  <2> HIDE DEF n
  <2> DEFINE Bad == {i \in 1..n : f[i] # g[i]}
  <2>3. ASSUME Bad # {} PROVE FALSE
    <3>1. PICK k \in Bad : \A j \in Bad : k <= j
      <4>1. Bad \in SUBSET Nat
        OBVIOUS
      <4> QED BY <2>3, <4>1, LeastNumber
    <3>2. k \in 1..n /\ f[k] # g[k] /\ k \in 1..(n + 1)
      BY <1>1
    <3>3. k # 1
      BY <1>1, <1>3, <2>2, <3>2
    <3>4. k - 1 \in 1..n /\ k - 1 \notin Bad
      BY <1>1, <3>1, <3>2, <3>3
    <3>5. f[k - 1] = g[k - 1] /\ all[k] = seqs[k]
      BY <1>1, <3>2, <3>4
    <3>6. f[k] = f[k - 1] \o seqs[k] /\ g[k] = g[k - 1] \o all[k]
      BY <1>3, <2>2, <3>2, <3>3
    <3> QED BY <3>2, <3>5, <3>6
  <2>4. n \in 1..n /\ n + 1 \in 1..(n + 1) /\ (n + 1) - 1 = n /\ n + 1 # 1
    BY <1>1, <1>5
  <2>5. f[n] = g[n]
    BY <2>3, <2>4
  <2>6. g[n + 1] = g[n] \o s
    BY <1>1, <1>3, <2>4
  <2> QED BY <1>2, <2>1, <2>5, <2>6 DEF all
<1> QED BY <1>4, <1>5

(* Two lists of sequences put together are put together one after the      *)
(* other.                                                                  *)
LEMMA FlattenConcat ==
  ASSUME NEW S, NEW seqs \in Seq(Seq(S)), NEW more \in Seq(Seq(S))
  PROVE  FlattenSeq(seqs \o more) = FlattenSeq(seqs) \o FlattenSeq(more)
<1> DEFINE n == Len(more)
           part(k) == SubSeq(more, 1, k)
           Bad == {k \in 0..n : FlattenSeq(seqs \o part(k)) # FlattenSeq(seqs) \o FlattenSeq(part(k))}
<1>1. n \in Nat /\ FlattenSeq(seqs) \in Seq(S)
  BY FlattenIsSeq
<1>2. \A k \in 0..n : part(k) \in Seq(Seq(S))
  <2> TAKE k \in 0..n
  <2>1. \A i \in 1..k : more[i] \in Seq(S)
    OBVIOUS
  <2> QED BY <2>1, SubSeqProperties
<1>3. FlattenSeq(seqs \o part(0)) = FlattenSeq(seqs) \o FlattenSeq(part(0))
  <2>1. part(0) = <<>>
    BY SubSeqEmpty
  <2> HIDE DEF part
  <2> QED BY <1>1, <2>1, FlattenNone, ConcatEmptySeq
<1>4. \A k \in 1..n : part(k) = Append(part(k - 1), more[k]) /\ more[k] \in Seq(S)
  <2> TAKE k \in 1..n
  <2>1. part(k) = SubSeq(more, 1, k - 1) \o <<more[k]>>
    <3>1. 1 \in 1..Len(more) /\ k \in 1..Len(more)
      BY <1>1
    <3> QED BY <3>1, SubSeqRecursiveSecond
  <2>2. more[k] \in Seq(S) /\ k - 1 \in 0..n
    BY <1>1
  <2>3. Append(part(k - 1), more[k]) = part(k - 1) \o <<more[k]>>
    BY <1>2, <2>2, AppendIsConcat
  <2> QED BY <2>1, <2>2, <2>3
<1> HIDE DEF part
<1>5. ASSUME Bad # {} PROVE FALSE
  <2>1. PICK k \in Bad : \A j \in Bad : k <= j
    <3>1. Bad \in SUBSET Nat
      BY <1>1
    <3> QED BY <1>5, <3>1, LeastNumber
  <2>2. /\ k \in 0..n
        /\ FlattenSeq(seqs \o part(k)) # FlattenSeq(seqs) \o FlattenSeq(part(k))
    OBVIOUS
  <2>3. k # 0
    BY <1>3, <2>2
  <2>4. k \in 1..n /\ k - 1 \in 0..n /\ k - 1 \notin Bad
    <3>1. n \in Nat /\ k \in 0..n /\ k # 0
      BY <1>1, <2>2, <2>3
    <3> HIDE DEF n, Bad
    <3>2. k \in 1..n /\ k - 1 \in 0..n /\ ~(k <= k - 1)
      BY ONLY <3>1
    <3> QED BY ONLY <2>1, <3>2
  <2>5. FlattenSeq(seqs \o part(k - 1)) = FlattenSeq(seqs) \o FlattenSeq(part(k - 1))
    BY <2>4
  <2> DEFINE p == part(k - 1)
             x == more[k]
  <2>6. p \in Seq(Seq(S)) /\ x \in Seq(S) /\ part(k) = Append(p, x)
    BY <1>2, <1>4, <2>4
  <2> HIDE DEF p, x
  <2>7. /\ seqs \o Append(p, x) = Append(seqs \o p, x)
        /\ seqs \o p \in Seq(Seq(S))
    <3>1. Append(p, x) = p \o <<x>> /\ <<x>> \in Seq(Seq(S))
      BY <2>6, AppendIsConcat
    <3>2. seqs \o p \in Seq(Seq(S)) /\ Append(seqs \o p, x) = (seqs \o p) \o <<x>>
      BY <2>6, ConcatProperties, AppendIsConcat
    <3>3. seqs \in Seq(Seq(S)) /\ p \in Seq(Seq(S)) /\ <<x>> \in Seq(Seq(S))
      BY <1>1, <2>6, <3>1
    <3>4. (seqs \o p) \o <<x>> = seqs \o (p \o <<x>>)
      <4> DEFINE T == Seq(S)
                 y == <<x>>
      <4>1. seqs \in Seq(T) /\ p \in Seq(T) /\ y \in Seq(T)
        BY <3>3
      <4> HIDE DEF T, y
      <4>2. (seqs \o p) \o y = seqs \o (p \o y)
        BY ONLY <4>1
      <4> QED BY ONLY <4>2 DEF y
    <3> QED BY ONLY <3>1, <3>2, <3>4
  <2>8. FlattenSeq(Append(seqs \o p, x)) = FlattenSeq(seqs \o p) \o x
    BY <2>6, <2>7, FlattenAppend
  <2>9. FlattenSeq(Append(p, x)) = FlattenSeq(p) \o x /\ FlattenSeq(p) \in Seq(S)
    BY <2>6, FlattenAppend, FlattenIsSeq
  <2>10. (FlattenSeq(seqs) \o FlattenSeq(p)) \o x = FlattenSeq(seqs) \o (FlattenSeq(p) \o x)
    <3>1. FlattenSeq(seqs) \in Seq(S) /\ FlattenSeq(p) \in Seq(S) /\ x \in Seq(S)
      BY <1>1, <2>6, <2>9
    <3> DEFINE a == FlattenSeq(seqs)
               b == FlattenSeq(p)
    <3>2. a \in Seq(S) /\ b \in Seq(S) /\ x \in Seq(S)
      BY <3>1
    <3> HIDE DEF a, b
    <3>3. (a \o b) \o x = a \o (b \o x)
      BY ONLY <3>2
    <3> QED BY <3>3 DEF a, b
  <2> QED BY <2>2, <2>5, <2>6, <2>7, <2>8, <2>9, <2>10 DEF p
<1>6. n \in 0..n /\ part(n) = more
  BY <1>1, SubSeqFull DEF part
<1> QED BY <1>5, <1>6

(* One sequence is itself.                                                 *)
LEMMA FlattenOne ==
  ASSUME NEW S, NEW s \in Seq(S)
  PROVE  FlattenSeq(<<s>>) = s
<1>1. <<>> \in Seq(Seq(S)) /\ Append(<<>>, s) = <<s>>
  OBVIOUS
<1>2. FlattenSeq(Append(<<>>, s)) = FlattenSeq(<<>>) \o s
  BY <1>1, FlattenAppend
<1>3. <<>> \o s = s
  BY ConcatEmptySeq
<1> QED BY <1>1, <1>2, <1>3, FlattenNone

-----------------------------------------------------------------------------
(* Words, of some calls                                                    *)

WordsOf(cs, id, n) == [i \in 1..(cs[id].count - n) |-> <<id, n + i>>]
One(cs, w)         == IF cs[w[1]].kind \in Reads THEN <<w>> ELSE <<>>
Answers(cs, data)  == FlattenSeq([i \in DOMAIN data |-> One(cs, data[i])])
Waited(cs, ids)    == FlattenSeq([i \in DOMAIN ids |-> WordsOf(cs, ids[i], 0)])
Flying(cs, cmds)   == FlattenSeq([i \in DOMAIN cmds |-> Answers(cs, cmds[i].data)])

(* Their words are issued already.                                         *)
Known(cs, data) == \A i \in DOMAIN data : data[i][1] \in 1..Len(cs)

(* Two sequences one after the other, element by element.                  *)
LEMMA OneAfterOther ==
  ASSUME NEW T, NEW a \in Seq(T), NEW b \in Seq(T), NEW c \in Seq(T), Len(c) = Len(a) + Len(b),
         \A i \in 1..Len(a) : c[i] = a[i],
         \A i \in 1..Len(b) : c[Len(a) + i] = b[i]
  PROVE  c = a \o b
<1>1. /\ a \o b \in Seq(T) /\ Len(a \o b) = Len(a) + Len(b)
      /\ \A i \in 1..(Len(a) + Len(b)) :
           (a \o b)[i] = IF i <= Len(a) THEN a[i] ELSE b[i - Len(a)]
  BY ConcatProperties
<1>2. ASSUME NEW i \in 1..Len(c) PROVE c[i] = (a \o b)[i]
  <2>1. CASE i <= Len(a)
    BY <1>1, <2>1
  <2>2. CASE ~(i <= Len(a))
    <3>1. i - Len(a) \in 1..Len(b) /\ Len(a) + (i - Len(a)) = i
      BY <2>2
    <3>2. c[i] = b[i - Len(a)]
      BY <3>1
    <3> QED BY <1>1, <2>2, <3>2
  <2> QED BY <2>1, <2>2
<1> QED BY <1>1, <1>2, SeqEqual

(* The elements of two lists, and their places.                            *)
LEMMA TwoLists ==
  ASSUME NEW S, NEW d \in Seq(S), NEW e \in Seq(S), NEW c, c = d \o e
  PROVE  /\ c \in Seq(S) /\ Len(c) = Len(d) + Len(e)
         /\ \A i \in 1..Len(d) : c[i] = d[i] /\ i \in 1..Len(c)
         /\ \A i \in 1..Len(e) : c[Len(d) + i] = e[i] /\ Len(d) + i \in 1..Len(c)
<1>1. /\ c \in Seq(S) /\ Len(c) = Len(d) + Len(e)
      /\ \A i \in 1..(Len(d) + Len(e)) : c[i] = IF i <= Len(d) THEN d[i] ELSE e[i - Len(d)]
  BY ConcatProperties
<1>2. Len(d) \in Nat /\ Len(e) \in Nat
  OBVIOUS
<1>3. ASSUME NEW i \in 1..Len(d) PROVE c[i] = d[i] /\ i \in 1..Len(c)
  BY <1>1, <1>2
<1>4. ASSUME NEW i \in 1..Len(e) PROVE c[Len(d) + i] = e[i] /\ Len(d) + i \in 1..Len(c)
  <2>1. /\ Len(d) + i \in 1..(Len(d) + Len(e)) /\ ~(Len(d) + i <= Len(d))
        /\ (Len(d) + i) - Len(d) = i
    BY <1>2
  <2> QED BY <1>1, <1>2, <2>1
<1> QED BY <1>1, <1>3, <1>4

(* ... of sequences, and then all put together.                            *)
LEMMA FlattenBoth ==
  ASSUME NEW T, NEW a \in Seq(Seq(T)), NEW b \in Seq(Seq(T)), NEW c \in Seq(Seq(T)),
         Len(c) = Len(a) + Len(b),
         \A i \in 1..Len(a) : c[i] = a[i],
         \A i \in 1..Len(b) : c[Len(a) + i] = b[i]
  PROVE  FlattenSeq(c) = FlattenSeq(a) \o FlattenSeq(b)
<1>1. c = a \o b
  BY OneAfterOther
<1> QED BY <1>1, FlattenConcat

(* What a packet is answered with.                                         *)
LEMMA AnswersIsSeq ==
  ASSUME NEW cs, NEW data \in Seq(Places)
  PROVE  Answers(cs, data) \in Seq(Places)
<1>1. [i \in DOMAIN data |-> One(cs, data[i])] \in Seq(Seq(Places))
  <2>1. \A i \in 1..Len(data) : One(cs, data[i]) \in Seq(Places)
    <3> TAKE i \in 1..Len(data)
    <3>1. data[i] \in Places
      OBVIOUS
    <3> QED BY <3>1 DEF One
  <2> QED BY <2>1
<1> QED BY <1>1, FlattenIsSeq DEF Answers

(* The words read of two lists are those of one and then of the other.     *)
LEMMA AnswersConcat ==
  ASSUME NEW cs, NEW d \in Seq(Places), NEW e \in Seq(Places)
  PROVE  Answers(cs, d \o e) = Answers(cs, d) \o Answers(cs, e)
<1> DEFINE m(s) == [i \in DOMAIN s |-> One(cs, s[i])]
           c == d \o e
<1>1. ASSUME NEW s \in Seq(Places)
      PROVE  /\ m(s) \in Seq(Seq(Places)) /\ Len(m(s)) = Len(s)
             /\ \A i \in 1..Len(s) : m(s)[i] = One(cs, s[i])
             /\ Answers(cs, s) = FlattenSeq(m(s))
  <2>1. \A i \in 1..Len(s) : One(cs, s[i]) \in Seq(Places)
    <3> TAKE i \in 1..Len(s)
    <3>1. s[i] \in Places
      OBVIOUS
    <3> QED BY <3>1 DEF One
  <2>2. Answers(cs, s) = FlattenSeq(m(s))
    BY DEF Answers
  <2>3. m(s) \in Seq(Seq(Places)) /\ Len(m(s)) = Len(s)
        /\ \A i \in 1..Len(s) : m(s)[i] = One(cs, s[i])
    <3>1. Len(s) \in Nat /\ m(s) = [i \in 1..Len(s) |-> One(cs, s[i])]
      OBVIOUS
    <3> HIDE DEF m
    <3> QED BY ONLY <2>1, <3>1
  <2> QED BY ONLY <2>2, <2>3
<1>2. /\ c \in Seq(Places) /\ Len(c) = Len(d) + Len(e) /\ c = d \o e
      /\ \A i \in 1..Len(d) : c[i] = d[i] /\ i \in 1..Len(c)
      /\ \A i \in 1..Len(e) : c[Len(d) + i] = e[i] /\ Len(d) + i \in 1..Len(c)
  BY TwoLists
<1> HIDE DEF m, c
<1>3. FlattenSeq(m(c)) = FlattenSeq(m(d)) \o FlattenSeq(m(e))
  <2>1. /\ m(c) \in Seq(Seq(Places)) /\ m(d) \in Seq(Seq(Places)) /\ m(e) \in Seq(Seq(Places))
        /\ Len(m(c)) = Len(m(d)) + Len(m(e)) /\ Len(m(d)) = Len(d) /\ Len(m(e)) = Len(e)
    BY <1>1, <1>2
  <2>2. \A i \in 1..Len(d) : m(c)[i] = m(d)[i]
    BY <1>1, <1>2
  <2>3. ASSUME NEW i \in 1..Len(e) PROVE m(c)[Len(d) + i] = m(e)[i]
    <3>1. c[Len(d) + i] = e[i] /\ Len(d) + i \in 1..Len(c)
      BY <1>2
    <3> HIDE DEF m, c
    <3> QED BY <1>1, <1>2, <3>1
  <2>4. /\ \A i \in 1..Len(m(d)) : m(c)[i] = m(d)[i]
        /\ \A i \in 1..Len(m(e)) : m(c)[Len(m(d)) + i] = m(e)[i]
    BY <2>1, <2>2, <2>3
  <2> QED BY <2>1, <2>4, FlattenBoth
<1> QED BY <1>1, <1>2, <1>3

(* Writes are answered with no word.                                       *)
LEMMA AnswersNone ==
  ASSUME NEW cs, NEW data \in Seq(Places),
         \A i \in 1..Len(data) : cs[data[i][1]].kind \notin Reads
  PROVE  Answers(cs, data) = <<>>
<1> DEFINE n == Len(data)
           part(k) == SubSeq(data, 1, k)
           Bad == {k \in 0..n : Answers(cs, part(k)) # <<>>}
<1>1. n \in Nat /\ \A k \in 0..n : part(k) \in Seq(Places)
  OBVIOUS
<1>2. Answers(cs, part(0)) = <<>>
  <2>1. part(0) = <<>>
    BY SubSeqEmpty
  <2>2. Answers(cs, <<>>) = <<>>
    <3>1. [i \in DOMAIN <<>> |-> One(cs, <<>>[i])] = <<>>
      OBVIOUS
    <3> QED BY <3>1, FlattenNone DEF Answers
  <2> QED BY <2>1, <2>2
<1>3. ASSUME NEW k \in 1..n PROVE Answers(cs, part(k)) = Answers(cs, part(k - 1)) \o One(cs, data[k])
  <2>1. part(k) = part(k - 1) \o <<data[k]>> /\ part(k - 1) \in Seq(Places) /\ data[k] \in Places
    <3>1. 1 \in 1..Len(data) /\ k \in 1..Len(data) /\ k - 1 \in 0..n
      BY <1>1
    <3>2. SubSeq(data, 1, k) = SubSeq(data, 1, k - 1) \o <<data[k]>>
      BY <3>1, SubSeqRecursiveSecond
    <3>3. part(k - 1) \in Seq(Places)
      BY <1>1, <3>1
    <3>4. data[k] \in Places
      BY <3>1
    <3> QED BY <3>2, <3>3, <3>4
  <2> HIDE DEF part
  <2>2. <<data[k]>> \in Seq(Places)
    BY <2>1
  <2>3. Answers(cs, part(k)) = Answers(cs, part(k - 1)) \o Answers(cs, <<data[k]>>)
    BY <2>1, <2>2, AnswersConcat
  <2>4. Answers(cs, <<data[k]>>) = One(cs, data[k])
    <3>1. [i \in DOMAIN <<data[k]>> |-> One(cs, <<data[k]>>[i])] = <<One(cs, data[k])>>
      OBVIOUS
    <3>2. One(cs, data[k]) \in Seq(Places)
      BY <2>1 DEF One
    <3> QED BY <3>1, <3>2, FlattenOne DEF Answers
  <2> QED BY <2>3, <2>4
<1> HIDE DEF part
<1>4. ASSUME Bad # {} PROVE FALSE
  <2>1. PICK k \in Bad : \A j \in Bad : k <= j
    <3>1. Bad \in SUBSET Nat
      BY <1>1
    <3> QED BY <1>4, <3>1, LeastNumber
  <2>2. k \in 1..n /\ k - 1 \in 0..n /\ k - 1 \notin Bad /\ Answers(cs, part(k)) # <<>>
    BY <1>1, <1>2, <2>1
  <2>3. Answers(cs, part(k - 1)) = <<>> /\ One(cs, data[k]) = <<>>
    BY <2>2 DEF One
  <2> QED BY <1>3, <2>2, <2>3
<1>5. n \in 0..n /\ part(n) = data
  BY <1>1, SubSeqFull DEF part
<1> QED BY <1>4, <1>5

(* Reads are answered with every word.                                     *)
LEMMA AnswersAll ==
  ASSUME NEW cs, NEW data \in Seq(Places),
         \A i \in 1..Len(data) : cs[data[i][1]].kind \in Reads
  PROVE  Answers(cs, data) = data
<1> DEFINE n == Len(data)
           part(k) == SubSeq(data, 1, k)
           Bad == {k \in 0..n : Answers(cs, part(k)) # part(k)}
<1>1. n \in Nat /\ \A k \in 0..n : part(k) \in Seq(Places)
  OBVIOUS
<1>2. Answers(cs, part(0)) = part(0)
  <2>1. part(0) = <<>>
    BY SubSeqEmpty
  <2>2. Answers(cs, <<>>) = <<>>
    <3>1. [i \in DOMAIN <<>> |-> One(cs, <<>>[i])] = <<>>
      OBVIOUS
    <3> QED BY <3>1, FlattenNone DEF Answers
  <2> QED BY <2>1, <2>2
<1>3. ASSUME NEW k \in 1..n
      PROVE  /\ part(k) = part(k - 1) \o <<data[k]>>
             /\ Answers(cs, part(k)) = Answers(cs, part(k - 1)) \o <<data[k]>>
  <2>1. part(k) = part(k - 1) \o <<data[k]>> /\ part(k - 1) \in Seq(Places) /\ data[k] \in Places
    <3>1. 1 \in 1..Len(data) /\ k \in 1..Len(data) /\ k - 1 \in 0..n
      BY <1>1
    <3>2. SubSeq(data, 1, k) = SubSeq(data, 1, k - 1) \o <<data[k]>>
      BY <3>1, SubSeqRecursiveSecond
    <3>3. part(k - 1) \in Seq(Places)
      BY <1>1, <3>1
    <3>4. data[k] \in Places
      BY <3>1
    <3> QED BY <3>2, <3>3, <3>4
  <2> HIDE DEF part
  <2>2. <<data[k]>> \in Seq(Places)
    BY <2>1
  <2>3. Answers(cs, part(k)) = Answers(cs, part(k - 1)) \o Answers(cs, <<data[k]>>)
    BY <2>1, <2>2, AnswersConcat
  <2>4. Answers(cs, <<data[k]>>) = <<data[k]>>
    <3>1. [i \in DOMAIN <<data[k]>> |-> One(cs, <<data[k]>>[i])] = <<<<data[k]>>>>
      BY DEF One
    <3> QED BY <2>2, <3>1, FlattenOne DEF Answers
  <2> QED BY <2>1, <2>3, <2>4
<1> HIDE DEF part
<1>4. ASSUME Bad # {} PROVE FALSE
  <2>1. PICK k \in Bad : \A j \in Bad : k <= j
    <3>1. Bad \in SUBSET Nat
      BY <1>1
    <3> QED BY <1>4, <3>1, LeastNumber
  <2>2. k \in 1..n /\ k - 1 \in 0..n /\ k - 1 \notin Bad /\ Answers(cs, part(k)) # part(k)
    BY <1>1, <1>2, <2>1
  <2>3. Answers(cs, part(k - 1)) = part(k - 1)
    BY <2>2
  <2> QED BY <1>3, <2>2, <2>3
<1>5. n \in 0..n /\ part(n) = data
  BY <1>1, SubSeqFull DEF part
<1> QED BY <1>4, <1>5

(* A call that is issued later changes none of them.                       *)
LEMMA IssuedLater ==
  ASSUME NEW cs \in Seq(Calls), NEW c \in Calls, NEW id \in 1..Len(cs)
  PROVE  Append(cs, c)[id] = cs[id]
  OBVIOUS

(* A new access does not change what the others read.                      *)
LEMMA AnswersStay ==
  ASSUME NEW cs \in Seq(Calls), NEW c \in Calls, NEW data \in Seq(Places), Known(cs, data)
  PROVE  Answers(Append(cs, c), data) = Answers(cs, data)
<1>1. \A i \in DOMAIN data : One(Append(cs, c), data[i]) = One(cs, data[i])
  BY IssuedLater DEF Known, One
<1> QED BY <1>1 DEF Answers

(* ... nor what is waited for.                                             *)
LEMMA WaitedStays ==
  ASSUME NEW cs \in Seq(Calls), NEW c \in Calls, NEW ids \in Seq(1..Len(cs))
  PROVE  Waited(Append(cs, c), ids) = Waited(cs, ids)
<1>1. \A i \in DOMAIN ids : WordsOf(Append(cs, c), ids[i], 0) = WordsOf(cs, ids[i], 0)
  <2> TAKE i \in DOMAIN ids
  <2>1. ids[i] \in 1..Len(cs)
    OBVIOUS
  <2> QED BY <2>1, IssuedLater DEF WordsOf
<1> QED BY <1>1 DEF Waited

(* ... nor what is in flight.                                              *)
LEMMA FlyingStays ==
  ASSUME NEW cs \in Seq(Calls), NEW c \in Calls, NEW cmds \in Seq(Packet),
         \A k \in DOMAIN cmds : Known(cs, cmds[k].data)
  PROVE  Flying(Append(cs, c), cmds) = Flying(cs, cmds)
<1>1. \A k \in DOMAIN cmds : Answers(Append(cs, c), cmds[k].data) = Answers(cs, cmds[k].data)
  <2> TAKE k \in DOMAIN cmds
  <2>1. cmds[k] \in Packet
    OBVIOUS
  <2>2. cmds[k].data \in Seq(Places)
    BY <2>1 DEF Packet
  <2> QED BY <2>2, AnswersStay
<1> QED BY <1>1 DEF Flying

(* The words that transfers wait for.                                      *)
LEMMA WordsOfIsSeq ==
  ASSUME NEW cs \in Seq(Calls), NEW id \in 1..Len(cs), NEW n \in Nat
  PROVE  /\ WordsOf(cs, id, n) \in Seq(Places)
         /\ Len(WordsOf(cs, id, n)) = IF n <= cs[id].count THEN cs[id].count - n ELSE 0
         /\ cs[id].count \in Nat
<1>1. cs[id] \in Calls /\ id \in Nat
  OBVIOUS
<1>2. cs[id].count \in Nat
  BY <1>1 DEF Calls
<1>3. \A i \in 1..(cs[id].count - n) : <<id, n + i>> \in Places
  BY <1>1, <1>2 DEF Places
<1> DEFINE j == IF n <= cs[id].count THEN cs[id].count - n ELSE 0
           f == WordsOf(cs, id, n)
<1>4. j \in Nat /\ 1..(cs[id].count - n) = 1..j
  BY <1>2
<1>5. f = [i \in 1..j |-> <<id, n + i>>]
  BY <1>4 DEF WordsOf
<1>6. \A i \in 1..j : <<id, n + i>> \in Places
  BY <1>3, <1>4
<1> HIDE DEF f, j
<1>7. f \in [1..j -> Places]
  BY <1>5, <1>6
<1>8. f \in Seq(Places) /\ Len(f) = j
  BY <1>4, <1>7
<1> QED BY <1>2, <1>8 DEF f, j

(* After its last word an access has none.                                 *)
LEMMA NoneAfterLast ==
  ASSUME NEW cs \in Seq(Calls), NEW id \in 1..Len(cs)
  PROVE  WordsOf(cs, id, cs[id].count) = <<>>
<1>1. cs[id] \in Calls
  OBVIOUS
<1>2. cs[id].count \in Nat
  BY <1>1 DEF Calls
<1>3. 1..(cs[id].count - cs[id].count) = {}
  BY <1>2
<1>4. WordsOf(cs, id, cs[id].count) = [i \in {} |-> <<id, cs[id].count + i>>]
  BY <1>3, Zenon DEF WordsOf
<1> QED BY <1>4

(* The words waited for are a sequence of words.                           *)
LEMMA WaitedIsSeq ==
  ASSUME NEW cs \in Seq(Calls), NEW ids \in Seq(1..Len(cs)),
         NEW m, m = [i \in DOMAIN ids |-> WordsOf(cs, ids[i], 0)]
  PROVE  /\ m \in Seq(Seq(Places)) /\ Len(m) = Len(ids)
         /\ \A i \in 1..Len(ids) : m[i] = WordsOf(cs, ids[i], 0)
         /\ Waited(cs, ids) = FlattenSeq(m)
         /\ Waited(cs, ids) \in Seq(Places)
<1>1. \A i \in 1..Len(ids) : WordsOf(cs, ids[i], 0) \in Seq(Places)
  <2> TAKE i \in 1..Len(ids)
  <2>1. ids[i] \in 1..Len(cs)
    OBVIOUS
  <2> QED BY <2>1, WordsOfIsSeq
<1>2. /\ m \in Seq(Seq(Places)) /\ Len(m) = Len(ids)
      /\ \A i \in 1..Len(ids) : m[i] = WordsOf(cs, ids[i], 0)
  BY <1>1
<1> QED BY <1>2, FlattenIsSeq DEF Waited

(* What two lists of transfers wait for.                                   *)
LEMMA WaitedConcat ==
  ASSUME NEW cs \in Seq(Calls), NEW d \in Seq(1..Len(cs)), NEW e \in Seq(1..Len(cs))
  PROVE  Waited(cs, d \o e) = Waited(cs, d) \o Waited(cs, e)
<1> DEFINE m(s) == [i \in DOMAIN s |-> WordsOf(cs, s[i], 0)]
           c == d \o e
<1>1. ASSUME NEW s \in Seq(1..Len(cs))
      PROVE  /\ m(s) \in Seq(Seq(Places)) /\ Len(m(s)) = Len(s)
             /\ \A i \in 1..Len(s) : m(s)[i] = WordsOf(cs, s[i], 0)
             /\ Waited(cs, s) = FlattenSeq(m(s))
  BY WaitedIsSeq
<1>2. /\ c \in Seq(1..Len(cs)) /\ Len(c) = Len(d) + Len(e) /\ c = d \o e
      /\ \A i \in 1..Len(d) : c[i] = d[i] /\ i \in 1..Len(c)
      /\ \A i \in 1..Len(e) : c[Len(d) + i] = e[i] /\ Len(d) + i \in 1..Len(c)
  BY TwoLists
<1> HIDE DEF m, c
<1>3. FlattenSeq(m(c)) = FlattenSeq(m(d)) \o FlattenSeq(m(e))
  <2>1. /\ m(c) \in Seq(Seq(Places)) /\ m(d) \in Seq(Seq(Places)) /\ m(e) \in Seq(Seq(Places))
        /\ Len(m(c)) = Len(m(d)) + Len(m(e)) /\ Len(m(d)) = Len(d) /\ Len(m(e)) = Len(e)
    BY <1>1, <1>2
  <2>2. \A i \in 1..Len(d) : m(c)[i] = m(d)[i]
    BY <1>1, <1>2
  <2>3. ASSUME NEW i \in 1..Len(e) PROVE m(c)[Len(d) + i] = m(e)[i]
    <3>1. c[Len(d) + i] = e[i] /\ Len(d) + i \in 1..Len(c)
      BY <1>2
    <3> HIDE DEF m, c
    <3> QED BY <1>1, <1>2, <3>1
  <2>4. /\ \A i \in 1..Len(m(d)) : m(c)[i] = m(d)[i]
        /\ \A i \in 1..Len(m(e)) : m(c)[Len(m(d)) + i] = m(e)[i]
    BY <2>1, <2>2, <2>3
  <2> QED BY <2>1, <2>4, FlattenBoth
<1> QED BY <1>1, <1>2, <1>3

(* One transfer waits for its words.                                       *)
LEMMA WaitedOne ==
  ASSUME NEW cs \in Seq(Calls), NEW id \in 1..Len(cs)
  PROVE  Waited(cs, <<id>>) = WordsOf(cs, id, 0)
<1>1. [i \in DOMAIN <<id>> |-> WordsOf(cs, <<id>>[i], 0)] = <<WordsOf(cs, id, 0)>>
  OBVIOUS
<1>2. WordsOf(cs, id, 0) \in Seq(Places)
  BY WordsOfIsSeq
<1> QED BY <1>1, <1>2, FlattenOne DEF Waited

(* No transfer waits for nothing.                                          *)
LEMMA WaitedNone ==
  ASSUME NEW cs
  PROVE  Waited(cs, <<>>) = <<>>
<1>1. [i \in DOMAIN <<>> |-> WordsOf(cs, <<>>[i], 0)] = <<>>
  OBVIOUS
<1> QED BY <1>1, FlattenNone DEF Waited

(* The words that are in flight.                                           *)
LEMMA FlyingIsSeq ==
  ASSUME NEW cs, NEW cmds \in Seq(Packet),
         NEW m, m = [i \in DOMAIN cmds |-> Answers(cs, cmds[i].data)]
  PROVE  /\ m \in Seq(Seq(Places)) /\ Len(m) = Len(cmds)
         /\ \A i \in 1..Len(cmds) : m[i] = Answers(cs, cmds[i].data)
         /\ Flying(cs, cmds) = FlattenSeq(m)
         /\ Flying(cs, cmds) \in Seq(Places)
<1>1. \A i \in 1..Len(cmds) : Answers(cs, cmds[i].data) \in Seq(Places)
  <2> TAKE i \in 1..Len(cmds)
  <2>1. cmds[i] \in Packet
    OBVIOUS
  <2>2. cmds[i].data \in Seq(Places)
    BY <2>1 DEF Packet
  <2> QED BY <2>2, AnswersIsSeq
<1>2. /\ m \in Seq(Seq(Places)) /\ Len(m) = Len(cmds)
      /\ \A i \in 1..Len(cmds) : m[i] = Answers(cs, cmds[i].data)
  BY <1>1
<1> QED BY <1>2, FlattenIsSeq DEF Flying

(* The words of two lists of packets.                                      *)
LEMMA FlyingConcat ==
  ASSUME NEW cs, NEW d \in Seq(Packet), NEW e \in Seq(Packet)
  PROVE  Flying(cs, d \o e) = Flying(cs, d) \o Flying(cs, e)
<1> DEFINE m(s) == [i \in DOMAIN s |-> Answers(cs, s[i].data)]
           c == d \o e
<1>1. ASSUME NEW s \in Seq(Packet)
      PROVE  /\ m(s) \in Seq(Seq(Places)) /\ Len(m(s)) = Len(s)
             /\ \A i \in 1..Len(s) : m(s)[i] = Answers(cs, s[i].data)
             /\ Flying(cs, s) = FlattenSeq(m(s))
  BY FlyingIsSeq
<1>2. /\ c \in Seq(Packet) /\ Len(c) = Len(d) + Len(e) /\ c = d \o e
      /\ \A i \in 1..Len(d) : c[i] = d[i] /\ i \in 1..Len(c)
      /\ \A i \in 1..Len(e) : c[Len(d) + i] = e[i] /\ Len(d) + i \in 1..Len(c)
  BY TwoLists
<1> HIDE DEF m, c
<1>3. FlattenSeq(m(c)) = FlattenSeq(m(d)) \o FlattenSeq(m(e))
  <2>1. /\ m(c) \in Seq(Seq(Places)) /\ m(d) \in Seq(Seq(Places)) /\ m(e) \in Seq(Seq(Places))
        /\ Len(m(c)) = Len(m(d)) + Len(m(e)) /\ Len(m(d)) = Len(d) /\ Len(m(e)) = Len(e)
    BY <1>1, <1>2
  <2>2. \A i \in 1..Len(d) : m(c)[i] = m(d)[i]
    BY <1>1, <1>2
  <2>3. ASSUME NEW i \in 1..Len(e) PROVE m(c)[Len(d) + i] = m(e)[i]
    <3>1. c[Len(d) + i] = e[i] /\ Len(d) + i \in 1..Len(c)
      BY <1>2
    <3> HIDE DEF m, c
    <3> QED BY <1>1, <1>2, <3>1
  <2>4. /\ \A i \in 1..Len(m(d)) : m(c)[i] = m(d)[i]
        /\ \A i \in 1..Len(m(e)) : m(c)[Len(m(d)) + i] = m(e)[i]
    BY <2>1, <2>2, <2>3
  <2> QED BY <2>1, <2>4, FlattenBoth
<1> QED BY <1>1, <1>2, <1>3

(* One packet flies with its words.                                        *)
LEMMA FlyingOne ==
  ASSUME NEW cs, NEW cmd \in Packet
  PROVE  Flying(cs, <<cmd>>) = Answers(cs, cmd.data)
<1>1. [i \in DOMAIN <<cmd>> |-> Answers(cs, <<cmd>>[i].data)] = <<Answers(cs, cmd.data)>>
  OBVIOUS
<1>2. Answers(cs, cmd.data) \in Seq(Places)
  BY AnswersIsSeq DEF Packet
<1> QED BY <1>1, <1>2, FlattenOne DEF Flying

(* Nothing flies when there is no packet.                                  *)
LEMMA FlyingNone ==
  ASSUME NEW cs
  PROVE  Flying(cs, <<>>) = <<>> /\ Answers(cs, <<>>) = <<>>
<1>1. /\ [i \in DOMAIN <<>> |-> Answers(cs, <<>>[i].data)] = <<>>
      /\ [i \in DOMAIN <<>> |-> One(cs, <<>>[i])] = <<>>
  OBVIOUS
<1> QED BY <1>1, FlattenNone DEF Flying, Answers

(* Of what is put together in two ways, the front is cut off ...           *)
TwoWays(S, a, c, h, m) ==
  /\ a \in Seq(S) /\ c \in Seq(S) /\ h \in Seq(S) /\ m \in Seq(S)
  /\ a \o c = h \o m /\ Len(a) <= Len(h)

(* Of one sequence cut in two ways, what is left of the longer front.      *)
LEMMA CutFront ==
  ASSUME NEW S, NEW a, NEW c, NEW h, NEW m, TwoWays(S, a, c, h, m)
  PROVE  /\ SubSeq(h, Len(a) + 1, Len(h)) \in Seq(S)
         /\ Len(SubSeq(h, Len(a) + 1, Len(h))) = Len(h) - Len(a)
         /\ SubSeq(h, Len(a) + 1, Len(h)) \o m = c
<1> a \in Seq(S) /\ c \in Seq(S) /\ h \in Seq(S) /\ m \in Seq(S)
    /\ a \o c = h \o m /\ Len(a) <= Len(h)
  BY DEF TwoWays
<1> DEFINE all == a \o c
           rest == SubSeq(h, Len(a) + 1, Len(h))
<1>1. /\ Len(a) \in Nat /\ Len(c) \in Nat /\ Len(h) \in Nat /\ Len(m) \in Nat
  OBVIOUS
<1>0. all = a \o c /\ all = h \o m /\ rest = SubSeq(h, Len(a) + 1, Len(h))
  OBVIOUS
<1> HIDE DEF all, rest
<1>2. Len(all) = Len(a) + Len(c) /\ \A i \in 1..Len(c) : all[Len(a) + i] = c[i]
  <2>1. all = a \o c
    BY <1>0
  <2> QED BY ONLY a \in Seq(S), c \in Seq(S), <2>1, TwoLists
<1>3. /\ Len(all) = Len(h) + Len(m)
      /\ \A i \in 1..Len(h) : all[i] = h[i]
      /\ \A i \in 1..Len(m) : all[Len(h) + i] = m[i]
  <2>1. all = h \o m
    BY <1>0
  <2> QED BY ONLY h \in Seq(S), m \in Seq(S), <2>1, TwoLists
<1>4. /\ rest \in Seq(S) /\ Len(rest) = Len(h) - Len(a)
      /\ \A i \in 1..Len(rest) : rest[i] = h[Len(a) + i]
  <2>1. \A i \in (Len(a) + 1)..Len(h) : h[i] \in S
    BY <1>1
  <2>2. Len(a) + 1 \in Int /\ Len(h) \in Int
    BY <1>1
  <2>3. /\ rest \in Seq(S)
        /\ Len(rest) = IF Len(a) + 1 <= Len(h) THEN Len(h) - (Len(a) + 1) + 1 ELSE 0
        /\ \A i \in 1..(Len(h) - (Len(a) + 1) + 1) : rest[i] = h[Len(a) + 1 + i - 1]
    BY <1>0, <2>1, <2>2, SubSeqProperties
  <2>4. Len(rest) = Len(h) - Len(a) /\ Len(h) - (Len(a) + 1) + 1 = Len(h) - Len(a)
    BY <1>1, <2>3
  <2>5. \A i \in 1..Len(rest) : Len(a) + 1 + i - 1 = Len(a) + i
    BY <1>1, <2>4
  <2> QED BY <2>3, <2>4, <2>5
<1>5. Len(c) = Len(rest) + Len(m)
  BY <1>1, <1>2, <1>3, <1>4
<1>6. ASSUME NEW i \in 1..Len(rest) PROVE c[i] = rest[i]
  <2>1. i \in 1..Len(c) /\ Len(a) + i \in 1..Len(h)
    BY <1>1, <1>4, <1>5
  <2> QED BY <1>2, <1>3, <1>4, <2>1
<1>7. ASSUME NEW i \in 1..Len(m) PROVE c[Len(rest) + i] = m[i]
  <2> DEFINE r == Len(rest)
             n == Len(a)
  <2>0. r = Len(h) - n /\ r \in Nat /\ n \in Nat /\ Len(c) = r + Len(m)
    <3>1. rest \in Seq(S) /\ Len(rest) \in Nat
      BY <1>4
    <3> QED BY ONLY <1>1, <1>4, <1>5, <3>1
  <2> HIDE DEF r, n
  <2>a. i \in Nat /\ i >= 1 /\ i <= Len(m)
    BY <1>1
  <2>b. Len(h) \in Nat /\ Len(m) \in Nat
    BY <1>1
  <2>1. r + i \in 1..Len(c) /\ n + (r + i) = Len(h) + i
    BY ONLY <2>0, <2>a, <2>b
  <2>2. c[r + i] = all[n + (r + i)]
    BY <1>2, <2>1 DEF n
  <2> QED BY <1>3, <2>1, <2>2 DEF r
<1>8. c = rest \o m
  BY <1>4, <1>5, <1>6, <1>7, OneAfterOther
<1> QED BY <1>4, <1>8 DEF rest

(* ... or a part in the middle.                                            *)
LEMMA CutMiddle ==
  ASSUME NEW S, NEW a \in Seq(S), NEW b \in Seq(S), NEW c \in Seq(S),
         NEW h \in Seq(S), NEW m \in Seq(S),
         (a \o b) \o c = h \o m, Len(a) + Len(b) <= Len(h)
  PROVE  SubSeq(h, Len(a) + 1, Len(a) + Len(b)) = b
<1> DEFINE ab  == a \o b
           all == ab \o c
           mid == SubSeq(h, Len(a) + 1, Len(a) + Len(b))
<1>1. /\ Len(a) \in Nat /\ Len(b) \in Nat /\ Len(h) \in Nat
  OBVIOUS
<1>2. /\ ab \in Seq(S) /\ Len(ab) = Len(a) + Len(b)
      /\ \A i \in 1..Len(b) : ab[Len(a) + i] = b[i]
  BY TwoLists
<1>3. all = h \o m
  OBVIOUS
<1> HIDE DEF ab
<1>4. \A i \in 1..Len(ab) : all[i] = ab[i]
  BY <1>2, TwoLists
<1> HIDE DEF all
<1>5. \A i \in 1..Len(h) : all[i] = h[i]
  BY <1>3, TwoLists
<1>6. /\ mid \in Seq(S) /\ Len(mid) = Len(b)
      /\ \A i \in 1..Len(b) : mid[i] = h[Len(a) + i]
  <2>1. \A i \in (Len(a) + 1)..(Len(a) + Len(b)) : h[i] \in S
    BY <1>1
  <2>2. Len(a) + 1 \in Int /\ Len(a) + Len(b) \in Int
    BY <1>1
  <2> HIDE DEF mid
  <2>3. /\ mid \in Seq(S)
        /\ Len(mid) = IF Len(a) + 1 <= Len(a) + Len(b) THEN Len(a) + Len(b) - (Len(a) + 1) + 1 ELSE 0
        /\ \A i \in 1..(Len(a) + Len(b) - (Len(a) + 1) + 1) : mid[i] = h[Len(a) + 1 + i - 1]
    BY <2>1, <2>2, SubSeqProperties DEF mid
  <2>4. Len(mid) = Len(b) /\ Len(a) + Len(b) - (Len(a) + 1) + 1 = Len(b)
    BY <1>1, <2>3
  <2>5. \A i \in 1..Len(b) : Len(a) + 1 + i - 1 = Len(a) + i
    BY <1>1
  <2> QED BY <2>3, <2>4, <2>5
<1> HIDE DEF mid
<1>7. ASSUME NEW i \in 1..Len(b) PROVE mid[i] = b[i]
  <2>1. Len(a) + i \in 1..Len(ab) /\ Len(a) + i \in 1..Len(h)
    BY <1>1, <1>2
  <2> QED BY <1>2, <1>4, <1>5, <1>6, <2>1
<1>8. mid = b
  BY <1>6, <1>7, SeqEqual
<1> QED BY <1>8 DEF mid

(* What the first n of some transfers wait for.                            *)
UpTo(cs, ids, n) == Waited(cs, SubSeq(ids, 1, n))

(* The first transfers wait for the first words.                           *)
LEMMA FirstWaited ==
  ASSUME NEW cs \in Seq(Calls), NEW ids \in Seq(1..Len(cs)), NEW n \in 0..Len(ids),
         NEW later, later = SubSeq(ids, n + 1, Len(ids))
  PROVE  /\ UpTo(cs, ids, n) \in Seq(Places)
         /\ later \in Seq(1..Len(cs)) /\ Waited(cs, later) \in Seq(Places)
         /\ Waited(cs, ids) = UpTo(cs, ids, n) \o Waited(cs, later)
         /\ n # 0 => UpTo(cs, ids, n) = UpTo(cs, ids, n - 1) \o WordsOf(cs, ids[n], 0)
         /\ UpTo(cs, ids, 0) = <<>>
<1> DEFINE N == 1..Len(cs)
           first(k) == SubSeq(ids, 1, k)
<1>0. Len(ids) \in Nat
  OBVIOUS
<1>1. \A k \in 0..Len(ids) : first(k) \in Seq(N)
  <2> TAKE k \in 0..Len(ids)
  <2>1. \A i \in 1..k : ids[i] \in N
    OBVIOUS
  <2> QED BY <2>1, SubSeqProperties
<1>2. later \in Seq(N)
  <2>1. \A i \in (n + 1)..Len(ids) : ids[i] \in N
    OBVIOUS
  <2> QED BY <1>0, <2>1, SubSeqProperties
<1>3. ids = first(n) \o later
  <2>1. 1 \in 1..(Len(ids) + 1) /\ n \in (1 - 1)..Len(ids) /\ Len(ids) \in n..Len(ids)
    BY <1>0
  <2>2. SubSeq(ids, 1, n) \o SubSeq(ids, n + 1, Len(ids)) = SubSeq(ids, 1, Len(ids))
    BY <2>1, ConcatAdjacentSubSeq
  <2> QED BY <2>2, SubSeqFull
<1>4. UpTo(cs, ids, n) \in Seq(Places) /\ Waited(cs, later) \in Seq(Places)
  BY <1>1, <1>2, WaitedIsSeq DEF UpTo
<1>5. Waited(cs, ids) = UpTo(cs, ids, n) \o Waited(cs, later)
  <2> HIDE DEF first
  <2>1. first(n) \in Seq(N)
    BY <1>1
  <2>2. Waited(cs, first(n) \o later) = Waited(cs, first(n)) \o Waited(cs, later)
    BY <1>2, <2>1, WaitedConcat
  <2> QED BY <1>3, <2>2 DEF UpTo, first
<1>6. ASSUME n # 0 PROVE UpTo(cs, ids, n) = UpTo(cs, ids, n - 1) \o WordsOf(cs, ids[n], 0)
  <2>1. 1 \in 1..Len(ids) /\ n \in 1..Len(ids) /\ n - 1 \in 0..Len(ids)
    BY <1>0, <1>6
  <2>2. SubSeq(ids, 1, n) = SubSeq(ids, 1, n - 1) \o <<ids[n]>>
    BY <2>1, SubSeqRecursiveSecond
  <2>3. ids[n] \in N /\ <<ids[n]>> \in Seq(N) /\ first(n - 1) \in Seq(N)
    BY <1>1, <2>1
  <2> HIDE DEF first
  <2>4. Waited(cs, first(n - 1) \o <<ids[n]>>) = Waited(cs, first(n - 1)) \o Waited(cs, <<ids[n]>>)
    BY <2>3, WaitedConcat
  <2>5. Waited(cs, <<ids[n]>>) = WordsOf(cs, ids[n], 0)
    BY <2>3, WaitedOne
  <2> QED BY <2>2, <2>4, <2>5 DEF UpTo, first
<1>7. UpTo(cs, ids, 0) = <<>>
  <2>1. SubSeq(ids, 1, 0) = <<>>
    BY SubSeqEmpty
  <2> QED BY <2>1, WaitedNone DEF UpTo
<1> QED BY <1>2, <1>4, <1>5, <1>6, <1>7

(* Of the words at hand, each transfer that is complete gets its own, and  *)
(* the rest is what the others wait for first.                             *)
LEMMA ServedWords ==
  ASSUME NEW cs \in Seq(Calls), NEW ids \in Seq(1..Len(cs)),
         NEW have \in Seq(Places), NEW more \in Seq(Places), Waited(cs, ids) = have \o more,
         NEW n \in 1..Len(ids), Len(UpTo(cs, ids, n)) <= Len(have)
  PROVE  SubSeq(have, Len(UpTo(cs, ids, n - 1)) + 1, Len(UpTo(cs, ids, n))) = WordsOf(cs, ids[n], 0)
<1> DEFINE a == UpTo(cs, ids, n - 1)
           b == WordsOf(cs, ids[n], 0)
           c == Waited(cs, SubSeq(ids, n + 1, Len(ids)))
<1>1. n \in 0..Len(ids) /\ n - 1 \in 0..Len(ids) /\ n # 0 /\ ids[n] \in 1..Len(cs)
  OBVIOUS
<1>2. a \in Seq(Places) /\ b \in Seq(Places) /\ c \in Seq(Places)
  BY <1>1, FirstWaited, WordsOfIsSeq
<1>3. UpTo(cs, ids, n) = a \o b /\ Waited(cs, ids) = UpTo(cs, ids, n) \o c
  BY <1>1, FirstWaited
<1> HIDE DEF a, b, c
<1>4. Len(a \o b) = Len(a) + Len(b)
  BY <1>2, ConcatProperties
<1>5. (a \o b) \o c = have \o more /\ Len(a) + Len(b) <= Len(have)
  BY <1>3, <1>4
<1>6. SubSeq(have, Len(a) + 1, Len(a) + Len(b)) = b
  BY <1>2, <1>5, CutMiddle
<1> QED BY <1>3, <1>4, <1>6 DEF a, b

(* What is had is enough for the first n of the transfers.                 *)
Enough(cs, ids, n, have, more) ==
  /\ cs \in Seq(Calls) /\ ids \in Seq(1..Len(cs)) /\ n \in 0..Len(ids)
  /\ have \in Seq(Places) /\ more \in Seq(Places)
  /\ Waited(cs, ids) = have \o more /\ Len(UpTo(cs, ids, n)) <= Len(have)

(* What is left in the buffer belongs to the transfers that wait on.       *)
LEMMA ServedRest ==
  ASSUME NEW cs, NEW ids, NEW n, NEW have, NEW more, Enough(cs, ids, n, have, more)
  PROVE  /\ SubSeq(have, Len(UpTo(cs, ids, n)) + 1, Len(have)) \in Seq(Places)
         /\ Len(SubSeq(have, Len(UpTo(cs, ids, n)) + 1, Len(have)))
              = Len(have) - Len(UpTo(cs, ids, n))
         /\ SubSeq(have, Len(UpTo(cs, ids, n)) + 1, Len(have)) \o more
              = Waited(cs, SubSeq(ids, n + 1, Len(ids)))
<1> DEFINE a == UpTo(cs, ids, n)
           c == Waited(cs, SubSeq(ids, n + 1, Len(ids)))
<1>1. /\ cs \in Seq(Calls) /\ ids \in Seq(1..Len(cs)) /\ n \in 0..Len(ids)
      /\ have \in Seq(Places) /\ more \in Seq(Places)
      /\ Waited(cs, ids) = have \o more /\ Len(a) <= Len(have)
  BY DEF Enough
<1>2. a \in Seq(Places) /\ c \in Seq(Places) /\ Waited(cs, ids) = a \o c
  BY <1>1, FirstWaited
<1> HIDE DEF a, c
<1>3. TwoWays(Places, a, c, have, more)
  BY <1>1, <1>2 DEF TwoWays, a
<1>4. /\ SubSeq(have, Len(a) + 1, Len(have)) \in Seq(Places)
      /\ Len(SubSeq(have, Len(a) + 1, Len(have))) = Len(have) - Len(a)
      /\ SubSeq(have, Len(a) + 1, Len(have)) \o more = c
  BY ONLY <1>3, CutFront
<1> QED BY <1>4 DEF a, c

-----------------------------------------------------------------------------
(* What the thread in _write() has still to add.                           *)
Remaining(cs, p, j) ==
  LET busy == {t \in Threads : p[t] \in {"fill", "send"} /\ cs[j[t].id].kind \in Reads}
  IN IF busy = {} THEN <<>>
     ELSE LET w == j[CHOOSE t \in busy : TRUE]
          IN WordsOf(cs, w.id, cs[w.id].count - w.left)

(* When nobody is in _write() nothing is to be added.                      *)
LEMMA RemainingNone ==
  ASSUME NEW cs, NEW p, NEW j, \A u \in Threads : p[u] \notin {"fill", "send"}
  PROVE  Remaining(cs, p, j) = <<>>
<1> DEFINE busy == {t \in Threads : p[t] \in {"fill", "send"} /\ cs[j[t].id].kind \in Reads}
<1>1. busy = {}
  OBVIOUS
<1> QED BY <1>1, Zenon DEF Remaining

(* One thread is in _write().                                              *)
LEMMA RemainingOne ==
  ASSUME NEW cs, NEW p, NEW j, NEW t \in Threads, p[t] \in {"fill", "send"},
         \A u \in Threads : u # t => p[u] \notin {"fill", "send"}
  PROVE  Remaining(cs, p, j) =
           IF cs[j[t].id].kind \in Reads
             THEN WordsOf(cs, j[t].id, cs[j[t].id].count - j[t].left) ELSE <<>>
<1> DEFINE busy == {u \in Threads : p[u] \in {"fill", "send"} /\ cs[j[u].id].kind \in Reads}
<1>1. CASE cs[j[t].id].kind \in Reads
  <2>1. busy # {} /\ (CHOOSE u \in busy : TRUE) = t
    BY <1>1
  <2> QED BY <1>1, <2>1 DEF Remaining
<1>2. CASE cs[j[t].id].kind \notin Reads
  <2>1. busy = {}
    BY <1>2
  <2> QED BY <1>2, <2>1, Zenon DEF Remaining
<1> QED BY <1>1, <1>2

(* ... stays when the same threads go on.                                  *)
LEMMA RemainingKept ==
  ASSUME NEW cs, NEW p, NEW j, NEW q, NEW k,
         \A u \in Threads : q[u] \in {"fill", "send"} <=> p[u] \in {"fill", "send"},
         \A u \in Threads : p[u] \in {"fill", "send"} => k[u] = j[u]
  PROVE  Remaining(cs, q, k) = Remaining(cs, p, j)
<1> DEFINE busy(pp, jj) ==
      {u \in Threads : pp[u] \in {"fill", "send"} /\ cs[jj[u].id].kind \in Reads}
<1>1. busy(q, k) = busy(p, j)
  OBVIOUS
<1>2. CASE busy(p, j) = {}
  BY <1>1, <1>2, Zenon DEF Remaining
<1>3. CASE busy(p, j) # {}
  <2>1. PICK u : u = CHOOSE t \in busy(p, j) : TRUE
    OBVIOUS
  <2>2. u \in busy(p, j) /\ k[u] = j[u]
    BY <1>3, <2>1
  <2>3. Remaining(cs, p, j) = WordsOf(cs, j[u].id, cs[j[u].id].count - j[u].left)
    BY <1>3, <2>1, Zenon DEF Remaining
  <2>4. Remaining(cs, q, k) = WordsOf(cs, k[u].id, cs[k[u].id].count - k[u].left)
    BY <1>1, <1>3, <2>1, Zenon DEF Remaining
  <2> QED BY <2>2, <2>3, <2>4
<1> QED BY <1>2, <1>3

(* ... and is the end of the access issued last.                           *)
LEMMA RemainingIsSeq ==
  ASSUME PipelineInv
  PROVE  /\ Remaining(calls, pc, job) \in Seq(Places)
         /\ \A t \in Threads : Filling(t) =>
              Remaining(calls, pc, job) =
                IF calls[Len(calls)].kind \in Reads
                  THEN WordsOf(calls, Len(calls), calls[Len(calls)].count - job[t].left)
                  ELSE <<>>
<1>1. calls \in Seq(Calls) /\ NoReq \notin Threads
      /\ job \in [Threads -> [id : Nat, left : Nat, after : Labels]]
  BY PipelineAssumption DEF PipelineInv, ControlInv, Typed
<1>2. ASSUME NEW t \in Threads, Filling(t)
      PROVE  Remaining(calls, pc, job) =
                IF calls[Len(calls)].kind \in Reads
                  THEN WordsOf(calls, Len(calls), calls[Len(calls)].count - job[t].left)
                  ELSE <<>>
  <2>1. pc[t] \in {"fill", "send"} /\ \A u \in Threads : u # t => pc[u] \notin {"fill", "send"}
    BY <1>2 DEF PipelineInv, ControlInv, LockFits, Locked, Filling
  <2>2. job[t].id = Len(calls)
    BY <1>2 DEF PipelineInv, ControlInv, LastFits
  <2> QED BY <2>1, <2>2, RemainingOne
<1>3. CASE \E t \in Threads : Filling(t)
  <2>1. PICK t \in Threads : Filling(t)
    BY <1>3
  <2>2. /\ Len(calls) > 0 /\ job[t].left <= calls[Len(calls)].count
    BY <2>1 DEF PipelineInv, ControlInv, LastFits
  <2>3. Len(calls) \in 1..Len(calls) /\ job[t].left \in Nat
    BY <1>1, <2>1, <2>2
  <2>4. calls[Len(calls)].count \in Nat
    <3>1. calls[Len(calls)] \in Calls
      BY <1>1, <2>3
    <3> QED BY <3>1 DEF Calls
  <2>5. calls[Len(calls)].count - job[t].left \in Nat
    BY <2>2, <2>3, <2>4
  <2>6. WordsOf(calls, Len(calls), calls[Len(calls)].count - job[t].left) \in Seq(Places)
    BY <1>1, <2>3, <2>5, WordsOfIsSeq
  <2>7. <<>> \in Seq(Places)
    OBVIOUS
  <2>8. Remaining(calls, pc, job) =
                IF calls[Len(calls)].kind \in Reads
                  THEN WordsOf(calls, Len(calls), calls[Len(calls)].count - job[t].left)
                  ELSE <<>>
    BY <1>2, <2>1
  <2>9. Remaining(calls, pc, job) \in Seq(Places)
    BY <2>6, <2>7, <2>8, Zenon
  <2> QED BY <1>2, <2>9
<1>4. CASE \A t \in Threads : ~Filling(t)
  <2>1. Remaining(calls, pc, job) = <<>>
    BY <1>4, RemainingNone DEF Filling
  <2>2. <<>> \in Seq(Places)
    OBVIOUS
  <2> QED BY <1>4, <2>1, <2>2
<1> QED BY <1>2, <1>3, <1>4

-----------------------------------------------------------------------------
(* The transfers that a reply completes                                    *)

(* A nonempty set of numbers with a bound has a greatest element.          *)
LEMMA GreatestNumber ==
  ASSUME NEW N \in Nat, NEW S \in SUBSET (0..N), S # {}
  PROVE  \E m \in S : \A j \in S : j <= m
<1> DEFINE D == {N - j : j \in S}
<1>1. D \in SUBSET Nat /\ D # {}
  <2>1. \A j \in S : N - j \in Nat
    <3> TAKE j \in S
    <3>1. j \in 0..N
      OBVIOUS
    <3> QED BY <3>1
  <2> QED BY <2>1
<1>2. PICK d \in D : \A e \in D : d <= e
  BY <1>1, LeastNumber
<1>3. PICK m \in S : d = N - m
  OBVIOUS
<1>4. ASSUME NEW j \in S PROVE j <= m
  <2>1. N - j \in D /\ N - m <= N - j /\ j \in Nat /\ m \in Nat
    BY <1>2, <1>3
  <2> QED BY <2>1
<1> QED BY <1>4

(* What is promised of the words that waiting transfers lack, in the terms *)
(* of the lemmas above.                                                    *)
LEMMA WantedFirst ==
  ASSUME NEW n \in 0..Len(transferList), transferList \in Seq(1..Len(calls))
  PROVE  Wanted(n) = UpTo(calls, transferList, n)
<1>1. /\ SubSeq(transferList, 1, n) \in Seq(1..Len(calls))
      /\ DOMAIN SubSeq(transferList, 1, n) = 1..n
      /\ \A i \in 1..n : SubSeq(transferList, 1, n)[i] = transferList[i]
  OBVIOUS
<1>2. [i \in 1..n |-> WordsAfter(transferList[i], 0)]
        = [i \in DOMAIN SubSeq(transferList, 1, n) |->
             WordsOf(calls, SubSeq(transferList, 1, n)[i], 0)]
  BY <1>1 DEF WordsAfter, WordsOf
<1> QED BY <1>2, Zenon DEF Wanted, UpTo, Waited

(* The transfers served are as many as the buffer has words for.           *)
LEMMA ServedFits ==
  ASSUME calls \in Seq(Calls), transferList \in Seq(1..Len(calls)), Buffered \in Seq(Places)
  PROVE  /\ Served \in 0..Len(transferList)
         /\ Len(UpTo(calls, transferList, Served)) <= Len(Buffered)
         /\ \A n \in 0..Len(transferList) : n > Served =>
              Len(UpTo(calls, transferList, n)) > Len(Buffered)
         /\ \A n \in 0..Len(transferList) : Needed(n) = Len(UpTo(calls, transferList, n))
<1> DEFINE N == Len(transferList)
           full == {n \in 0..N : Needed(n) <= Len(Buffered)}
<1>1. N \in Nat /\ Len(Buffered) \in Nat
  OBVIOUS
<1>2. \A n \in 0..N : Needed(n) = Len(UpTo(calls, transferList, n)) /\ Needed(n) \in Nat
  <2> TAKE n \in 0..N
  <2>1. UpTo(calls, transferList, n) \in Seq(Places)
    BY FirstWaited
  <2> QED BY <2>1, WantedFirst DEF Needed
<1>3. 0 \in full
  <2>1. 0 \in 0..N /\ Needed(0) = Len(<<>>)
    BY <1>1, <1>2, FirstWaited
  <2> QED BY <1>1, <2>1
<1>4. Served = CHOOSE n \in full : \A m \in full : m <= n
  BY Zenon DEF Served
<1> HIDE DEF full
<1>5. full \in SUBSET (0..N) /\ full # {}
  BY <1>3 DEF full
<1>6. \E n \in full : \A m \in full : m <= n
  BY <1>1, <1>5, GreatestNumber
<1>7. Served \in full /\ \A m \in full : m <= Served
  BY <1>4, <1>6
<1>8. Served \in 0..N /\ Needed(Served) <= Len(Buffered)
  BY <1>7 DEF full
<1>9. ASSUME NEW n \in 0..N, n > Served PROVE Needed(n) > Len(Buffered)
  <2>1. n \notin full
    BY <1>1, <1>7, <1>8, <1>9
  <2>2. ~(Needed(n) <= Len(Buffered))
    BY <1>9, <2>1 DEF full
  <2> QED BY <1>1, <1>2, <1>9, <2>2
<1> QED BY <1>2, <1>8, <1>9

-----------------------------------------------------------------------------
(* The invariant of Covered                                                *)

Reply   == [block : BOOLEAN, ok : BOOLEAN, count : Nat, words : Seq(Places)]
Outcome == [state : {"posted", "pending", "error", "done"}, words : Seq(Places)]

(* The waiting transfers are reads, in the order of issue.                 *)
Listed ==
  /\ transferList \in Seq(1..Len(calls))
  /\ \A i \in DOMAIN transferList : calls[transferList[i]].kind \in Reads
  /\ \A i, j \in DOMAIN transferList : i < j => transferList[i] < transferList[j]
  /\ result \in Seq(Outcome) /\ Len(result) = Len(calls)
  /\ responseBuf \in Seq(Places) /\ replies \in Seq(Reply)

(* The read count of a packet is the number of words it is answered with.  *)
Counted(cs, cmd) == Known(cs, cmd.data) /\ Len(Answers(cs, cmd.data)) = cmd.rc
Sized == Counted(calls, crntCmd) /\ \A k \in DOMAIN toRead : Counted(calls, toRead[k])

Faulted ==
  /\ faults \in [FaultKinds -> Nat]
  /\ \A kind \in FaultKinds : faults[kind] # 0 => kind \in session.faultKinds

(* Each packet in flight has its reply in the probe; unless a transfer     *)
(* failed that decodes, and has the words the packet asked for.            *)
Answering ==
  /\ Len(replies) = Len(toRead)
  /\ \A i \in DOMAIN toRead : replies[i].ok =>
       /\ Decodes(toRead[i], replies[i])
       /\ replies[i].words = Answers(calls, toRead[i].data)

Balanced ==
  Waited(calls, transferList)
    = responseBuf \o (Flying(calls, toRead) \o
        (Answers(calls, crntCmd.data) \o Remaining(calls, pc, job)))

(* What is left in the response buffer completes no transfer.              *)
Unfinished == transferList # <<>> => Len(responseBuf) < calls[transferList[1]].count

WordsInv ==
  /\ Listed /\ Sized /\ Faulted
  /\ NoUsbFault => /\ Answering /\ Balanced /\ Unfinished
                   /\ ~isOpen => transferList = <<>>

CoverInv == Settled /\ WordsInv

-----------------------------------------------------------------------------
(* Steps that leave the words alone                                        *)

(* A fault is counted.                                                     *)
LEMMA FaultsCount ==
  ASSUME Faulted, session \in Sessions, session' = session, NEW kind, Fail(kind)
  PROVE  /\ Faulted' /\ (NoUsbFault' => NoUsbFault)
         /\ kind # "ack" => ~NoUsbFault'
<1>1. /\ kind \in FaultKinds /\ kind \in session.faultKinds
      /\ faults' = [faults EXCEPT ![kind] = faults[kind] + 1]
      /\ faults \in [FaultKinds -> Nat]
  BY PipelineAssumption DEF Fail, Faulted
<1>2. faults[kind] \in Nat /\ faults[kind] + 1 \in Nat /\ faults[kind] + 1 # 0
  BY <1>1
<1>3. /\ faults' \in [FaultKinds -> Nat] /\ faults'[kind] # 0
      /\ \A other \in FaultKinds : other # kind => faults'[other] = faults[other]
  BY <1>1, <1>2
<1>4. Faulted'
  BY <1>1, <1>3 DEF Faulted
<1>5. kind # "ack" => ~NoUsbFault'
  BY <1>1, <1>3 DEF NoUsbFault
<1>6. NoUsbFault' => NoUsbFault
  BY <1>1, <1>3 DEF NoUsbFault
<1> QED BY <1>4, <1>5, <1>6

(* Nothing changes that the words depend on.                               *)
LEMMA QuietKeepsWords ==
  ASSUME WordsInv, Remaining(calls, pc, job)' = Remaining(calls, pc, job),
         UNCHANGED <<session, calls, result, transferList, crntCmd, toRead, responseBuf,
                     isOpen, faults>>,
         replies' \in Seq(Reply), NoUsbFault => replies' = replies
  PROVE  WordsInv'
<1>1. Listed' /\ Sized' /\ Faulted' /\ NoUsbFault' = NoUsbFault
  BY DEF WordsInv, Listed, Sized, Faulted, NoUsbFault
<1>2. SUFFICES ASSUME NoUsbFault
               PROVE  /\ Answering' /\ Balanced' /\ Unfinished'
                      /\ ~isOpen' => transferList' = <<>>
  BY <1>1 DEF WordsInv
<1>3. Answering /\ Balanced /\ Unfinished /\ (~isOpen => transferList = <<>>) /\ replies' = replies
  BY <1>2 DEF WordsInv
<1>4. Answering'
  BY <1>3 DEF Answering, Decodes
<1>5. Balanced'
  BY <1>3, Zenon DEF Balanced
<1>6. Unfinished'
  BY <1>3 DEF Unfinished
<1> QED BY <1>3, <1>4, <1>5, <1>6

(* A thread that has added all its words leaves _write().                  *)
LEMMA MovesKeepRemaining ==
  ASSUME PipelineInv, NEW t \in Threads, NEW label, Goto(t, label), calls' = calls,
         \A u \in Threads : u # t => job'[u] = job[u],
         label \in {"fill", "send"} => Filling(t) /\ job'[t] = job[t],
         label \notin {"fill", "send"} /\ Filling(t) => job[t].left = 0
  PROVE  Remaining(calls, pc, job)' = Remaining(calls, pc, job)
<1>1. /\ pc'[t] = label
      /\ \A u \in Threads : u # t => pc'[u] = pc[u]
  BY DEF PipelineInv, ControlInv, Typed, Goto
<1>2. CASE label \in {"fill", "send"} \/ ~Filling(t)
  <2>1. /\ \A u \in Threads : pc'[u] \in {"fill", "send"} <=> pc[u] \in {"fill", "send"}
        /\ \A u \in Threads : pc[u] \in {"fill", "send"} => job'[u] = job[u]
    BY <1>1, <1>2 DEF Filling
  <2> QED BY <2>1, RemainingKept
<1>3. CASE label \notin {"fill", "send"} /\ Filling(t)
  <2>1. /\ lock = t /\ job[t].left = 0 /\ calls \in Seq(Calls) /\ Len(calls) > 0
        /\ \A u \in Threads : u # t => ~Filling(u)
    BY <1>3 DEF PipelineInv, ControlInv, Typed, LockFits, LastFits, Filling, Locked
  <2>2. Remaining(calls', pc', job') = <<>>
    BY <1>1, <1>3, <2>1, RemainingNone DEF Filling
  <2>3. Remaining(calls, pc, job) = <<>>
    <3>1. Remaining(calls, pc, job) =
            IF calls[Len(calls)].kind \in Reads
              THEN WordsOf(calls, Len(calls), calls[Len(calls)].count - job[t].left)
              ELSE <<>>
      BY <1>3, RemainingIsSeq
    <3>2. Len(calls) \in 1..Len(calls)
      BY <2>1
    <3>3. calls[Len(calls)] \in Calls
      BY <2>1, <3>2
    <3>4. calls[Len(calls)].count \in Nat
      BY <3>3 DEF Calls
    <3> DEFINE c == calls[Len(calls)].count
               w == WordsOf(calls, Len(calls), c)
    <3>5. c - job[t].left = c
      BY <2>1, <3>4
    <3>6. w = <<>>
      BY <2>1, <3>2, NoneAfterLast
    <3> QED BY <3>1, <3>5, <3>6
  <2> QED BY <2>2, <2>3
<1> QED BY <1>2, <1>3

(* Of a step of one thread, what becomes of the packets settles the rest.  *)
LEMMA SettledKept ==
  ASSUME PipelineInv, Settled, NEW t \in Threads, NEW label, Goto(t, label),
         isOpen' = isOpen,
         \/ /\ crntCmd.data = <<>> => crntCmd'.data = <<>>
            /\ toRead = <<>> => toRead' = <<>>
         \/ lock = t /\ isOpen,
         label \in {"fill", "send"} => isOpen,
         label \in {"drain", "exchange", "close"} => crntCmd'.data = <<>>,
         label \in {"exchange", "close"} => toRead' = <<>>
  PROVE  Settled'
<1>1. /\ pc'[t] = label
      /\ \A u \in Threads : u # t => pc'[u] = pc[u]
  BY DEF PipelineInv, ControlInv, Typed, Goto
<1>2. CASE /\ crntCmd.data = <<>> => crntCmd'.data = <<>>
           /\ toRead = <<>> => toRead' = <<>>
  BY <1>1, <1>2 DEF Settled, Filling
<1>3. CASE lock = t /\ isOpen
  <2>1. \A u \in Threads : u # t => pc'[u] \notin Locked
    BY <1>1, <1>3 DEF PipelineInv, ControlInv, LockFits
  <2> QED BY <1>1, <1>3, <2>1 DEF Settled, Filling, Locked
<1> QED BY <1>2, <1>3

(* A thread goes on and leaves the queues alone.                           *)
LEMMA MoveKeepsCover ==
  ASSUME PipelineInv, CoverInv, NEW t \in Threads, NEW label, Goto(t, label),
         UNCHANGED <<session, calls, result, transferList, crntCmd, toRead, responseBuf,
                     isOpen, faults>>,
         replies' \in Seq(Reply), NoUsbFault => replies' = replies,
         \A u \in Threads : u # t => job'[u] = job[u],
         label \in {"fill", "send"} => Filling(t) /\ job'[t] = job[t],
         label \notin {"fill", "send"} /\ Filling(t) => job[t].left = 0,
         label \in {"drain", "exchange", "close"} => crntCmd.data = <<>>,
         label \in {"exchange", "close"} => toRead = <<>>
  PROVE  CoverInv'
<1>1. Remaining(calls, pc, job)' = Remaining(calls, pc, job)
  BY MovesKeepRemaining
<1>2. WordsInv'
  BY <1>1, QuietKeepsWords DEF CoverInv
<1>3. Settled /\ (label \in {"fill", "send"} => isOpen)
  BY DEF CoverInv, Settled
<1>4. Settled'
  BY <1>3, SettledKept
<1> QED BY <1>2, <1>4 DEF CoverInv

(* A flush begins or ends, get_result() looks at the queue, an exchange or *)
(* a change of mode ends.                                                  *)
LEMMA MovesKeepCover ==
  ASSUME PipelineInv, CoverInv, NEW t \in Threads, UNCHANGED session,
         \/ FillEnd(t) \/ SendNothing(t) \/ DrainEnd(t) \/ Check(t) \/ CheckCurrent(t)
         \/ GetFlush(t) \/ Exchange(t) \/ UndeferEnd(t)
         \/ \E id \in DOMAIN calls : Callback(t, id)
  PROVE  CoverInv'
<1>1. /\ pc[t] \in {"fill", "send"} => job[t].after \in {"idle", "check"}
      /\ crntCmd.data = <<>> <=> IsEmpty(crntCmd)
      /\ replies \in Seq(Reply)
  BY DEF PipelineInv, ControlInv, AfterFits, IsEmpty, CoverInv, WordsInv, Listed
<1>2. ASSUME pc[t] \in {"drain", "exchange", "close"}
      PROVE  /\ crntCmd.data = <<>> /\ (pc[t] # "drain" => toRead = <<>>)
             /\ pc[t] # "drain" /\ NoUsbFault => replies = <<>>
  <2>1. crntCmd.data = <<>> /\ (pc[t] # "drain" => toRead = <<>>)
    BY <1>2 DEF CoverInv, Settled
  <2>2. toRead = <<>> /\ NoUsbFault => replies = <<>>
    BY <1>1 DEF CoverInv, WordsInv, Answering
  <2> QED BY <2>1, <2>2
<1> DEFINE Still == UNCHANGED <<session, calls, result, transferList, crntCmd, toRead,
                                responseBuf, isOpen, faults>>
<1>3. ASSUME UNCHANGED <<calls, result, buffers, modes, executed, faults>>
      PROVE  Still
  BY <1>3 DEF buffers, modes
<1>4. ASSUME replies' = replies
      PROVE  replies' \in Seq(Reply) /\ (NoUsbFault => replies' = replies)
  BY <1>1, <1>4
<1>5. ASSUME NEW label, Goto(t, label), Still,
             replies' \in Seq(Reply), NoUsbFault => replies' = replies,
             \A u \in Threads : u # t => job'[u] = job[u],
             label \in {"fill", "send"} => Filling(t) /\ job'[t] = job[t],
             label \notin {"fill", "send"} /\ Filling(t) => job[t].left = 0,
             label \in {"drain", "exchange", "close"} => crntCmd.data = <<>>,
             label \in {"exchange", "close"} => toRead = <<>>
      PROVE  CoverInv'
  BY <1>5, MoveKeepsCover
<1> HIDE DEF Still
<1>6. CASE FillEnd(t)
  <2>1. /\ pc[t] = "fill" /\ job[t].left = 0 /\ job' = job /\ replies' = replies
        /\ UNCHANGED <<calls, result, buffers, modes, executed, faults>>
    BY <1>6 DEF FillEnd, history, probe
  <2>2. \E label \in {"idle", "check", "flush"} : Goto(t, label)
    BY <1>1, <1>6, <2>1 DEF FillEnd
  <2> QED BY <1>3, <1>4, <1>5, <2>1, <2>2
<1>7. CASE SendNothing(t)
  <2>1. /\ pc[t] \in {"send", "flush"} /\ crntCmd.data = <<>> /\ job' = job
        /\ replies' = replies /\ Goto(t, AfterSend(t))
        /\ UNCHANGED <<calls, result, buffers, modes, executed, faults>>
    BY <1>1, <1>7 DEF SendNothing, history, probe
  <2>2. /\ pc[t] = "send" => AfterSend(t) = "fill"
        /\ pc[t] # "send" => AfterSend(t) = "drain" /\ ~Filling(t)
    BY <2>1 DEF AfterSend, Filling
  <2>3. pc[t] = "send" => Filling(t)
    BY DEF Filling
  <2> QED BY <1>3, <1>4, <1>5, <2>1, <2>2, <2>3
<1>8. CASE DrainEnd(t)
  <2>1. /\ pc[t] = "drain" /\ toRead = <<>> /\ job' = job /\ replies' = replies
        /\ UNCHANGED <<calls, result, buffers, modes, executed, faults>>
        /\ Goto(t, job[t].after)
    BY <1>8 DEF DrainEnd, history, probe
  <2>2. job[t].after \in Afterwards /\ ~Filling(t)
    BY <2>1 DEF PipelineInv, ControlInv, AfterFits, Flushing, Filling
  <2>3. job[t].after \notin {"fill", "send", "drain"}
    BY <2>2 DEF Afterwards
  <2> QED BY <1>2, <1>3, <1>4, <1>5, <2>1, <2>2, <2>3
<1>9. CASE Check(t)
  <2>1. /\ ~Filling(t) /\ job' = job /\ replies' = replies
        /\ UNCHANGED <<calls, result, buffers, modes, executed, faults>>
        /\ \E label \in {"idle", "read", "assert"} : Goto(t, label)
    BY <1>9 DEF Check, probe, Filling
  <2> QED BY <1>3, <1>4, <1>5, <2>1
<1>10. CASE CheckCurrent(t)
  <2>1. /\ ~Filling(t) /\ job' = job /\ replies' = replies
        /\ UNCHANGED <<calls, result, buffers, modes, executed, faults>>
        /\ \E label \in {"idle", "enter"} : Goto(t, label)
    BY <1>10 DEF CheckCurrent, probe, Filling
  <2> QED BY <1>3, <1>4, <1>5, <2>1
<1>11. CASE GetFlush(t)
  <2>1. /\ ~Filling(t) /\ job' = job /\ replies' = replies /\ Goto(t, "flush")
        /\ UNCHANGED <<calls, result, buffers, modes, executed, faults>>
    BY <1>11 DEF GetFlush, history, probe, Filling
  <2> QED BY <1>3, <1>4, <1>5, <2>1
<1>12. CASE Exchange(t)
  <2>1. /\ ~Filling(t) /\ job' = job /\ Goto(t, "idle") /\ pc[t] = "exchange"
        /\ UNCHANGED <<calls, result, buffers, modes, executed, faults>>
        /\ replies = <<>> => replies' = replies
    BY <1>12 DEF Exchange, Filling
  <2>2. replies' \in Seq(Reply)
    <3>1. CASE replies = <<>>
      BY <1>1, <2>1, <3>1
    <3> DEFINE other == [block |-> FALSE, ok |-> FALSE, count |-> 0, words |-> <<>>]
    <3>2. CASE replies # <<>>
      <4>1. replies' = Append(Tail(replies), other)
        BY <1>12, <3>2 DEF Exchange
      <4>2. other \in Reply
        BY DEF Reply
      <4> HIDE DEF other
      <4>3. Tail(replies) \in Seq(Reply)
        BY <1>1, <3>2
      <4> QED BY <4>1, <4>2, <4>3
    <3> QED BY <3>1, <3>2
  <2> QED BY <1>2, <1>3, <1>5, <2>1, <2>2
<1>13. CASE UndeferEnd(t)
  <2>1. /\ ~Filling(t) /\ job' = job /\ replies' = replies /\ Goto(t, "idle")
        /\ Still
    BY <1>13 DEF UndeferEnd, buffers, probe, Filling, Still
  <2> QED BY <1>4, <1>5, <2>1
<1>14. ASSUME NEW id \in DOMAIN calls, Callback(t, id)
       PROVE  CoverInv'
  <2>1. /\ ~Filling(t) /\ replies' = replies /\ Goto(t, "check")
        /\ UNCHANGED <<calls, result, buffers, modes, executed, faults>>
        /\ \A u \in Threads : u # t => job'[u] = job[u]
    BY <1>14 DEF Callback, history, probe, Filling, PipelineInv, ControlInv, Typed
  <2> QED BY <1>3, <1>4, <1>5, <2>1
<1> QED BY <1>6, <1>7, <1>8, <1>9, <1>10, <1>11, <1>12, <1>13, <1>14

-----------------------------------------------------------------------------
(* Errors                                                                  *)

(* A new packet has no words.                                              *)
LEMMA NewIsCounted ==
  ASSUME NEW cs, NEW size, NEW cmd, cmd = NewCommand(size)
  PROVE  Counted(cs, cmd) /\ cmd.data = <<>> /\ Answers(cs, cmd.data) = <<>>
<1>1. cmd.data = <<>> /\ cmd.rc = 0
  BY DEF NewCommand
<1>2. Answers(cs, cmd.data) = <<>>
  BY <1>1, FlyingNone
<1> QED BY <1>1, <1>2 DEF Counted, Known

(* All transfers are given up, and nothing is in flight, in a packet or    *)
(* still to be added.                                                      *)
LEMMA NothingLeft ==
  ASSUME transferList' = <<>>, toRead' = <<>>, responseBuf' = <<>>, crntCmd'.data = <<>>,
         \A u \in Threads : ~Filling(u)',
         replies' = <<>>
  PROVE  /\ Answering' /\ Balanced' /\ Unfinished'
         /\ ~isOpen' => transferList' = <<>>
<1>1. Waited(calls', transferList') = <<>>
  BY WaitedNone
<1>2. Flying(calls', toRead') = <<>> /\ Answers(calls', crntCmd'.data) = <<>>
  BY FlyingNone
<1>3. Remaining(calls', pc', job') = <<>>
  BY RemainingNone DEF Filling
<1>4. <<>> \o (<<>> \o (<<>> \o <<>>)) = <<>>
  OBVIOUS
<1>5. Balanced'
  BY <1>1, <1>2, <1>3, <1>4 DEF Balanced
<1>6. Answering'
  BY DEF Answering
<1>7. Unfinished'
  BY DEF Unfinished
<1> QED BY <1>5, <1>6, <1>7

(* _abort_all_transfers() leaves nothing waiting, and nothing in flight.   *)
LEMMA AbortKeepsWords ==
  ASSUME WordsInv, Abort, UNCHANGED <<session, calls, isOpen>>, Faulted',
         NoUsbFault' => NoUsbFault,
         replies' \in Seq(Reply), NoUsbFault' => replies' = <<>>,
         \A u \in Threads : ~Filling(u)'
  PROVE  WordsInv'
<1>1. /\ transferList' = <<>> /\ toRead' = <<>> /\ responseBuf' = <<>>
      /\ crntCmd' = NewCommand(session.packetSize)
      /\ result' = [r \in DOMAIN result |->
                     IF \E i \in DOMAIN transferList : transferList[i] = r
                       THEN NoWords("error") ELSE result[r]]
  BY DEF Abort
<1>2. crntCmd'.data = <<>> /\ Counted(calls', crntCmd')
  BY <1>1, NewIsCounted
<1>3. Listed'
  <2>1. NoWords("error") \in Outcome
    BY DEF NoWords, Outcome
  <2>2. result \in Seq(Outcome) /\ Len(result) = Len(calls)
    BY DEF WordsInv, Listed
  <2>3. result' \in Seq(Outcome) /\ Len(result') = Len(result)
    <3> DEFINE f(r) == IF \E i \in DOMAIN transferList : transferList[i] = r
                         THEN NoWords("error") ELSE result[r]
    <3>1. \A r \in 1..Len(result) : f(r) \in Outcome
      BY <2>1, <2>2
    <3>2. result' = [r \in 1..Len(result) |-> f(r)]
      BY <1>1, <2>2
    <3> HIDE DEF f
    <3>3. Len(result) \in Nat
      BY <2>2
    <3> QED BY <3>1, <3>2, <3>3
  <2>4. transferList' \in Seq(1..Len(calls')) /\ DOMAIN transferList' = {}
    BY <1>1
  <2>5. responseBuf' \in Seq(Places)
    BY <1>1
  <2> QED BY <2>2, <2>3, <2>4, <2>5 DEF Listed
<1>4. Sized'
  <2>1. DOMAIN toRead' = {}
    BY <1>1
  <2> QED BY <1>2, <2>1 DEF Sized
<1>5. NoUsbFault' => /\ Answering' /\ Balanced' /\ Unfinished'
                     /\ ~isOpen' => transferList' = <<>>
  BY <1>1, <1>2, NothingLeft
<1> QED BY <1>3, <1>4, <1>5 DEF WordsInv

(* The target answers with the words it read.                              *)
LEMMA ReplyIsAdded ==
  ASSUME PipelineInv, replies \in Seq(Reply), NEW n \in 0..Len(crntCmd.data), Execute(crntCmd, n)
  PROVE  /\ replies' \in Seq(Reply)
         /\ \E reply \in Reply :
              /\ replies' = Append(replies, reply)
              /\ reply.ok => /\ n = Len(crntCmd.data) /\ Decodes(crntCmd, reply)
                             /\ reply.words = Answers(calls, crntCmd.data)
<1> DEFINE data  == crntCmd.data
           part  == SubSeq(data, 1, n)
           reply == [block |-> crntCmd.block, ok |-> n = Len(data), count |-> Len(data),
                     words |-> ReadWords(part)]
<1>1. replies' = Append(replies, reply)
  BY DEF Execute
<1>2. /\ crntCmd \in Packet /\ data \in Seq(Places) /\ Counts(crntCmd)
      /\ Len(data) \in Nat /\ crntCmd.block \in BOOLEAN
  BY DEF PipelineInv, PacketInv, ControlInv, Typed, Packet
<1>3. part \in Seq(Places) /\ (n = Len(data) => part = data)
  BY <1>2, SubSeqFull
<1>4. ReadWords(part) = Answers(calls, part)
  BY DEF ReadWords, IsRead, Answers, One
<1>5. Answers(calls, part) \in Seq(Places)
  <2> HIDE DEF part
  <2> QED BY <1>3, AnswersIsSeq
<1>6. reply \in Reply
  <2> HIDE DEF part, data
  <2> QED BY <1>2, <1>4, <1>5 DEF Reply
<1>7. reply.ok => /\ n = Len(data) /\ Decodes(crntCmd, reply)
                  /\ reply.words = Answers(calls, data)
  <2> SUFFICES ASSUME n = Len(data)
               PROVE  Decodes(crntCmd, reply) /\ reply.words = Answers(calls, data)
    OBVIOUS
  <2>1. part = data
    BY <1>3
  <2>2. reply.words = Answers(calls, data)
    BY <1>4, <2>1
  <2>3. Decodes(crntCmd, reply)
    BY <1>2 DEF Decodes, Counts
  <2> QED BY <2>2, <2>3
<1> HIDE DEF reply
<1>8. replies' \in Seq(Reply)
  BY <1>1, <1>6
<1> QED BY <1>1, <1>6, <1>7, <1>8

(* A method that raises gives up all transfers.                            *)
LEMMA RaisesKeepCover ==
  ASSUME PipelineInv, CoverInv, NEW t \in Threads, UNCHANGED session,
         ReadPacketBad \/ ReadPacketRaises \/ SendPacketRaises, Raise(t),
         lock = t \/ lock = NoReq
  PROVE  CoverInv'
<1>1. /\ session \in Sessions /\ NoReq \notin Threads /\ Faulted /\ Settled /\ WordsInv
      /\ replies \in Seq(Reply) /\ crntCmd.data \in Seq(Places)
  BY PipelineAssumption
     DEF PipelineInv, ControlInv, Typed, Packet, CoverInv, WordsInv, Listed
<1>2. Goto(t, "idle") /\ UNCHANGED <<calls, isOpen, job>> /\ Abort
  BY DEF Raise, modes, ReadPacketBad, ReadPacketRaises, SendPacketRaises
<1>3. \A u \in Threads : ~Filling(u)'
  <2>1. \A u \in Threads : u # t => pc[u] \notin Locked
    BY <1>1 DEF PipelineInv, ControlInv, LockFits
  <2>2. pc'[t] = "idle" /\ \A u \in Threads : u # t => pc'[u] = pc[u]
    BY <1>2 DEF PipelineInv, ControlInv, Typed, Goto
  <2> QED BY <2>1, <2>2 DEF Filling, Locked
<1>4. crntCmd'.data = <<>> /\ toRead' = <<>>
  BY <1>2, NewIsCounted DEF Abort
<1>5. Settled'
  BY <1>1, <1>2, <1>4, SettledKept
<1>6. ASSUME NEW kind \in {"read", "write"}, Fail(kind), replies' \in Seq(Reply)
      PROVE  WordsInv'
  <2>1. Faulted' /\ ~NoUsbFault'
    BY <1>1, <1>6, FaultsCount
  <2> QED BY <1>1, <1>2, <1>3, <1>6, <2>1, AbortKeepsWords
<1>7. ASSUME NEW n \in Nat
      PROVE  SubSeq(replies, n + 2, Len(replies)) \in Seq(Reply)
  <2>1. \A i \in (n + 2)..Len(replies) : replies[i] \in Reply
    BY <1>1
  <2>2. n + 2 \in Int /\ Len(replies) \in Int
    BY <1>1
  <2> QED BY <2>1, <2>2, SubSeqProperties
<1>8. CASE ReadPacketBad
  <2>1. toRead # <<>> /\ replies # <<>> /\ toRead \in Seq(Packet)
    BY <1>8 DEF ReadPacketBad, PipelineInv, ControlInv, Typed
  <2>2. Len(toRead) \in Nat /\ Len(toRead) # 0
    BY <2>1
  <2>3. CASE replies' = Drained(Len(toRead) - 1) /\ UNCHANGED faults
    <3>1. Len(toRead) - 1 \in Nat /\ (Len(toRead) - 1) + 2 = Len(toRead) + 1
      BY <2>2
    <3>2. replies' \in Seq(Reply)
      BY <1>7, <2>3, <3>1 DEF Drained
    <3>3. Faulted' /\ (NoUsbFault' => NoUsbFault)
      BY <1>1, <2>3 DEF Faulted, NoUsbFault
    <3>4. ASSUME NoUsbFault PROVE replies' = <<>>
      <4>1. Len(replies) = Len(toRead)
        BY <3>4 DEF CoverInv, WordsInv, Answering
      <4>2. replies' = SubSeq(replies, Len(toRead) + 1, Len(toRead))
        BY <2>3, <3>1, <4>1 DEF Drained
      <4>3. Len(toRead) + 1 \in Int /\ Len(toRead) \in Int /\ Len(toRead) < Len(toRead) + 1
        BY <2>2
      <4> QED BY <4>2, <4>3, SubSeqEmpty
    <3>5. WordsInv'
      BY <1>1, <1>2, <1>3, <3>2, <3>3, <3>4, AbortKeepsWords
    <3> QED BY <1>5, <3>5 DEF CoverInv
  <2>4. ASSUME NEW n \in 0..(Len(toRead) - 2), Fail("read"), replies' = Drained(n)
        PROVE  CoverInv'
    <3>1. replies' \in Seq(Reply)
      <4>1. n \in Nat
        BY <2>2, <2>4
      <4> QED BY <1>7, <2>4, <4>1 DEF Drained
    <3> QED BY <1>5, <1>6, <2>4, <3>1 DEF CoverInv
  <2> QED BY <1>8, <2>3, <2>4 DEF ReadPacketBad
<1>9. CASE ReadPacketRaises
  <2>1. Fail("read") /\ replies # <<>> /\ replies' \in {replies, Tail(replies)}
    BY <1>9 DEF ReadPacketRaises
  <2>2. replies' \in Seq(Reply)
    BY <1>1, <2>1
  <2> QED BY <1>5, <1>6, <2>1, <2>2 DEF CoverInv
<1>10. CASE SendPacketRaises
  <2>1. Fail("write") /\ (UNCHANGED probe \/ Execute(crntCmd, Len(crntCmd.data)))
    BY <1>10 DEF SendPacketRaises
  <2>2. Len(crntCmd.data) \in 0..Len(crntCmd.data)
    BY <1>1
  <2>3. replies' \in Seq(Reply)
    BY <1>1, <2>1, <2>2, ReplyIsAdded DEF probe
  <2> QED BY <1>5, <1>6, <2>1, <2>3 DEF CoverInv
<1> QED BY <1>8, <1>9, <1>10

-----------------------------------------------------------------------------
(* A packet is sent                                                        *)

(* The words of the current packet are in flight once it is sent.          *)
LEMMA SendKeepsWords ==
  ASSUME PipelineInv, WordsInv, SendPacket, UNCHANGED session,
         Remaining(calls, pc, job)' = Remaining(calls, pc, job)
  PROVE  WordsInv'
<1>1. /\ session \in Sessions /\ Faulted /\ Listed /\ Sized
      /\ replies \in Seq(Reply) /\ crntCmd \in Packet /\ crntCmd.data \in Seq(Places)
      /\ toRead \in Seq(Packet) /\ calls \in Seq(Calls)
  BY DEF PipelineInv, ControlInv, Typed, Packet, WordsInv, Listed
<1>2. PICK n \in 0..Len(crntCmd.data) :
        /\ Execute(crntCmd, n)
        /\ IF n = Len(crntCmd.data) THEN UNCHANGED faults ELSE Fail("ack")
  BY DEF SendPacket
<1>3. PICK reply \in Reply :
        /\ replies' = Append(replies, reply)
        /\ reply.ok => Decodes(crntCmd, reply) /\ reply.words = Answers(calls, crntCmd.data)
  BY <1>1, <1>2, ReplyIsAdded
<1>4. /\ UNCHANGED <<calls, result, transferList, responseBuf, isOpen>>
      /\ toRead' = Append(toRead, crntCmd)
      /\ crntCmd' = NewCommand(session.packetSize)
  BY DEF SendPacket, history, modes
<1>5. Listed'
  BY <1>1, <1>3, <1>4 DEF Listed
<1>6. /\ toRead' \in Seq(Packet) /\ Len(toRead') = Len(toRead) + 1
      /\ \A i \in 1..Len(toRead) : toRead'[i] = toRead[i]
      /\ toRead'[Len(toRead) + 1] = crntCmd
  BY <1>1, <1>4
<1>7. Sized'
  <2>1. Counted(calls, crntCmd)'
    BY <1>4, NewIsCounted
  <2>2. ASSUME NEW k \in 1..(Len(toRead) + 1) PROVE Counted(calls, toRead'[k])
    <3>1. k = Len(toRead) + 1 \/ k \in 1..Len(toRead)
      BY <1>1
    <3>2. Counted(calls, crntCmd) /\ \A i \in 1..Len(toRead) : Counted(calls, toRead[i])
      BY <1>1 DEF Sized
    <3> QED BY <1>6, <3>1, <3>2
  <2> QED BY <1>4, <1>6, <2>1, <2>2 DEF Sized
<1>8. Faulted' /\ (NoUsbFault' => NoUsbFault)
  <2>1. CASE UNCHANGED faults
    BY <1>1, <2>1 DEF Faulted, NoUsbFault
  <2>2. CASE Fail("ack")
    BY <1>1, <2>2, FaultsCount
  <2> QED BY <1>2, <2>1, <2>2
<1>9. ASSUME NoUsbFault
      PROVE  /\ Answering' /\ Balanced' /\ Unfinished'
             /\ ~isOpen' => transferList' = <<>>
  <2>1. Answering /\ Balanced /\ Unfinished /\ (~isOpen => transferList = <<>>)
    BY <1>9 DEF WordsInv
  <2>2. Answering'
    <3>1. /\ Len(replies') = Len(replies) + 1 /\ Len(replies) = Len(toRead)
          /\ \A i \in 1..Len(toRead) : replies'[i] = replies[i]
          /\ replies'[Len(toRead) + 1] = reply
      BY <1>1, <1>3, <2>1 DEF Answering
    <3>2. ASSUME NEW i \in 1..(Len(toRead) + 1), replies'[i].ok
          PROVE  Decodes(toRead'[i], replies'[i]) /\ replies'[i].words = Answers(calls, toRead'[i].data)
      <4>1. CASE i = Len(toRead) + 1
        BY <1>3, <1>6, <3>1, <3>2, <4>1
      <4>2. CASE i \in 1..Len(toRead)
        BY <1>6, <2>1, <3>1, <3>2, <4>2 DEF Answering
      <4> QED BY <1>1, <4>1, <4>2
    <3> QED BY <1>4, <1>6, <3>1, <3>2 DEF Answering, Decodes
  <2>3. Balanced'
    <3> DEFINE F == Flying(calls, toRead)
               A == Answers(calls, crntCmd.data)
               R == Remaining(calls, pc, job)
    <3>1. Flying(calls', toRead') = F \o A
      <4>1. toRead' = toRead \o <<crntCmd>> /\ <<crntCmd>> \in Seq(Packet)
        BY <1>1, <1>4, AppendIsConcat
      <4>2. Flying(calls, toRead \o <<crntCmd>>) = F \o Flying(calls, <<crntCmd>>)
        BY <1>1, <4>1, FlyingConcat
      <4>3. Flying(calls, <<crntCmd>>) = A
        BY <1>1, FlyingOne
      <4> QED BY <1>4, <4>1, <4>2, <4>3
    <3>2. Answers(calls', crntCmd'.data) = <<>>
      BY <1>4, NewIsCounted
    <3>3. F \in Seq(Places) /\ A \in Seq(Places) /\ R \in Seq(Places)
      BY <1>1, FlyingIsSeq, AnswersIsSeq, RemainingIsSeq
    <3>4. Waited(calls', transferList') = Waited(calls, transferList)
      BY <1>4
    <3>5. Waited(calls, transferList) = responseBuf \o (F \o (A \o R))
      BY <2>1 DEF Balanced
    <3> HIDE DEF F, A, R
    <3>6. F \o (A \o R) = (F \o A) \o (<<>> \o R)
      <4>1. <<>> \o R = R /\ (F \o A) \o R = F \o (A \o R)
        BY <3>3, ConcatEmptySeq
      <4> QED BY <4>1
    <3>7. Remaining(calls, pc, job)' = R
      BY DEF R
    <3> QED BY <1>4, <3>1, <3>2, <3>4, <3>5, <3>6, <3>7, Zenon DEF Balanced
  <2>4. Unfinished'
    BY <1>4, <2>1 DEF Unfinished
  <2> QED BY <1>4, <2>1, <2>2, <2>3, <2>4
<1> QED BY <1>5, <1>7, <1>8, <1>9 DEF WordsInv

-----------------------------------------------------------------------------
(* A reply is read                                                         *)

(* More transfers wait for no fewer words.                                 *)
LEMMA UpToGrows ==
  ASSUME NEW cs \in Seq(Calls), NEW ids \in Seq(1..Len(cs)), NEW n \in 0..Len(ids), NEW m \in 0..n
  PROVE  Len(UpTo(cs, ids, m)) <= Len(UpTo(cs, ids, n))
<1> DEFINE first == SubSeq(ids, 1, n)
           later == SubSeq(first, m + 1, Len(first))
<1>1. Len(ids) \in Nat /\ n \in Nat /\ m \in Nat
  OBVIOUS
<1>2. first \in Seq(1..Len(cs)) /\ Len(first) = n
  <2>1. \A i \in 1..n : ids[i] \in 1..Len(cs)
    OBVIOUS
  <2>2. 1 \in Int /\ n \in Int
    OBVIOUS
  <2>3. /\ SubSeq(ids, 1, n) \in Seq(1..Len(cs))
        /\ Len(SubSeq(ids, 1, n)) = IF 1 <= n THEN n - 1 + 1 ELSE 0
    BY <2>1, <2>2, SubSeqProperties
  <2> QED BY <1>1, <2>3
<1>3. SubSeq(first, 1, m) = SubSeq(ids, 1, m)
  <2>1. m \in 0..Len(first)
    BY <1>1, <1>2
  <2>2. \A i \in 1..m : first[i] = ids[i]
    BY <1>1
  <2> QED BY <1>1, <1>2, <2>1, <2>2
<1> HIDE DEF first
<1>4. m \in 0..Len(first)
  BY <1>1, <1>2
<1>5. /\ UpTo(cs, first, m) \in Seq(Places) /\ Waited(cs, later) \in Seq(Places)
      /\ Waited(cs, first) = UpTo(cs, first, m) \o Waited(cs, later)
  BY <1>2, <1>4, FirstWaited
<1>6. UpTo(cs, first, m) = UpTo(cs, ids, m) /\ Waited(cs, first) = UpTo(cs, ids, n)
  BY <1>3 DEF UpTo, first
<1> DEFINE a == UpTo(cs, ids, m)
           b == Waited(cs, later)
<1>7. /\ a \in Seq(Places) /\ b \in Seq(Places) /\ UpTo(cs, ids, n) = a \o b
  BY <1>5, <1>6
<1> HIDE DEF a, b
<1>8. Len(a \o b) = Len(a) + Len(b) /\ Len(a) \in Nat /\ Len(b) \in Nat
  BY <1>7, ConcatProperties
<1> QED BY <1>7, <1>8 DEF a

(* The words at hand, whatever they are.                                   *)
LEMMA BufferedIsSeq ==
  ASSUME PipelineInv, Listed, toRead # <<>>, replies # <<>>
  PROVE  /\ Buffered \in Seq(Places) /\ Head(toRead) \in Packet /\ Head(replies) \in Reply
         /\ Len(Head(replies).words) = Head(toRead).rc =>
              Buffered = responseBuf \o Head(replies).words
<1> DEFINE words == Head(replies).words
           rc    == Head(toRead).rc
           k     == Smaller(rc, Len(words))
<1>1. /\ toRead \in Seq(Packet) /\ replies \in Seq(Reply) /\ responseBuf \in Seq(Places)
  BY DEF PipelineInv, ControlInv, Typed, Listed
<1>2. Head(toRead) \in Packet /\ Head(replies) \in Reply
  BY <1>1
<1>3. rc \in Nat /\ words \in Seq(Places) /\ Len(words) \in Nat
  BY <1>2 DEF Packet, Reply
<1> HIDE DEF words, rc
<1>4. k \in 0..Len(words)
  BY <1>3 DEF Smaller
<1>5. SubSeq(words, 1, k) \in Seq(Places)
  <2> HIDE DEF k
  <2>1. \A i \in 1..k : words[i] \in Places
    BY <1>3, <1>4
  <2> QED BY <1>4, <2>1, SubSeqProperties
<1>6. Buffered = responseBuf \o SubSeq(words, 1, k)
  BY DEF Buffered, words, rc
<1>7. Len(words) = rc => SubSeq(words, 1, k) = words
  <2>1. Len(words) = rc => k = Len(words)
    BY <1>3 DEF Smaller
  <2> QED BY <1>3, <2>1, SubSeqFull
<1>8. Buffered \in Seq(Places)
  BY <1>1, <1>5, <1>6, ConcatProperties
<1> QED BY <1>2, <1>6, <1>7, <1>8 DEF words, rc

(* Each transfer that is served has all its words at hand.                 *)
LEMMA ServedParts ==
  ASSUME PipelineInv, Listed, toRead # <<>>, replies # <<>>, NEW n \in 1..Served
  PROVE  /\ n \in 1..Len(transferList)
         /\ Needed(n) = Len(UpTo(calls, transferList, n))
         /\ Needed(n - 1) = Len(UpTo(calls, transferList, n - 1))
         /\ Len(UpTo(calls, transferList, n)) <= Len(Buffered)
         /\ SubSeq(Buffered, Needed(n - 1) + 1, Needed(n)) \in Seq(Places)
<1>1. /\ calls \in Seq(Calls) /\ transferList \in Seq(1..Len(calls)) /\ Buffered \in Seq(Places)
  BY BufferedIsSeq DEF PipelineInv, ControlInv, Typed, Listed
<1>2. /\ Served \in 0..Len(transferList)
      /\ Len(UpTo(calls, transferList, Served)) <= Len(Buffered)
      /\ \A m \in 0..Len(transferList) : Needed(m) = Len(UpTo(calls, transferList, m))
  BY <1>1, ServedFits
<1>3. /\ n \in 1..Len(transferList) /\ n \in 0..Len(transferList) /\ n - 1 \in 0..Len(transferList)
      /\ n \in 0..Served
  BY <1>1, <1>2
<1>4. Len(UpTo(calls, transferList, n)) <= Len(UpTo(calls, transferList, Served))
  BY <1>1, <1>2, <1>3, UpToGrows
<1>5. ASSUME NEW m \in 0..Len(transferList)
      PROVE  Len(UpTo(calls, transferList, m)) \in Nat
  BY <1>1, FirstWaited
<1>6. Len(UpTo(calls, transferList, n)) <= Len(Buffered) /\ Len(Buffered) \in Nat
  BY <1>1, <1>2, <1>3, <1>4, <1>5
<1>7. SubSeq(Buffered, Needed(n - 1) + 1, Needed(n)) \in Seq(Places)
  <2> DEFINE a == Needed(n - 1)
             b == Needed(n)
  <2>1. a \in Nat /\ b \in Nat /\ b <= Len(Buffered)
    BY <1>2, <1>3, <1>5, <1>6
  <2> HIDE DEF a, b
  <2>2. \A i \in (a + 1)..b : Buffered[i] \in Places
    BY <1>1, <1>6, <2>1
  <2>3. SubSeq(Buffered, a + 1, b) \in Seq(Places)
    BY <2>1, <2>2, SubSeqProperties
  <2> QED BY <2>3 DEF a, b
<1> QED BY <1>2, <1>3, <1>6, <1>7

(* The waiting transfers that are not served stay.                         *)
LEMMA ReadKeepsList ==
  ASSUME PipelineInv, Listed, ReadPacket
  PROVE  Listed'
<1>1. /\ calls \in Seq(Calls) /\ transferList \in Seq(1..Len(calls)) /\ Buffered \in Seq(Places)
      /\ result \in Seq(Outcome) /\ Len(result) = Len(calls) /\ replies \in Seq(Reply)
      /\ replies # <<>> /\ toRead # <<>>
  BY BufferedIsSeq DEF PipelineInv, ControlInv, Typed, Listed, ReadPacket
<1>2. /\ Served \in 0..Len(transferList)
      /\ Len(UpTo(calls, transferList, Served)) <= Len(Buffered)
      /\ Needed(Served) = Len(UpTo(calls, transferList, Served))
  BY <1>1, ServedFits
<1>3. /\ calls' = calls /\ replies' = Tail(replies) /\ responseBuf' = Rest
      /\ transferList' = SubSeq(transferList, Served + 1, Len(transferList))
  BY DEF ReadPacket
<1>4. /\ transferList' \in Seq(1..Len(calls'))
      /\ \A i \in DOMAIN transferList' :
           Served + i \in DOMAIN transferList /\ transferList'[i] = transferList[Served + i]
  <2> DEFINE s == Served
             N == Len(transferList)
  <2>1. s \in Nat /\ N \in Nat /\ s <= N
    BY <1>1, <1>2
  <2> HIDE DEF s, N
  <2>2. \A i \in (s + 1)..N : transferList[i] \in 1..Len(calls)
    BY <1>1, <2>1 DEF N
  <2>3. /\ SubSeq(transferList, s + 1, N) \in Seq(1..Len(calls))
        /\ Len(SubSeq(transferList, s + 1, N)) = IF s + 1 <= N THEN N - (s + 1) + 1 ELSE 0
        /\ \A i \in 1..(N - (s + 1) + 1) : SubSeq(transferList, s + 1, N)[i] = transferList[s + 1 + i - 1]
    BY <2>1, <2>2, SubSeqProperties
  <2>4. /\ N - (s + 1) + 1 = N - s
        /\ Len(SubSeq(transferList, s + 1, N)) = N - s
        /\ \A i \in 1..(N - s) : s + 1 + i - 1 = s + i /\ s + i \in 1..N
    BY <2>1, <2>3
  <2>5. \A i \in 1..(N - s) : SubSeq(transferList, s + 1, N)[i] = transferList[s + i]
    BY <2>3, <2>4
  <2>6. DOMAIN SubSeq(transferList, s + 1, N) = 1..(N - s) /\ DOMAIN transferList = 1..N
    BY <1>1, <2>3, <2>4 DEF N
  <2> QED BY <1>3, <2>3, <2>4, <2>5, <2>6 DEF s, N
<1>5. /\ \A i \in DOMAIN transferList' : calls'[transferList'[i]].kind \in Reads
      /\ \A i, j \in DOMAIN transferList' : i < j => transferList'[i] < transferList'[j]
  <2>1. \A i \in DOMAIN transferList' : calls'[transferList'[i]].kind \in Reads
    BY <1>3, <1>4 DEF Listed
  <2>2. ASSUME NEW i \in DOMAIN transferList', NEW j \in DOMAIN transferList', i < j
        PROVE  transferList'[i] < transferList'[j]
    <3>1. Served + i < Served + j
      <4>1. DOMAIN transferList' = 1..Len(transferList')
        BY <1>4
      <4> QED BY <1>2, <2>2, <4>1
    <3> QED BY <1>4, <3>1 DEF Listed
  <2> QED BY <2>1, <2>2
<1>6. result' \in Seq(Outcome) /\ Len(result') = Len(result)
  <2> DEFINE part(n) == [state |-> "done", words |-> SubSeq(Buffered, Needed(n - 1) + 1, Needed(n))]
             f(r) == IF \E n \in 1..Served : transferList[n] = r
                       THEN LET n == CHOOSE n \in 1..Served : transferList[n] = r
                            IN [state |-> "done",
                                words |-> SubSeq(Buffered, Needed(n - 1) + 1, Needed(n))]
                       ELSE result[r]
  <2>1. \A n \in 1..Served : part(n) \in Outcome
    <3> TAKE n \in 1..Served
    <3>1. SubSeq(Buffered, Needed(n - 1) + 1, Needed(n)) \in Seq(Places)
      BY <1>1, ServedParts
    <3> QED BY <3>1 DEF Outcome
  <2>2. ASSUME NEW r \in 1..Len(result) PROVE f(r) \in Outcome
    <3>1. CASE \E n \in 1..Served : transferList[n] = r
      <4> DEFINE n == CHOOSE n \in 1..Served : transferList[n] = r
      <4>1. n \in 1..Served
        BY <3>1
      <4>2. f(r) = part(n)
        BY <3>1
      <4> HIDE DEF n, part, f
      <4> QED BY <2>1, <4>1, <4>2
    <3>2. CASE ~ \E n \in 1..Served : transferList[n] = r
      <4>1. f(r) = result[r]
        BY <3>2, Zenon
      <4> HIDE DEF f
      <4> QED BY <1>1, <4>1
    <3> QED BY <3>1, <3>2
  <2>3. result' = [r \in DOMAIN result |-> f(r)] /\ DOMAIN result = 1..Len(result)
    <3>1. DOMAIN result = 1..Len(result)
      BY <1>1
    <3>2. result' = [r \in DOMAIN result |-> f(r)]
      BY Zenon DEF ReadPacket
    <3> QED BY <3>1, <3>2
  <2> HIDE DEF f
  <2>4. Len(result) \in Nat
    BY <1>1
  <2> QED BY <2>2, <2>3, <2>4
<1>7. responseBuf' \in Seq(Places) /\ replies' \in Seq(Reply)
  <2> DEFINE a == Needed(Served)
  <2>1. a \in Nat
    <3>1. UpTo(calls, transferList, Served) \in Seq(Places)
      BY <1>1, <1>2, FirstWaited
    <3> QED BY <1>2, <3>1
  <2> HIDE DEF a
  <2>2. \A i \in (a + 1)..Len(Buffered) : Buffered[i] \in Places
    BY <1>1, <2>1
  <2>3. SubSeq(Buffered, a + 1, Len(Buffered)) \in Seq(Places)
    <3>1. Len(Buffered) \in Int /\ a + 1 \in Int
      BY <1>1, <2>1
    <3> QED BY <2>2, <3>1, SubSeqProperties
  <2>4. responseBuf' \in Seq(Places)
    BY <1>3, <2>3 DEF Rest, a
  <2> QED BY <1>1, <1>3, <2>4
<1> QED BY <1>1, <1>3, <1>4, <1>5, <1>6, <1>7 DEF Listed

(* While no USB fault has happened, what is read is what the first packet  *)
(* in flight asked for, and comes first of what is waited for.             *)
LEMMA FirstReply ==
  ASSUME PipelineInv, WordsInv, NoUsbFault, ReadPacket
  PROVE  /\ Buffered = responseBuf \o Answers(calls, Head(toRead).data)
         /\ LET more == Flying(calls, Tail(toRead)) \o
                          (Answers(calls, crntCmd.data) \o Remaining(calls, pc, job))
            IN more \in Seq(Places) /\ Waited(calls, transferList) = Buffered \o more
<1>1. /\ toRead # <<>> /\ replies # <<>> /\ Decodes(Head(toRead), Head(replies))
      /\ Listed /\ Sized /\ Answering /\ Balanced
  BY DEF ReadPacket, WordsInv
<1>2. /\ toRead \in Seq(Packet) /\ replies \in Seq(Reply) /\ responseBuf \in Seq(Places)
      /\ crntCmd.data \in Seq(Places)
  BY <1>1 DEF PipelineInv, ControlInv, Typed, Packet, Listed
<1>3. /\ 1 \in DOMAIN toRead /\ Head(toRead) = toRead[1] /\ Head(replies) = replies[1]
      /\ Head(toRead) \in Packet /\ Tail(toRead) \in Seq(Packet)
  BY <1>1, <1>2
<1> DEFINE data == Head(toRead).data
           A    == Answers(calls, data)
           F    == Flying(calls, Tail(toRead))
           C    == Answers(calls, crntCmd.data) \o Remaining(calls, pc, job)
<1>4. Head(replies).words = A /\ Len(A) = Head(toRead).rc
  <2>1. Head(replies).ok
    BY <1>1 DEF Decodes
  <2> QED BY <1>1, <1>3, <2>1 DEF Answering, Sized, Counted
<1>5. Buffered = responseBuf \o A
  BY <1>1, <1>4, BufferedIsSeq
<1>6. /\ data \in Seq(Places) /\ A \in Seq(Places) /\ F \in Seq(Places) /\ C \in Seq(Places)
  <2>1. data \in Seq(Places)
    BY <1>3 DEF Packet
  <2>2. A \in Seq(Places)
    <3> HIDE DEF data
    <3> QED BY <2>1, AnswersIsSeq
  <2>3. F \in Seq(Places)
    BY <1>3, FlyingIsSeq
  <2>4. Answers(calls, crntCmd.data) \in Seq(Places) /\ Remaining(calls, pc, job) \in Seq(Places)
    BY <1>2, AnswersIsSeq, RemainingIsSeq
  <2>5. C \in Seq(Places)
    BY <2>4, ConcatProperties
  <2> QED BY <2>1, <2>2, <2>3, <2>5
<1>7. Flying(calls, toRead) = A \o F
  <2>1. toRead = <<Head(toRead)>> \o Tail(toRead) /\ <<Head(toRead)>> \in Seq(Packet)
    BY <1>1, <1>2, <1>3
  <2>2. Flying(calls, <<Head(toRead)>> \o Tail(toRead))
          = Flying(calls, <<Head(toRead)>>) \o Flying(calls, Tail(toRead))
    BY <1>3, <2>1, FlyingConcat
  <2>3. Flying(calls, <<Head(toRead)>>) = A
    BY <1>3, FlyingOne
  <2> QED BY <2>1, <2>2, <2>3
<1>8. Waited(calls, transferList) = responseBuf \o ((A \o F) \o C)
  BY <1>1, <1>7 DEF Balanced
<1> HIDE DEF A, F, C
<1>9. F \o C \in Seq(Places) /\ responseBuf \o ((A \o F) \o C) = (responseBuf \o A) \o (F \o C)
  <2>1. F \o C \in Seq(Places) /\ A \o F \in Seq(Places)
    BY <1>6, ConcatProperties
  <2>2. (A \o F) \o C = A \o (F \o C)
    BY <1>6, ConcatAssociative
  <2>3. (responseBuf \o A) \o (F \o C) = responseBuf \o (A \o (F \o C))
    <3> DEFINE G == F \o C
    <3>1. responseBuf \in Seq(Places) /\ A \in Seq(Places) /\ G \in Seq(Places)
      BY <1>2, <1>6, <2>1
    <3> HIDE DEF G
    <3>2. (responseBuf \o A) \o G = responseBuf \o (A \o G)
      BY ONLY <3>1, ConcatAssociative
    <3> QED BY <3>2 DEF G
  <2> QED BY <2>1, <2>2, <2>3
<1> QED BY <1>5, <1>8, <1>9 DEF A, F, C

(* The words of a reply go to those who wait for them, and the rest is     *)
(* kept.                                                                   *)
LEMMA ReadKeepsWords ==
  ASSUME PipelineInv, WordsInv, ReadPacket, UNCHANGED session,
         Remaining(calls, pc, job)' = Remaining(calls, pc, job)
  PROVE  WordsInv'
<1>1. /\ Listed /\ Sized /\ Faulted /\ toRead # <<>> /\ replies # <<>>
      /\ calls \in Seq(Calls) /\ transferList \in Seq(1..Len(calls))
      /\ toRead \in Seq(Packet) /\ replies \in Seq(Reply)
      /\ Buffered \in Seq(Places)
  BY BufferedIsSeq DEF PipelineInv, ControlInv, Typed, WordsInv, Listed, ReadPacket
<1>2. /\ UNCHANGED <<calls, crntCmd, isOpen, faults>>
      /\ toRead' = Tail(toRead) /\ replies' = Tail(replies) /\ responseBuf' = Rest
      /\ transferList' = SubSeq(transferList, Served + 1, Len(transferList))
  BY DEF ReadPacket, modes
<1>3. Listed'
  BY <1>1, ReadKeepsList
<1>4. /\ toRead' \in Seq(Packet)
      /\ \A i \in DOMAIN toRead' : i + 1 \in DOMAIN toRead /\ toRead'[i] = toRead[i + 1]
  BY <1>1, <1>2
<1>5. Sized'
  BY <1>1, <1>2, <1>4 DEF Sized
<1>6. Faulted' /\ NoUsbFault' = NoUsbFault
  BY <1>1, <1>2 DEF Faulted, NoUsbFault
<1>7. ASSUME NoUsbFault
      PROVE  /\ Answering' /\ Balanced' /\ Unfinished'
             /\ ~isOpen' => transferList' = <<>>
  <2>1. Answering /\ Balanced /\ Unfinished /\ (~isOpen => transferList = <<>>)
    BY <1>7 DEF WordsInv
  <2>2. Answering'
    <3>1. /\ Len(replies') = Len(toRead')
          /\ \A i \in DOMAIN toRead' : replies'[i] = replies[i + 1]
      BY <1>1, <1>2, <2>1 DEF Answering
    <3>2. ASSUME NEW i \in DOMAIN toRead', replies'[i].ok
          PROVE  Decodes(toRead'[i], replies'[i]) /\ replies'[i].words = Answers(calls, toRead'[i].data)
      BY <1>4, <2>1, <3>1, <3>2 DEF Answering
    <3> QED BY <1>2, <3>1, <3>2 DEF Answering, Decodes
  <2> DEFINE have == Buffered
             more == Flying(calls, Tail(toRead)) \o
                       (Answers(calls, crntCmd.data) \o Remaining(calls, pc, job))
             s    == Served
             a    == UpTo(calls, transferList, s)
             rest == SubSeq(have, Len(a) + 1, Len(have))
  <2>3. have \in Seq(Places) /\ more \in Seq(Places) /\ Waited(calls, transferList) = have \o more
    BY <1>1, <1>7, FirstReply
  <2>4. /\ s \in 0..Len(transferList) /\ Len(a) <= Len(have) /\ Rest = rest
        /\ \A n \in 0..Len(transferList) : n > s => Len(UpTo(calls, transferList, n)) > Len(have)
    BY <1>1, ServedFits DEF Rest
  <2> HIDE DEF have, more, s, a
  <2>5. /\ rest \in Seq(Places) /\ Len(rest) = Len(have) - Len(a)
        /\ rest \o more = Waited(calls, SubSeq(transferList, s + 1, Len(transferList)))
    <3>1. Len(UpTo(calls, transferList, s)) <= Len(have)
      BY <2>4 DEF a
    <3>2. rest = SubSeq(have, Len(UpTo(calls, transferList, s)) + 1, Len(have))
      BY DEF a
    <3> HIDE DEF rest
    <3>3. /\ rest \in Seq(Places) /\ Len(rest) = Len(have) - Len(UpTo(calls, transferList, s))
          /\ rest \o more = Waited(calls, SubSeq(transferList, s + 1, Len(transferList)))
      <4>1. Enough(calls, transferList, s, have, more)
        BY <1>1, <2>3, <2>4, <3>1 DEF Enough
      <4> QED BY ONLY <3>2, <4>1, ServedRest
    <3> QED BY <3>3 DEF a
  <2>6. Balanced'
    BY <1>2, <2>4, <2>5 DEF Balanced, more, s
  <2>7. Unfinished'
    <3> SUFFICES ASSUME transferList' # <<>>
                 PROVE  Len(responseBuf') < calls'[transferList'[1]].count
      BY DEF Unfinished
    <3> DEFINE N == Len(transferList)
    <3>0. N \in Nat /\ s \in 0..N
      BY <1>1, <2>4
    <3>1. s < N
      <4>1. s = N => SubSeq(transferList, s + 1, N) = <<>>
        BY <3>0, SubSeqEmpty
      <4> QED BY <1>2, <3>0, <4>1 DEF s
    <3>2. s + 1 \in 1..N /\ s + 1 \in 0..N /\ s + 1 > s /\ s + 1 # 0 /\ (s + 1) - 1 = s
      BY <3>0, <3>1
    <3> DEFINE id == transferList[s + 1]
    <3>3. transferList'[1] = id /\ id \in 1..Len(calls)
      <4>1. id \in 1..Len(calls)
        BY <1>1, <3>2
      <4>2. transferList'[1] = transferList[s + 1]
        <5>1. transferList' = SubSeq(transferList, s + 1, N)
          BY <1>2 DEF s
        <5> HIDE DEF N
        <5> QED BY <1>1, <3>0, <3>1, <3>2, <5>1
      <4> QED BY <4>1, <4>2
    <3> DEFINE b == WordsOf(calls, id, 0)
               u == UpTo(calls, transferList, s + 1)
    <3>4. u = a \o b
      <4>1. UpTo(calls, transferList, s + 1)
              = UpTo(calls, transferList, (s + 1) - 1) \o WordsOf(calls, transferList[s + 1], 0)
        BY <1>1, <3>2, FirstWaited
      <4> QED BY <3>2, <4>1 DEF a
    <3>5. a \in Seq(Places)
      BY <1>1, <2>4, FirstWaited DEF a
    <3>6. b \in Seq(Places) /\ Len(b) = calls[id].count /\ calls[id].count \in Nat
      <4> HIDE DEF id
      <4>1. 0 \in Nat /\ calls[id].count \in Nat
        BY <1>1, <3>3, WordsOfIsSeq
      <4>2. /\ WordsOf(calls, id, 0) \in Seq(Places)
            /\ Len(WordsOf(calls, id, 0)) = IF 0 <= calls[id].count THEN calls[id].count - 0 ELSE 0
        BY <1>1, <3>3, <4>1, WordsOfIsSeq
      <4> QED BY <4>1, <4>2
    <3>7. Len(u) > Len(have)
      BY <2>4, <3>2
    <3> HIDE DEF b, u, id
    <3>8. Len(u) = Len(a) + Len(b)
      BY <3>4, <3>5, <3>6, ConcatProperties
    <3>9. Len(a) \in Nat /\ Len(have) \in Nat
      BY <2>3, <3>5
    <3>10. Len(rest) < calls[id].count
      BY <2>5, <3>6, <3>7, <3>8, <3>9
    <3> QED BY <1>2, <2>4, <3>3, <3>10
  <2>8. ~isOpen' => transferList' = <<>>
    BY <1>2, <2>1, SubSeqEmpty, <2>4 DEF s
  <2> QED BY <2>2, <2>6, <2>7, <2>8
<1> QED BY <1>3, <1>5, <1>6, <1>7 DEF WordsInv

(* A packet is sent, a reply is read, or either raises.                    *)
LEMMA PacketsKeepCover ==
  ASSUME PipelineInv, CoverInv, NEW t \in Threads, UNCHANGED session,
         MakeRoom(t) \/ Send(t) \/ Drain(t) \/ GetRead(t)
  PROVE  CoverInv'
<1>1. /\ pc \in [Threads -> Labels] /\ (pc[t] \in Locked <=> lock = t)
      /\ Settled /\ WordsInv /\ replies \in Seq(Reply)
  BY DEF PipelineInv, ControlInv, Typed, LockFits, CoverInv, WordsInv, Listed
<1>2. ASSUME NEW label, ReadPacket, Goto(t, label), job' = job,
             (label \in {"send", "flush", "drain"} /\ label = pc[t])
               \/ (label = "check" /\ pc[t] = "read")
      PROVE  CoverInv'
  <2>1. /\ toRead # <<>> /\ calls' = calls /\ crntCmd' = crntCmd /\ isOpen' = isOpen
    BY <1>2 DEF ReadPacket, modes
  <2>2. Remaining(calls, pc, job)' = Remaining(calls, pc, job)
    <3>1. label \in {"fill", "send"} <=> Filling(t)
      BY <1>2 DEF Filling
    <3> QED BY <1>2, <2>1, <3>1, MovesKeepRemaining
  <2>3. WordsInv'
    BY <1>1, <1>2, <2>2, ReadKeepsWords
  <2>4. /\ label \in {"fill", "send"} => isOpen
        /\ label \in {"drain", "exchange", "close"} => crntCmd'.data = <<>>
        /\ label \notin {"exchange", "close"}
    BY <1>1, <1>2, <2>1 DEF Settled, Filling
  <2>5. Settled'
    BY <1>1, <1>2, <2>1, <2>4, SettledKept
  <2> QED BY <2>3, <2>5 DEF CoverInv
<1>3. CASE MakeRoom(t)
  <2>1. pc[t] \in {"send", "flush"} /\ lock = t
    BY <1>1, <1>3 DEF MakeRoom, Sending, Locked
  <2>2. CASE ReadPacket /\ UNCHANGED <<pc, lock, job>>
    BY <1>1, <1>2, <2>1, <2>2 DEF Goto
  <2>3. CASE (ReadPacketBad \/ ReadPacketRaises) /\ Raise(t)
    BY <2>1, <2>3, RaisesKeepCover
  <2> QED BY <1>3, <2>2, <2>3 DEF MakeRoom
<1>4. CASE Drain(t)
  <2>1. pc[t] = "drain" /\ lock = t
    BY <1>1, <1>4 DEF Drain, Locked
  <2>2. CASE ReadPacket /\ UNCHANGED <<pc, lock, job>>
    BY <1>1, <1>2, <2>1, <2>2 DEF Goto
  <2>3. CASE (ReadPacketBad \/ ReadPacketRaises) /\ Raise(t)
    BY <2>1, <2>3, RaisesKeepCover
  <2> QED BY <1>4, <2>2, <2>3 DEF Drain
<1>5. CASE Send(t)
  <2>1. pc[t] \in {"send", "flush"} /\ lock = t /\ crntCmd.data # <<>>
    BY <1>1, <1>5 DEF Send, Sending, Locked, IsEmpty
  <2>2. CASE SendPacket /\ Goto(t, AfterSend(t)) /\ UNCHANGED <<lock, job>>
    <3>1. calls' = calls /\ isOpen' = isOpen /\ crntCmd'.data = <<>>
      BY <2>2, NewIsCounted DEF SendPacket, history, modes
    <3>2. /\ AfterSend(t) \in {"fill", "drain"}
          /\ AfterSend(t) = "fill" <=> Filling(t)
      BY <2>1 DEF AfterSend, Filling
    <3>3. Remaining(calls, pc, job)' = Remaining(calls, pc, job)
      BY <2>2, <3>1, <3>2, MovesKeepRemaining
    <3>4. WordsInv'
      BY <1>1, <2>2, <3>3, SendKeepsWords
    <3>5. isOpen
      BY <1>1, <2>1 DEF Settled
    <3>6. Settled'
      BY <1>1, <2>1, <2>2, <3>1, <3>2, <3>5, SettledKept
    <3> QED BY <3>4, <3>6 DEF CoverInv
  <2>3. CASE SendPacketRaises /\ Raise(t)
    BY <2>1, <2>3, RaisesKeepCover
  <2> QED BY <1>5, <2>2, <2>3 DEF Send
<1>6. CASE GetRead(t)
  <2>1. pc[t] = "read" /\ lock = NoReq /\ ~Filling(t)
    BY <1>6 DEF GetRead, Filling
  <2>2. CASE ReadPacket /\ Goto(t, "check") /\ UNCHANGED <<lock, job>>
    BY <1>2, <2>1, <2>2
  <2>3. CASE (ReadPacketBad \/ ReadPacketRaises) /\ Raise(t)
    BY <2>1, <2>3, RaisesKeepCover
  <2>4. CASE /\ Goto(t, "idle")
             /\ UNCHANGED <<calls, result, buffers, modes, probe, lock, job, faults>>
    <3>1. /\ UNCHANGED <<session, calls, result, transferList, crntCmd, toRead, responseBuf,
                         isOpen, faults>>
          /\ replies' = replies /\ job' = job
      BY <2>4 DEF buffers, modes, probe
    <3> QED BY <1>1, <2>1, <2>4, <3>1, MoveKeepsCover
  <2> QED BY <1>6, <2>2, <2>3, <2>4 DEF GetRead
<1> QED BY <1>3, <1>4, <1>5, <1>6

-----------------------------------------------------------------------------
(* An operation begins                                                     *)

(* The packets stay what they were.                                        *)
LEMMA PacketsStay ==
  ASSUME PipelineInv, Sized, NEW call \in Calls
  PROVE  /\ Flying(Append(calls, call), toRead) = Flying(calls, toRead)
         /\ Answers(Append(calls, call), crntCmd.data) = Answers(calls, crntCmd.data)
         /\ \A k \in DOMAIN toRead :
              Answers(Append(calls, call), toRead[k].data) = Answers(calls, toRead[k].data)
         /\ Counted(Append(calls, call), crntCmd)
         /\ \A k \in DOMAIN toRead : Counted(Append(calls, call), toRead[k])
<1> DEFINE cs == Append(calls, call)
<1>1. /\ calls \in Seq(Calls) /\ toRead \in Seq(Packet) /\ crntCmd \in Packet
      /\ Len(calls) \in Nat /\ Len(cs) = Len(calls) + 1
  BY DEF PipelineInv, ControlInv, Typed
<1>2. ASSUME NEW cmd \in Packet, Counted(calls, cmd)
      PROVE  Answers(cs, cmd.data) = Answers(calls, cmd.data) /\ Counted(cs, cmd)
  <2>1. cmd.data \in Seq(Places) /\ Known(calls, cmd.data)
    BY <1>2 DEF Packet, Counted
  <2>2. Answers(cs, cmd.data) = Answers(calls, cmd.data)
    BY <1>1, <2>1, AnswersStay
  <2>3. Known(cs, cmd.data)
    BY <1>1, <2>1 DEF Known
  <2> QED BY <1>2, <2>2, <2>3 DEF Counted
<1>3. \A k \in DOMAIN toRead : toRead[k] \in Packet /\ Counted(calls, toRead[k])
  BY <1>1 DEF Sized
<1>4. Flying(cs, toRead) = Flying(calls, toRead)
  <2>1. \A k \in DOMAIN toRead : Known(calls, toRead[k].data)
    BY <1>3 DEF Counted
  <2> QED BY <1>1, <2>1, FlyingStays
<1> HIDE DEF cs
<1>5. Counted(calls, crntCmd)
  BY DEF Sized
<1> QED BY <1>1, <1>2, <1>3, <1>4, <1>5 DEF cs

(* A new read waits for its words, all of which are still to be added.     *)
LEMMA IssuesKeepWords ==
  ASSUME PipelineInv, WordsInv, isOpen, lock = NoReq,
         UNCHANGED <<session, crntCmd, toRead, responseBuf, replies, faults, isOpen>>,
         NEW call \in Calls, calls' = Append(calls, call),
         NEW outcome \in {"posted", "pending"}, result' = Append(result, NoWords(outcome)),
         \/ /\ transferList' = transferList
            /\ Remaining(calls, pc, job)' = <<>>
         \/ /\ transferList' = Append(transferList, Len(calls) + 1)
            /\ call.kind \in Reads /\ call.count > 0
            /\ Remaining(calls, pc, job)' = WordsOf(calls', Len(calls) + 1, 0)
  PROVE  WordsInv'
<1> DEFINE cs == Append(calls, call)
           id == Len(calls) + 1
<1>1. /\ Listed /\ Sized /\ Faulted /\ NoReq \notin Threads
      /\ calls \in Seq(Calls) /\ toRead \in Seq(Packet) /\ crntCmd \in Packet
      /\ crntCmd.data \in Seq(Places)
      /\ transferList \in Seq(1..Len(calls)) /\ Len(calls) \in Nat
      /\ responseBuf \in Seq(Places) /\ result \in Seq(Outcome) /\ Len(result) = Len(calls)
      /\ replies \in Seq(Reply)
  BY PipelineAssumption DEF PipelineInv, ControlInv, Typed, Packet, WordsInv, Listed
<1>2. /\ cs \in Seq(Calls) /\ Len(cs) = Len(calls) + 1 /\ cs[id] = call
      /\ \A i \in 1..Len(calls) : cs[i] = calls[i] /\ i \in 1..Len(cs)
      /\ id \in 1..Len(cs) /\ id \in Nat
  BY <1>1
<1>3. calls' = cs /\ id \notin 1..Len(calls) /\ \A i \in 1..Len(calls) : i < id
  BY <1>1
<1> HIDE DEF cs, id
<1>4. Remaining(calls, pc, job) = <<>>
  <2>1. \A u \in Threads : ~Filling(u)
    BY <1>1 DEF PipelineInv, ControlInv, LockFits, Filling, Locked
  <2> QED BY <2>1, RemainingNone DEF Filling
<1>5. /\ Flying(cs, toRead) = Flying(calls, toRead)
      /\ Answers(cs, crntCmd.data) = Answers(calls, crntCmd.data)
      /\ \A k \in DOMAIN toRead : Answers(cs, toRead[k].data) = Answers(calls, toRead[k].data)
      /\ Counted(cs, crntCmd) /\ \A k \in DOMAIN toRead : Counted(cs, toRead[k])
  BY <1>1, PacketsStay DEF cs
<1>6. transferList \in Seq(1..Len(cs))
  <2> DEFINE S == 1..Len(calls)
             T == 1..Len(cs)
  <2>1. S \subseteq T /\ transferList \in Seq(S)
    BY <1>1, <1>2
  <2> HIDE DEF S, T
  <2>2. transferList \in Seq(T)
    BY ONLY <2>1
  <2> QED BY <2>2 DEF T
<1>7. Waited(cs, transferList) = Waited(calls, transferList)
  BY <1>1, WaitedStays DEF cs
<1>8. result' \in Seq(Outcome) /\ Len(result') = Len(calls')
  <2>1. NoWords(outcome) \in Outcome
    BY DEF NoWords, Outcome
  <2> DEFINE what == NoWords(outcome)
  <2>2. result' = Append(result, what) /\ what \in Outcome /\ result \in Seq(Outcome)
        /\ Len(result) = Len(calls) /\ Len(calls') = Len(calls) + 1
    BY <1>1, <1>2, <1>3, <2>1
  <2> HIDE DEF what
  <2>3. Append(result, what) \in Seq(Outcome) /\ Len(Append(result, what)) = Len(result) + 1
    BY ONLY <2>2, AppendProperties
  <2> QED BY <2>2, <2>3
<1>9. CASE transferList' = transferList /\ Remaining(calls, pc, job)' = <<>>
  <2>1. Listed'
    <3>1. transferList \in Seq(1..Len(cs)) /\ DOMAIN transferList = 1..Len(transferList)
      BY <1>6, <1>9
    <3>2. \A i \in 1..Len(transferList) : cs[transferList[i]].kind \in Reads
      <4> TAKE i \in 1..Len(transferList)
      <4>1. transferList[i] \in 1..Len(calls)
        BY <1>1
      <4> QED BY <1>1, <1>2, <3>1, <4>1 DEF Listed
    <3>3. responseBuf' = responseBuf /\ replies' = replies
      OBVIOUS
    <3> QED BY <1>1, <1>3, <1>8, <1>9, <3>1, <3>2, <3>3 DEF Listed
  <2>2. Sized' /\ Faulted' /\ NoUsbFault' = NoUsbFault
    BY <1>1, <1>3, <1>5 DEF Sized, Faulted, NoUsbFault
  <2>3. ASSUME NoUsbFault
        PROVE  Answering' /\ Balanced' /\ Unfinished'
    <3>1. Answering /\ Balanced /\ Unfinished
      BY <2>3 DEF WordsInv
    <3>2. Answering'
      BY <1>3, <1>5, <3>1 DEF Answering, Decodes
    <3>3. Balanced'
      BY <1>3, <1>4, <1>5, <1>7, <1>9, <3>1 DEF Balanced
    <3>4. Unfinished'
      BY <1>1, <1>2, <1>3, <1>9, <3>1 DEF Unfinished
    <3> QED BY <3>2, <3>3, <3>4
  <2> QED BY <2>1, <2>2, <2>3 DEF WordsInv
<1>10. CASE /\ transferList' = Append(transferList, id)
            /\ call.kind \in Reads /\ call.count > 0
            /\ Remaining(calls, pc, job)' = WordsOf(calls', id, 0)
  <2>1. /\ transferList' \in Seq(1..Len(cs)) /\ Len(transferList') = Len(transferList) + 1
        /\ Len(transferList) \in Nat
        /\ \A i \in 1..Len(transferList) : /\ transferList'[i] = transferList[i]
                                           /\ transferList[i] \in 1..Len(calls)
        /\ transferList'[Len(transferList) + 1] = id
        /\ DOMAIN transferList' = 1..(Len(transferList) + 1)
    <3>1. transferList \in Seq(1..Len(cs)) /\ id \in 1..Len(cs)
      BY <1>2, <1>6
    <3>2. transferList' = Append(transferList, id)
      BY <1>10
    <3>3. \A i \in 1..Len(transferList) : transferList[i] \in 1..Len(calls)
      BY <1>1
    <3> QED BY ONLY <3>1, <3>2, <3>3
  <2>2. Listed'
    <3>1. ASSUME NEW i \in 1..(Len(transferList) + 1)
          PROVE  i \in 1..Len(transferList) \/ i = Len(transferList) + 1
      BY <2>1
    <3>2. \A i \in 1..(Len(transferList) + 1) : cs[transferList'[i]].kind \in Reads
      <4> TAKE i \in 1..(Len(transferList) + 1)
      <4>1. CASE i \in 1..Len(transferList)
        <5>1. transferList[i] \in 1..Len(calls) /\ transferList'[i] = transferList[i]
          BY <2>1, <4>1
        <5>2. calls[transferList[i]].kind \in Reads
          BY <1>1, <4>1 DEF Listed
        <5> QED BY <1>2, <5>1, <5>2
      <4>2. CASE i = Len(transferList) + 1
        BY <1>2, <1>10, <2>1, <4>2
      <4> QED BY <3>1, <4>1, <4>2
    <3>3. ASSUME NEW i \in 1..(Len(transferList) + 1), NEW j \in 1..(Len(transferList) + 1), i < j
          PROVE  transferList'[i] < transferList'[j]
      <4>1. i \in 1..Len(transferList)
        BY <2>1, <3>3
      <4>2. CASE j \in 1..Len(transferList)
        <5>1. i \in DOMAIN transferList /\ j \in DOMAIN transferList
          BY <1>1, <4>1, <4>2
        <5>2. transferList[i] < transferList[j]
          BY <1>1, <3>3, <5>1 DEF Listed
        <5> QED BY <2>1, <4>1, <4>2, <5>2
      <4>3. CASE j = Len(transferList) + 1
        BY <1>3, <2>1, <4>1, <4>3
      <4> QED BY <3>1, <4>2, <4>3
    <3> QED BY <1>1, <1>3, <1>8, <2>1, <3>2, <3>3 DEF Listed
  <2>3. Sized' /\ Faulted' /\ NoUsbFault' = NoUsbFault
    BY <1>1, <1>3, <1>5 DEF Sized, Faulted, NoUsbFault
  <2>4. ASSUME NoUsbFault
        PROVE  Answering' /\ Balanced' /\ Unfinished'
    <3>1. Answering /\ Balanced /\ Unfinished
      BY <2>4 DEF WordsInv
    <3>2. Answering'
      BY <1>3, <1>5, <3>1 DEF Answering, Decodes
    <3> DEFINE F == Flying(calls, toRead)
               A == Answers(calls, crntCmd.data)
               N == WordsOf(cs, id, 0)
    <3>3. F \in Seq(Places) /\ A \in Seq(Places) /\ N \in Seq(Places)
      BY <1>1, <1>2, FlyingIsSeq, AnswersIsSeq, WordsOfIsSeq
    <3>4. Waited(calls, transferList) = responseBuf \o (F \o A)
      <4>1. Waited(calls, transferList) = responseBuf \o (F \o (A \o <<>>))
        BY <1>4, <3>1 DEF Balanced
      <4> HIDE DEF F, A
      <4>2. A \o <<>> = A
        BY <3>3, ConcatEmptySeq
      <4> QED BY <4>1, <4>2
    <3>5. Balanced'
      <4>1. Waited(cs, transferList') = Waited(cs, transferList) \o N
        <5>1. transferList' = transferList \o <<id>> /\ <<id>> \in Seq(1..Len(cs))
          BY <1>2, <1>6, <1>10, AppendIsConcat
        <5>2. Waited(cs, transferList \o <<id>>) = Waited(cs, transferList) \o Waited(cs, <<id>>)
          BY <1>2, <1>6, <5>1, WaitedConcat
        <5>3. Waited(cs, <<id>>) = N
          BY <1>2, WaitedOne
        <5> QED BY <5>1, <5>2, <5>3
      <4> HIDE DEF F, A, N
      <4>2. (responseBuf \o (F \o A)) \o N = responseBuf \o (F \o (A \o N))
        <5>1. F \o A \in Seq(Places)
          BY <3>3, ConcatProperties
        <5>2. (F \o A) \o N = F \o (A \o N)
          BY ONLY <3>3
        <5> DEFINE G == F \o A
        <5>3. G \in Seq(Places) /\ N \in Seq(Places) /\ responseBuf \in Seq(Places)
          BY <1>1, <3>3, <5>1
        <5> HIDE DEF G
        <5>4. (responseBuf \o G) \o N = responseBuf \o (G \o N)
          BY ONLY <5>3, ConcatAssociative
        <5> QED BY <5>2, <5>4 DEF G
      <4>3. Waited(calls', transferList') = responseBuf \o (F \o (A \o N))
        BY <1>3, <1>7, <3>4, <4>1, <4>2
      <4>4. /\ Flying(calls', toRead') = F /\ Answers(calls', crntCmd'.data) = A
            /\ Remaining(calls, pc, job)' = N
        BY <1>3, <1>5, <1>10 DEF F, A, N
      <4> QED BY <4>3, <4>4 DEF Balanced
    <3>6. Unfinished'
      <4>1. CASE transferList # <<>>
        <5>1. 1 \in 1..Len(transferList)
          BY <1>1, <4>1
        <5> QED BY <1>2, <1>3, <2>1, <3>1, <4>1, <5>1 DEF Unfinished
      <4>2. CASE transferList = <<>>
        <5>1. transferList'[1] = id
          BY <2>1, <4>2
        <5>2. responseBuf = <<>>
          <6>1. responseBuf \o (F \o A) = <<>>
            BY <3>4, <4>2, WaitedNone
          <6> HIDE DEF F, A
          <6>2. F \o A \in Seq(Places)
            BY <3>3, ConcatProperties
          <6> DEFINE G == F \o A
          <6>3. responseBuf \o G = <<>> /\ G \in Seq(Places) /\ responseBuf \in Seq(Places)
            BY <1>1, <6>1, <6>2
          <6> HIDE DEF G
          <6> QED BY ONLY <6>3, ConcatSimplifications
        <5> QED BY <1>2, <1>3, <1>10, <5>1, <5>2 DEF Unfinished
      <4> QED BY <4>1, <4>2
    <3> QED BY <3>2, <3>5, <3>6
  <2> QED BY <2>2, <2>3, <2>4 DEF WordsInv
<1> QED BY <1>9, <1>10 DEF id

(* A new access has all its words still to be added.                       *)
LEMMA RemainingNew ==
  ASSUME PipelineInv, lock = NoReq, NEW t \in Threads, Goto(t, "fill"),
         NEW call \in Calls, calls' = Append(calls, call), NEW after,
         job' = [job EXCEPT ![t] =
                   [id |-> Len(calls) + 1, left |-> call.count, after |-> after]]
  PROVE  Remaining(calls, pc, job)' =
           IF call.kind \in Reads THEN WordsOf(calls', Len(calls) + 1, 0) ELSE <<>>
<1>1. /\ NoReq \notin Threads /\ calls \in Seq(Calls) /\ pc \in [Threads -> Labels]
      /\ job \in [Threads -> [id : Nat, left : Nat, after : Labels]]
  BY PipelineAssumption DEF PipelineInv, ControlInv, Typed
<1>2. /\ pc'[t] = "fill" /\ \A u \in Threads : u # t => pc'[u] \notin {"fill", "send"}
      /\ job'[t].id = Len(calls) + 1 /\ job'[t].left = call.count
  BY <1>1 DEF PipelineInv, ControlInv, LockFits, Locked, Goto
<1>3. calls'[Len(calls) + 1] = call /\ call.count - call.count = 0
  BY <1>1 DEF Calls
<1>4. Remaining(calls', pc', job') =
        IF calls'[job'[t].id].kind \in Reads
          THEN WordsOf(calls', job'[t].id, calls'[job'[t].id].count - job'[t].left) ELSE <<>>
  BY <1>2, RemainingOne
<1> QED BY <1>2, <1>3, <1>4

(* Every operation begins with nobody in _write().                         *)
LEMMA BeginningsKeepCover ==
  ASSUME PipelineInv, CoverInv, NEW t \in Threads, UNCHANGED session,
         \/ \E req \in Writes, n \in session.counts : BeginWrite(t, req, n)
         \/ \E req \in Reads, n \in session.counts, now \in BOOLEAN :
              BeginRead(t, req, n, now)
         \/ Flush(t) \/ Direct(t) \/ Close(t) \/ Undefer(t)
  PROVE  CoverInv'
<1>1. /\ session.counts \subseteq Nat \ {0} /\ Reads \cap Writes = {} /\ NoReq \notin Threads
      /\ Settled /\ WordsInv
  BY PipelineAssumption DEF PipelineInv, ControlInv, Typed, CoverInv
<1> DEFINE New(kind, count) == [kind |-> kind, count |-> count]
<1>2. ASSUME NEW kind \in Kinds, NEW count \in Nat
      PROVE  /\ New(kind, count) \in Calls /\ New(kind, count).kind = kind
             /\ New(kind, count).count = count
  BY DEF Calls
<1>3. ASSUME NEW label \in {"fill", "flush"}, Goto(t, label),
             UNCHANGED <<crntCmd, toRead, isOpen>>, isOpen
      PROVE  Settled'
  BY <1>1, <1>3, SettledKept
<1>4. ASSUME NEW req \in Writes, NEW n \in session.counts, BeginWrite(t, req, n)
      PROVE  CoverInv'
  <2>1. /\ New(req, n) \in Calls /\ New(req, n).kind = req /\ New(req, n).count = n
        /\ req \notin Reads
    BY <1>1, <1>2 DEF Kinds, Requests
  <2>2. /\ lock = NoReq /\ isOpen /\ Goto(t, "fill")
        /\ UNCHANGED <<crntCmd, toRead, responseBuf, replies, faults, isOpen, transferList>>
        /\ calls' = Append(calls, New(req, n)) /\ result' = Append(result, NoWords("posted"))
        /\ job' = [job EXCEPT ![t] = [id |-> Len(calls) + 1, left |-> n, after |-> "idle"]]
    BY <1>4 DEF BeginWrite, Call, buffers, probe, modes
  <2> HIDE DEF New
  <2>3. Remaining(calls, pc, job)' = <<>>
    BY <2>1, <2>2, RemainingNew
  <2>4. WordsInv'
    BY <1>1, <2>1, <2>2, <2>3, IssuesKeepWords
  <2> QED BY <1>3, <2>2, <2>4 DEF CoverInv
<1>5. ASSUME NEW req \in Reads, NEW n \in session.counts, NEW now \in BOOLEAN,
             BeginRead(t, req, n, now)
      PROVE  CoverInv'
  <2> DEFINE after == IF now THEN "check" ELSE "idle"
  <2>1. /\ New(req, n) \in Calls /\ New(req, n).kind = req /\ New(req, n).count = n
        /\ n > 0
    BY <1>1, <1>2 DEF Kinds, Requests
  <2>2. /\ lock = NoReq /\ isOpen /\ Goto(t, "fill")
        /\ UNCHANGED <<crntCmd, toRead, responseBuf, replies, faults, isOpen>>
        /\ transferList' = Append(transferList, Len(calls) + 1)
        /\ calls' = Append(calls, New(req, n)) /\ result' = Append(result, NoWords("pending"))
        /\ job' = [job EXCEPT ![t] = [id |-> Len(calls) + 1, left |-> n, after |-> after]]
    BY <1>5 DEF BeginRead, Call, probe, modes
  <2> HIDE DEF New, after
  <2>3. Remaining(calls, pc, job)' = WordsOf(calls', Len(calls) + 1, 0)
    BY <2>1, <2>2, RemainingNew
  <2>4. WordsInv'
    BY <1>1, <2>1, <2>2, <2>3, IssuesKeepWords
  <2> QED BY <1>3, <2>2, <2>4 DEF CoverInv
<1>6. ASSUME NEW kind \in {"flush", "direct", "close", "undefer"}, NEW after,
             Begin(t, kind, after)
      PROVE  CoverInv'
  <2>1. New(kind, 0) \in Calls
    BY <1>2 DEF Kinds
  <2>2. /\ lock = NoReq /\ isOpen /\ Goto(t, "flush")
        /\ UNCHANGED <<crntCmd, toRead, responseBuf, replies, faults, isOpen, transferList>>
        /\ calls' = Append(calls, New(kind, 0)) /\ result' = Append(result, NoWords("posted"))
    BY <1>6 DEF Begin, Call, buffers, probe, modes
  <2> HIDE DEF New
  <2>3. Remaining(calls, pc, job)' = <<>>
    <3>1. \A u \in Threads : pc'[u] \notin {"fill", "send"}
      BY <1>1, <2>2 DEF PipelineInv, ControlInv, Typed, LockFits, Locked, Goto
    <3> QED BY <3>1, RemainingNone
  <2>4. WordsInv'
    BY <1>1, <2>1, <2>2, <2>3, IssuesKeepWords
  <2> QED BY <1>3, <2>2, <2>4 DEF CoverInv
<1>7. CASE Flush(t) \/ Direct(t) \/ Close(t) \/ Undefer(t)
  BY <1>6, <1>7 DEF Flush, Direct, Close, Undefer
<1> QED BY <1>4, <1>5, <1>7

(* open() begins with empty queues, and the probe with no reply.           *)
LEMMA OpeningKeepsCover ==
  ASSUME PipelineInv, CoverInv, NEW t \in Threads, UNCHANGED session, Open(t)
  PROVE  CoverInv'
<1> DEFINE call == [kind |-> "open", count |-> 0]
<1>1. /\ lock = NoReq /\ ~isOpen /\ isOpen' /\ UNCHANGED <<replies, pc, job, faults>>
      /\ transferList' = <<>> /\ toRead' = <<>> /\ responseBuf' = <<>>
      /\ crntCmd' = NewCommand(session.packetSize)
      /\ calls' = Append(calls, call) /\ result' = Append(result, NoWords("posted"))
  BY DEF Open, Call, probe
<1>2. /\ NoReq \notin Threads /\ calls \in Seq(Calls) /\ Listed /\ Faulted /\ Settled
      /\ result \in Seq(Outcome) /\ Len(result) = Len(calls) /\ replies \in Seq(Reply)
  BY PipelineAssumption DEF PipelineInv, ControlInv, Typed, CoverInv, WordsInv, Listed
<1>3. crntCmd'.data = <<>> /\ Counted(calls', crntCmd')
  BY <1>1, NewIsCounted
<1>4. \A u \in Threads : pc'[u] \notin Locked /\ ~Filling(u)'
  BY <1>1, <1>2 DEF PipelineInv, ControlInv, LockFits, Locked, Filling
<1>5. Settled'
  BY <1>1, <1>3, <1>4 DEF Settled, Locked
<1>6. Listed'
  <2> DEFINE what == NoWords("posted")
  <2>1. what \in Outcome
    BY DEF NoWords, Outcome
  <2>2. Len(calls') = Len(calls) + 1
    BY <1>1, <1>2, AppendProperties DEF Calls, Kinds
  <2>3. result' = Append(result, what)
    BY <1>1
  <2> HIDE DEF what
  <2>4. result' \in Seq(Outcome) /\ Len(result') = Len(calls')
    BY <1>2, <2>1, <2>2, <2>3, AppendProperties
  <2>5. transferList' \in Seq(1..Len(calls')) /\ DOMAIN transferList' = {}
    BY <1>1
  <2>6. responseBuf' \in Seq(Places) /\ replies' \in Seq(Reply)
    BY <1>1, <1>2
  <2> QED BY <2>4, <2>5, <2>6 DEF Listed
<1>7. Sized'
  <2>1. DOMAIN toRead' = {}
    BY <1>1
  <2> QED BY <1>3, <2>1 DEF Sized
<1>8. Faulted' /\ NoUsbFault' = NoUsbFault
  BY <1>1, <1>2 DEF Faulted, NoUsbFault
<1>9. NoUsbFault => replies' = <<>>
  <2> SUFFICES ASSUME NoUsbFault PROVE replies = <<>>
    BY <1>1
  <2>1. toRead = <<>> /\ Len(replies) = Len(toRead)
    BY <1>1, <1>2 DEF Settled, CoverInv, WordsInv, Answering
  <2> QED BY <1>2, <2>1
<1>10. NoUsbFault => /\ Answering' /\ Balanced' /\ Unfinished'
                     /\ ~isOpen' => transferList' = <<>>
  BY <1>1, <1>3, <1>4, <1>9, NothingLeft
<1> QED BY <1>5, <1>6, <1>7, <1>8, <1>10 DEF CoverInv, WordsInv

(* The interface is closed when no transfer waits any more.                *)
LEMMA ClosingKeepsCover ==
  ASSUME PipelineInv, CoverInv, NEW t \in Threads, UNCHANGED session, CloseEnd(t)
  PROVE  CoverInv'
<1>1. /\ pc[t] = "close" /\ Goto(t, "idle") /\ ~isOpen'
      /\ UNCHANGED <<calls, result, transferList, toRead, responseBuf, faults>>
      /\ crntCmd' = NewCommand(0) /\ replies' = <<>>
  BY DEF CloseEnd
<1>2. /\ Listed /\ Sized /\ Faulted /\ calls \in Seq(Calls) /\ lock = t /\ NoReq \notin Threads
      /\ crntCmd.data = <<>> /\ toRead = <<>>
      /\ transferList \in Seq(1..Len(calls)) /\ responseBuf \in Seq(Places)
      /\ \A u \in Threads : u # t => pc[u] \notin Locked
  BY <1>1, PipelineAssumption
     DEF PipelineInv, ControlInv, Typed, LockFits, Locked, CoverInv, WordsInv, Settled, Listed
<1>3. crntCmd'.data = <<>> /\ Counted(calls', crntCmd')
  BY <1>1, NewIsCounted
<1>4. \A u \in Threads : pc'[u] \notin Locked
  BY <1>1, <1>2 DEF PipelineInv, ControlInv, Typed, Goto, Locked
<1>5. \A u \in Threads : ~Filling(u) /\ ~Filling(u)'
  BY <1>1, <1>2, <1>4 DEF Filling, Locked
<1>6. Settled'
  BY <1>1, <1>2, <1>3, <1>4, <1>5 DEF Settled, Locked
<1>7. Listed' /\ Faulted' /\ NoUsbFault' = NoUsbFault
  <2>1. replies' \in Seq(Reply)
    BY <1>1
  <2> QED BY <1>1, <1>2, <2>1 DEF Listed, Faulted, NoUsbFault
<1>8. Sized'
  BY <1>1, <1>2, <1>3 DEF Sized
<1>9. ASSUME NoUsbFault
      PROVE  /\ Answering' /\ Balanced' /\ Unfinished'
             /\ ~isOpen' => transferList' = <<>>
  <2>1. Balanced /\ Unfinished
    BY <1>9 DEF CoverInv, WordsInv
  <2>2. Waited(calls, transferList) = responseBuf
    <3>1. Remaining(calls, pc, job) = <<>>
      BY <1>5, RemainingNone DEF Filling
    <3>2. Flying(calls, toRead) = <<>> /\ Answers(calls, crntCmd.data) = <<>>
      BY <1>2, FlyingNone
    <3>3. responseBuf \o (<<>> \o (<<>> \o <<>>)) = responseBuf
      <4>1. <<>> \o (<<>> \o <<>>) = <<>>
        OBVIOUS
      <4> QED BY <1>2, <4>1, ConcatEmptySeq
    <3> QED BY <2>1, <3>1, <3>2, <3>3 DEF Balanced
  <2>3. transferList = <<>>
    <3> SUFFICES ASSUME transferList # <<>> PROVE FALSE
      OBVIOUS
    <3> DEFINE N    == Len(transferList)
               id   == transferList[1]
               rest == SubSeq(transferList, 2, N)
    <3>1. N \in Nat /\ 1 \in 0..N /\ id \in 1..Len(calls)
      BY <1>2
    <3>2. 1 + 1 = 2 /\ 1 - 1 = 0 /\ 1 # 0 /\ 0 \in 0..N /\ 0 \in Nat
      BY <3>1
    <3>3. /\ Waited(calls, transferList) = UpTo(calls, transferList, 1) \o Waited(calls, rest)
          /\ UpTo(calls, transferList, 1) = UpTo(calls, transferList, 0) \o WordsOf(calls, id, 0)
          /\ UpTo(calls, transferList, 0) = <<>>
          /\ UpTo(calls, transferList, 1) \in Seq(Places) /\ Waited(calls, rest) \in Seq(Places)
      <4>1. rest = SubSeq(transferList, 1 + 1, Len(transferList)) /\ 1 \in 0..Len(transferList)
        BY <3>1, <3>2
      <4> HIDE DEF rest
      <4>2. /\ Waited(calls, transferList) = UpTo(calls, transferList, 1) \o Waited(calls, rest)
            /\ UpTo(calls, transferList, 1)
                 = UpTo(calls, transferList, 1 - 1) \o WordsOf(calls, transferList[1], 0)
            /\ UpTo(calls, transferList, 0) = <<>>
            /\ UpTo(calls, transferList, 1) \in Seq(Places) /\ Waited(calls, rest) \in Seq(Places)
        BY <1>2, <3>2, <4>1, FirstWaited
      <4> QED BY <3>2, <4>2
    <3>4. /\ WordsOf(calls, id, 0) \in Seq(Places)
          /\ Len(WordsOf(calls, id, 0)) = calls[id].count /\ calls[id].count \in Nat
      <4> HIDE DEF id
      <4>1. /\ WordsOf(calls, id, 0) \in Seq(Places)
            /\ Len(WordsOf(calls, id, 0)) = IF 0 <= calls[id].count THEN calls[id].count - 0 ELSE 0
            /\ calls[id].count \in Nat
        BY <1>2, <3>1, <3>2, WordsOfIsSeq
      <4> QED BY <4>1
    <3> HIDE DEF rest, id
    <3>5. UpTo(calls, transferList, 1) = WordsOf(calls, id, 0)
      BY <3>3, <3>4, ConcatEmptySeq
    <3>6. Len(responseBuf) = calls[id].count + Len(Waited(calls, rest))
      <4> DEFINE a == WordsOf(calls, id, 0)
                 b == Waited(calls, rest)
      <4>1. a \in Seq(Places) /\ b \in Seq(Places) /\ responseBuf = a \o b
        BY <2>2, <3>3, <3>4, <3>5
      <4> HIDE DEF a, b
      <4>2. Len(responseBuf) = Len(a) + Len(b)
        BY ONLY <4>1, ConcatProperties
      <4> QED BY <3>4, <4>2 DEF a, b
    <3>7. Len(Waited(calls, rest)) \in Nat
      BY <3>3
    <3>8. Len(responseBuf) < calls[id].count
      BY <2>1 DEF Unfinished, id
    <3> QED BY <3>4, <3>6, <3>7, <3>8
  <2>4. responseBuf = <<>>
    BY <2>2, <2>3, WaitedNone
  <2> QED BY <1>1, <1>2, <1>3, <1>5, <2>3, <2>4, NothingLeft
<1> QED BY <1>6, <1>7, <1>8, <1>9 DEF CoverInv, WordsInv

(* The next words of an access join the packet, and are asked for if it is *)
(* a read.                                                                 *)
NextWords(cs, id, first, n, data, words) ==
  /\ cs \in Seq(Calls) /\ id \in 1..Len(cs) /\ first \in Nat /\ n \in Nat
  /\ first + n <= cs[id].count /\ data \in Seq(Places) /\ Known(cs, data)
  /\ words = [i \in 1..n |-> <<id, first + i>>]

(* They are the next ones, and what is then left follows them.             *)
LEMMA WordsJoin ==
  ASSUME NEW cs, NEW id, NEW first, NEW n, NEW data, NEW words,
         NextWords(cs, id, first, n, data, words)
  PROVE  /\ words \in Seq(Places) /\ Len(words) = n
         /\ Known(cs, data \o words)
         /\ cs[id].kind \in Reads => Answers(cs, data \o words) = Answers(cs, data) \o words
         /\ cs[id].kind \notin Reads => Answers(cs, data \o words) = Answers(cs, data)
         /\ words \o WordsOf(cs, id, first + n) = WordsOf(cs, id, first)
<1> /\ cs \in Seq(Calls) /\ id \in 1..Len(cs) /\ first \in Nat /\ n \in Nat
    /\ first + n <= cs[id].count /\ data \in Seq(Places) /\ Known(cs, data)
    /\ words = [i \in 1..n |-> <<id, first + i>>]
  BY DEF NextWords
<1>1. id \in Nat /\ \A i \in 1..n : first + i \in Nat
  OBVIOUS
<1>2. \A i \in 1..n : words[i] = <<id, first + i>> /\ words[i] \in Places
  BY <1>1 DEF Places
<1>3. words \in Seq(Places) /\ Len(words) = n
  <2>1. words \in [1..n -> Places] /\ n \in Nat
    BY <1>2
  <2> QED BY ONLY <2>1
<1>4. \A i \in 1..Len(words) : words[i][1] = id
  BY <1>2, <1>3
<1>5. Known(cs, data \o words)
  <2> DEFINE all == data \o words
             d   == Len(data)
  <2>1. /\ data \in Seq(Places) /\ words \in Seq(Places) /\ Len(words) = n /\ all = data \o words
    BY <1>3
  <2> HIDE DEF all
  <2>2. /\ Len(all) = d + n /\ all \in Seq(Places) /\ d \in Nat /\ n \in Nat
        /\ \A i \in 1..(d + n) : all[i] = IF i <= d THEN data[i] ELSE words[i - d]
    <3>1. /\ data \o words \in Seq(Places) /\ Len(data \o words) = Len(data) + Len(words)
          /\ \A i \in 1..(Len(data) + Len(words)) :
               (data \o words)[i] = IF i <= Len(data) THEN data[i] ELSE words[i - Len(data)]
      BY ONLY <2>1, Joined
    <3>2. Len(data) \in Nat /\ Len(words) \in Nat
      BY ONLY <2>1
    <3> QED BY <2>1, <3>1, <3>2
  <2>3. \A i \in 1..d : data[i][1] \in 1..Len(cs)
    BY DEF Known
  <2> HIDE DEF d
  <2>4. ASSUME NEW i \in 1..(d + n) PROVE all[i][1] \in 1..Len(cs)
    <3>0. i \in 1..(d + n) /\ d \in Nat /\ n \in Nat
      BY <2>2
    <3>1. CASE i <= d
      <4>1. i \in 1..d
        BY ONLY <3>0, <3>1
      <4>2. all[i] = data[i]
        BY <2>2, <3>1
      <4> QED BY <2>3, <4>1, <4>2
    <3>2. CASE ~(i <= d)
      <4>1. i - d \in 1..n
        BY ONLY <3>0, <3>2
      <4>2. all[i] = words[i - d]
        BY <2>2, <3>2
      <4>3. words[i - d][1] = id
        BY <1>2, <4>1
      <4> QED BY <4>2, <4>3
    <3> QED BY <3>1, <3>2
  <2>5. DOMAIN all = 1..(d + n)
    BY <2>2
  <2> QED BY <2>4, <2>5 DEF Known, all
<1> HIDE DEF Known
<1>6. /\ Answers(cs, data \o words) = Answers(cs, data) \o Answers(cs, words)
      /\ Answers(cs, data) \in Seq(Places)
  BY <1>3, AnswersConcat, AnswersIsSeq
<1>7. cs[id].kind \in Reads => Answers(cs, words) = words
  BY <1>3, <1>4, AnswersAll
<1>8. cs[id].kind \notin Reads => Answers(cs, data \o words) = Answers(cs, data)
  <2> SUFFICES ASSUME cs[id].kind \notin Reads
               PROVE  Answers(cs, data \o words) = Answers(cs, data)
    OBVIOUS
  <2>1. Answers(cs, words) = <<>>
    BY <1>3, <1>4, AnswersNone
  <2> QED BY <1>6, <2>1, ConcatEmptySeq
<1>9. words \o WordsOf(cs, id, first + n) = WordsOf(cs, id, first)
  <2> DEFINE c     == cs[id].count
             later == WordsOf(cs, id, first + n)
             all   == WordsOf(cs, id, first)
  <2>1. /\ c \in Nat /\ later \in Seq(Places) /\ all \in Seq(Places)
        /\ Len(later) = c - (first + n) /\ Len(all) = c - first
    <3>1. first + n \in Nat /\ first <= c /\ c \in Nat
      <4>1. c \in Nat
        BY 0 \in Nat, WordsOfIsSeq
      <4>2. first + n \in Nat /\ first + n <= c /\ n \in Nat /\ first \in Nat
        OBVIOUS
      <4> HIDE DEF c
      <4> QED BY ONLY <4>1, <4>2
    <3>2. /\ WordsOf(cs, id, first + n) \in Seq(Places)
          /\ Len(WordsOf(cs, id, first + n)) = IF first + n <= c THEN c - (first + n) ELSE 0
      BY <3>1, WordsOfIsSeq
    <3>3. /\ WordsOf(cs, id, first) \in Seq(Places)
          /\ Len(WordsOf(cs, id, first)) = IF first <= c THEN c - first ELSE 0
      BY <3>1, WordsOfIsSeq
    <3> QED BY <3>1, <3>2, <3>3
  <2>2. /\ \A i \in 1..(c - first) : all[i] = <<id, first + i>>
        /\ \A i \in 1..(c - (first + n)) : later[i] = <<id, (first + n) + i>>
    BY DEF WordsOf
  <2> HIDE DEF later, all
  <2>3. /\ Len(all) = Len(words) + Len(later)
        /\ \A i \in 1..Len(words) : all[i] = words[i]
    <3>1. Len(all) = Len(words) + Len(later)
      <4>1. c \in Nat /\ first \in Nat /\ n \in Nat /\ Len(words) = n
        BY <1>3, <2>1
      <4> HIDE DEF c
      <4> QED BY <2>1, <4>1
    <3>2. ASSUME NEW i \in 1..n PROVE i \in 1..(c - first)
      <4>1. c \in Nat /\ first \in Nat /\ n \in Nat /\ i \in 1..n /\ first + n <= c
        BY <2>1
      <4> HIDE DEF c
      <4> QED BY ONLY <4>1
    <3> QED BY <1>2, <1>3, <2>2, <3>1, <3>2
  <2>4. ASSUME NEW i \in 1..Len(later) PROVE all[Len(words) + i] = later[i]
    <3>1. n + i \in 1..(c - first) /\ i \in 1..(c - (first + n))
      <4>1. /\ c \in Nat /\ first \in Nat /\ n \in Nat /\ first + n <= c
            /\ i \in 1..(c - (first + n))
        BY <2>1
      <4> HIDE DEF c
      <4> QED BY ONLY <4>1
    <3>2. first + (n + i) = (first + n) + i
      BY <3>1
    <3> QED BY <1>3, <2>2, <3>1, <3>2
  <2>5. all = words \o later
    BY <1>3, <2>1, <2>3, <2>4, OneAfterOther
  <2> QED BY <2>5 DEF all, later
<1> QED BY <1>3, <1>5, <1>6, <1>7, <1>8, <1>9

(* What joins the packet is no longer to be added.                         *)
LEMMA FillKeepsCover ==
  ASSUME PipelineInv, CoverInv, NEW t \in Threads, UNCHANGED session, Fill(t)
  PROVE  CoverInv'
<1> DEFINE call  == calls[job[t].id]
           left  == job[t].left
           first == call.count - left
           space == RequestSpace(crntCmd, left, call.kind)
           cmd   == AddTo(crntCmd, job[t].id, first, space, call.kind)
           last  == Len(calls)
<1>1. /\ pc[t] = "fill" /\ Filling(t)
      /\ UNCHANGED <<calls, result, transferList, toRead, responseBuf, isOpen, replies, faults>>
  BY DEF Fill, Filling, history, probe, modes
<1>2. /\ lock = t /\ pc \in [Threads -> Labels] /\ calls \in Seq(Calls)
      /\ job \in [Threads -> [id : Nat, left : Nat, after : Labels]]
      /\ job[t].id = last /\ last > 0
      /\ crntCmd \in Packet /\ crntCmd.data \in Seq(Places) /\ toRead \in Seq(Packet)
      /\ Counts(crntCmd) /\ PacketFits(crntCmd)
      /\ Listed /\ Sized /\ Faulted /\ Settled /\ WordsInv /\ isOpen
      /\ replies \in Seq(Reply) /\ responseBuf \in Seq(Places)
      /\ \A u \in Threads : u # t => pc[u] \notin Locked
  BY <1>1 DEF PipelineInv, ControlInv, PacketInv, Typed, LockFits, LastFits, Locked, Filling,
              Packet, CoverInv, WordsInv, Settled, Listed
<1>3. CASE NoRoom(space)
  <2>1. Goto(t, "send") /\ UNCHANGED <<crntCmd, job>>
    BY <1>3 DEF Fill
  <2> QED BY <1>1, <1>2, <2>1, MoveKeepsCover
<1>4. CASE ~NoRoom(space)
  <2>1. crntCmd' = cmd /\ job' = [job EXCEPT ![t].left = @ - space]
    BY <1>4 DEF Fill
  <2>2. PICK label \in {"send", "fill"} : Goto(t, label)
    BY DEF Fill
  <2>3. Settled'
    BY <1>1, <1>2, <2>2, SettledKept
  <2>4. /\ left \in Nat /\ call = calls[last] /\ call.count \in Nat
        /\ call.kind \in Requests /\ first \in Nat /\ last \in Nat /\ last \in 1..Len(calls)
        /\ first + left = call.count
    <3>1. Len(calls) \in DOMAIN calls /\ Len(calls) \in Nat
      BY <1>2
    <3>2. calls[Len(calls)] \in Calls
      BY <1>2, <3>1
    <3>3. call.count \in Nat /\ left \in Nat
      BY <1>2, <3>2 DEF Calls
    <3>4. left <= call.count /\ call.kind \in Requests
      BY <1>1, <1>2 DEF PipelineInv, ControlInv, LastFits
    <3> QED BY <1>2, <3>1, <3>3, <3>4
  <2>5. space \in Nat /\ space <= left
    <3>1. job[t].id \in Nat /\ space = RequestSpace(crntCmd, left, call.kind)
      BY <1>2, <2>4
    <3> HIDE DEF first, cmd, left, call, last, space
    <3> DEFINE new == AddTo(crntCmd, job[t].id, first, space, call.kind)
    <3> HIDE DEF new
    <3> QED BY <1>2, <2>4, <3>1, SpaceFits
  <2> DEFINE words == [i \in 1..space |-> <<last, first + i>>]
  <2>6. /\ crntCmd'.data = crntCmd.data \o words
        /\ crntCmd'.rc = IF call.kind \in Reads THEN crntCmd.rc + space ELSE crntCmd.rc
    BY <1>2, <2>1 DEF AddTo
  <2>7. /\ pc'[t] \in {"fill", "send"} /\ job'[t].id = last /\ job'[t].left = left - space
        /\ \A u \in Threads : u # t => pc'[u] \notin {"fill", "send"}
    BY <1>2, <2>1, <2>2 DEF Goto, Locked
  <2>8. call.count - left = first /\ call.count - (left - space) = first + space
        /\ first + space <= call.count /\ first + space \in Nat
    BY <2>4, <2>5
  <2>9. Remaining(calls, pc, job) =
          IF call.kind \in Reads THEN WordsOf(calls, last, first) ELSE <<>>
    <3>1. \A u \in Threads : u # t => pc[u] \notin {"fill", "send"}
      BY <1>2 DEF Locked
    <3>2. pc[t] \in {"fill", "send"} /\ job[t].id = last /\ call = calls[last]
      BY <1>1, <1>2
    <3> HIDE DEF last
    <3>3. Remaining(calls, pc, job) =
            IF calls[job[t].id].kind \in Reads
              THEN WordsOf(calls, job[t].id, calls[job[t].id].count - job[t].left) ELSE <<>>
      BY <3>1, <3>2, RemainingOne
    <3> QED BY <3>2, <3>3
  <2>10. Remaining(calls, pc, job)' =
          IF call.kind \in Reads THEN WordsOf(calls, last, first + space) ELSE <<>>
    <3> HIDE DEF last, first, space
    <3>1. Remaining(calls, pc', job') =
            IF calls[job'[t].id].kind \in Reads
              THEN WordsOf(calls, job'[t].id, calls[job'[t].id].count - job'[t].left) ELSE <<>>
      BY <2>7, RemainingOne
    <3> QED BY <1>1, <2>4, <2>7, <2>8, <3>1
  <2> DEFINE A == Answers(calls, crntCmd.data)
             B == Answers(calls, crntCmd'.data)
             W == WordsOf(calls, last, first)
             V == WordsOf(calls, last, first + space)
  <2>11. /\ words \in Seq(Places) /\ Len(words) = space /\ Known(calls, crntCmd'.data)
         /\ call.kind \in Reads => B = A \o words
         /\ call.kind \notin Reads => B = A
         /\ words \o V = W
    <3>1. Known(calls, crntCmd.data) /\ first + space <= calls[last].count
      BY <1>2, <2>4, <2>8 DEF Sized, Counted
    <3> HIDE DEF first, space, last, words
    <3>2. words = [i \in 1..space |-> <<last, first + i>>]
      BY DEF words
    <3>3. /\ words \in Seq(Places) /\ Len(words) = space
          /\ Known(calls, crntCmd.data \o words)
          /\ calls[last].kind \in Reads =>
               Answers(calls, crntCmd.data \o words) = Answers(calls, crntCmd.data) \o words
          /\ calls[last].kind \notin Reads =>
               Answers(calls, crntCmd.data \o words) = Answers(calls, crntCmd.data)
          /\ words \o WordsOf(calls, last, first + space) = WordsOf(calls, last, first)
      <4> DEFINE data == crntCmd.data
      <4>1. data \in Seq(Places) /\ Known(calls, data)
        BY <1>2, <3>1
      <4> HIDE DEF data
      <4>2. /\ words \in Seq(Places) /\ Len(words) = space
            /\ Known(calls, data \o words)
            /\ calls[last].kind \in Reads => Answers(calls, data \o words) = Answers(calls, data) \o words
            /\ calls[last].kind \notin Reads => Answers(calls, data \o words) = Answers(calls, data)
            /\ words \o WordsOf(calls, last, first + space) = WordsOf(calls, last, first)
        <5>1. NextWords(calls, last, first, space, data, words)
          BY <1>2, <2>4, <2>5, <3>1, <3>2, <4>1 DEF NextWords
        <5> QED BY ONLY <5>1, WordsJoin
      <4> QED BY <4>2 DEF data
    <3> QED BY <2>4, <2>6, <3>3
  <2>12. A \in Seq(Places) /\ V \in Seq(Places)
    <3> HIDE DEF last, first, space
    <3> QED BY <1>2, <2>4, <2>8, AnswersIsSeq, WordsOfIsSeq
  <2> HIDE DEF A, B, W, V, words, space, first, last, cmd, call, left
  <2>13. Listed' /\ Faulted' /\ NoUsbFault' = NoUsbFault
    BY <1>1, <1>2 DEF Listed, Faulted, NoUsbFault
  <2>14. Sized'
    <3>1. Len(A) = crntCmd.rc /\ crntCmd.rc \in Nat
      BY <1>2 DEF Sized, Counted, A, Packet
    <3>2. Len(B) = crntCmd'.rc
      <4>1. CASE call.kind \in Reads
        <5>1. Len(A \o words) = Len(A) + Len(words)
          BY <2>11, <2>12, ConcatProperties
        <5> QED BY <2>6, <2>11, <3>1, <4>1, <5>1
      <4>2. CASE call.kind \notin Reads
        BY <2>6, <2>11, <3>1, <4>2
      <4> QED BY <4>1, <4>2
    <3>3. Counted(calls, crntCmd')
      BY <2>11, <3>2 DEF Counted, B
    <3> QED BY <1>1, <1>2, <3>3 DEF Sized
  <2>15. ASSUME NoUsbFault
         PROVE  /\ Answering' /\ Balanced' /\ Unfinished'
                /\ ~isOpen' => transferList' = <<>>
    <3>1. Answering /\ Balanced /\ Unfinished /\ (~isOpen => transferList = <<>>)
      BY <1>2, <2>15 DEF WordsInv
    <3>2. Answering' /\ Unfinished'
      BY <1>1, <3>1 DEF Answering, Decodes, Unfinished
    <3>3. B \o Remaining(calls, pc, job)' = A \o Remaining(calls, pc, job)
      <4>1. CASE call.kind \in Reads
        <5>1. (A \o words) \o V = A \o (words \o V)
          <6>1. A \in Seq(Places) /\ words \in Seq(Places) /\ V \in Seq(Places)
            BY <2>11, <2>12
          <6> QED BY ONLY <6>1, ConcatAssociative
        <5> QED BY <2>9, <2>10, <2>11, <4>1, <5>1 DEF V, W
      <4>2. CASE call.kind \notin Reads
        BY <2>9, <2>10, <2>11, <4>2
      <4> QED BY <4>1, <4>2
    <3>4. /\ Waited(calls', transferList') = Waited(calls, transferList)
          /\ responseBuf' = responseBuf /\ Flying(calls', toRead') = Flying(calls, toRead)
          /\ Answers(calls', crntCmd'.data) = B
      BY <1>1 DEF B
    <3>5. Waited(calls, transferList)
            = responseBuf \o (Flying(calls, toRead) \o (A \o Remaining(calls, pc, job)))
      BY <3>1 DEF Balanced, A
    <3>6. Balanced'
      BY <3>3, <3>4, <3>5, Zenon DEF Balanced
    <3> QED BY <1>1, <3>1, <3>2, <3>6
  <2> QED BY <2>3, <2>13, <2>14, <2>15 DEF CoverInv, WordsInv
<1> QED BY <1>3, <1>4

-----------------------------------------------------------------------------
(* All steps                                                               *)

(* At the start nothing is waited for.                                     *)
LEMMA InitHasCover ==
  ASSUME Init
  PROVE  CoverInv
<1>1. /\ session \in Sessions /\ isOpen
      /\ calls = <<>> /\ result = <<>> /\ transferList = <<>> /\ toRead = <<>>
      /\ responseBuf = <<>> /\ replies = <<>> /\ crntCmd = NewCommand(session.packetSize)
      /\ \A t \in Threads : pc[t] = "idle"
      /\ faults = [kind \in FaultKinds |-> 0]
  BY DEF Init
<1>2. crntCmd.data = <<>> /\ Counted(calls, crntCmd)
  BY <1>1, NewIsCounted
<1>3. Settled
  BY <1>1 DEF Settled, Filling
<1>4. Listed /\ Sized /\ Faulted
  <2>1. /\ DOMAIN transferList = {} /\ DOMAIN toRead = {} /\ Len(result) = Len(calls)
        /\ transferList \in Seq(1..Len(calls)) /\ result \in Seq(Outcome)
        /\ responseBuf \in Seq(Places) /\ replies \in Seq(Reply)
    BY <1>1
  <2> QED BY <1>1, <1>2, <2>1 DEF Listed, Sized, Faulted
<1>5. Answering /\ Unfinished
  BY <1>1 DEF Answering, Unfinished
<1>6. Balanced
  <2>1. \A u \in Threads : pc[u] \notin {"fill", "send"}
    BY <1>1
  <2>2. Remaining(calls, pc, job) = <<>>
    BY <2>1, RemainingNone
  <2>3. /\ Waited(calls, transferList) = <<>>
        /\ Flying(calls, toRead) = <<>> /\ Answers(calls, crntCmd.data) = <<>>
    BY <1>1, <1>2, WaitedNone, FlyingNone
  <2>4. <<>> \o (<<>> \o (<<>> \o <<>>)) = <<>>
    OBVIOUS
  <2> QED BY <1>1, <2>2, <2>3, <2>4 DEF Balanced
<1> QED BY <1>1, <1>3, <1>4, <1>5, <1>6 DEF CoverInv, WordsInv

(* Every step of every thread keeps the words accounted for.               *)
LEMMA StepsKeepCover ==
  ASSUME PipelineInv, CoverInv, [Next]_vars
  PROVE  CoverInv'
<1>1. ASSUME UNCHANGED <<session, calls, result, transferList, crntCmd, toRead, responseBuf,
                         isOpen, replies, pc, job, faults>>
      PROVE  CoverInv'
  <2>1. Remaining(calls, pc, job)' = Remaining(calls, pc, job) /\ replies' \in Seq(Reply)
    BY <1>1 DEF CoverInv, WordsInv, Listed
  <2>2. WordsInv'
    BY <1>1, <2>1, QuietKeepsWords DEF CoverInv
  <2>3. Settled'
    BY <1>1 DEF CoverInv, Settled, Filling
  <2> QED BY <2>2, <2>3 DEF CoverInv
<1>2. CASE UNCHANGED vars
  BY <1>1, <1>2 DEF vars
<1>3. ASSUME NEW t \in session.threads, Continue(t) \/ Start(t)
      PROVE  CoverInv'
  <2>1. t \in Threads /\ UNCHANGED session
    BY <1>3, PipelineAssumption DEF PipelineInv, ControlInv, Typed, Continue, Start
  <2>2. CASE \/ FillEnd(t) \/ SendNothing(t) \/ DrainEnd(t) \/ Check(t) \/ CheckCurrent(t)
             \/ GetFlush(t) \/ Exchange(t) \/ UndeferEnd(t)
             \/ \E id \in DOMAIN calls : Callback(t, id)
    BY <2>1, <2>2, MovesKeepCover
  <2>3. CASE MakeRoom(t) \/ Send(t) \/ Drain(t) \/ GetRead(t)
    BY <2>1, <2>3, PacketsKeepCover
  <2>4. CASE \/ \E req \in Writes, n \in session.counts : BeginWrite(t, req, n)
             \/ \E req \in Reads, n \in session.counts, now \in BOOLEAN :
                  BeginRead(t, req, n, now)
             \/ Flush(t) \/ Direct(t) \/ Close(t) \/ Undefer(t)
    BY <2>1, <2>4, BeginningsKeepCover
  <2>5. CASE Open(t)
    BY <2>1, <2>5, OpeningKeepsCover
  <2>6. CASE Fill(t)
    BY <2>1, <2>6, FillKeepsCover
  <2>7. CASE CloseEnd(t)
    BY <2>1, <2>7, ClosingKeepsCover
  <2>8. CASE Defer(t)
    <3>1. UNCHANGED <<session, calls, result, transferList, crntCmd, toRead, responseBuf,
                      isOpen, replies, pc, job, faults>>
      BY <2>1, <2>8 DEF Defer, history, buffers, probe
    <3> QED BY <1>1, <3>1
  <2> QED BY <1>3, <2>2, <2>3, <2>4, <2>5, <2>6, <2>7, <2>8 DEF Continue, Start
<1> QED BY <1>2, <1>3 DEF Next

-----------------------------------------------------------------------------
(* The transfer service                                                    *)

(* What the service says of a result.                                      *)
Done(cs, id)   == [state |-> "done", words |-> WordsOf(cs, id, 0)]
Shown(cs, res) == [id \in DOMAIN res |-> IF res[id].state = "done" THEN Done(cs, id) ELSE res[id]]

(* Until a USB fault happens, a read is answered with its own words.       *)
Rightful ==
  NoUsbFault => \A id \in DOMAIN result :
                  result[id].state = "done" => result[id] = Done(calls, id)

(* close() is not called after a USB fault. After one, a reply left in the *)
(* probe can answer a later packet with fewer words than it reads: a read  *)
(* then still waits when the flush of close() has ended, and the next      *)
(* open() forgets it without an answer.                                    *)
ClosedInOrder == ~isOpen => NoUsbFault

(* What a step is to the transfers: nothing, an operation issued, replies  *)
(* read, or all given up.                                                  *)
Issuing(call, outcome) ==
  /\ calls' = Append(calls, call) /\ result' = Append(result, NoWords(outcome))
  /\ faults' = faults
  /\ \/ outcome = "posted" /\ transferList' = transferList
     \/ outcome = "pending" /\ transferList' = Append(transferList, Len(calls) + 1)
Quiet == UNCHANGED <<calls, result, transferList>> /\ (NoUsbFault' => NoUsbFault)
GivesUp == Abort /\ calls' = calls /\ (NoUsbFault' => NoUsbFault)
ReadsOne == ReadPacket /\ faults' = faults /\ calls' = calls

(* Every step is one of these, unless close() is called after a USB fault. *)
LEMMA StepsSorted ==
  ASSUME PipelineInv, CoverInv, ClosedInOrder, Next
  PROVE  \/ Quiet \/ GivesUp \/ ReadsOne
         \/ \E call \in Calls, outcome \in {"posted", "pending"} : Issuing(call, outcome)
<1>1. PICK t \in session.threads : Continue(t) \/ Start(t)
  BY DEF Next
<1>2. UNCHANGED session /\ session \in Sessions /\ Faulted /\ session.counts \subseteq Nat
  BY <1>1, PipelineAssumption
     DEF PipelineInv, ControlInv, Typed, Continue, Start, CoverInv, WordsInv
<1>3. ASSUME UNCHANGED <<calls, result, transferList, faults>>
      PROVE  Quiet
  BY <1>3 DEF Quiet, NoUsbFault
<1>4. ASSUME NEW kind, Fail(kind)
      PROVE  NoUsbFault' => NoUsbFault
  BY <1>2, <1>4, FaultsCount
<1>5. CASE \/ Fill(t) \/ FillEnd(t) \/ SendNothing(t) \/ DrainEnd(t) \/ Check(t)
           \/ CheckCurrent(t) \/ GetFlush(t) \/ Exchange(t) \/ CloseEnd(t) \/ UndeferEnd(t)
           \/ Defer(t) \/ \E id \in DOMAIN calls : Callback(t, id)
  BY <1>3, <1>5
     DEF Fill, FillEnd, SendNothing, DrainEnd, Check, CheckCurrent, GetFlush, Exchange,
         CloseEnd, UndeferEnd, Defer, Callback, history, buffers
<1>6. ASSUME Raise(t), ReadPacketBad \/ ReadPacketRaises \/ SendPacketRaises
      PROVE  GivesUp
  <2>1. Abort /\ calls' = calls
    BY <1>6 DEF Raise, ReadPacketBad, ReadPacketRaises, SendPacketRaises
  <2>2. UNCHANGED faults \/ Fail("read") \/ Fail("write")
    BY <1>6 DEF ReadPacketBad, ReadPacketRaises, SendPacketRaises
  <2>3. NoUsbFault' => NoUsbFault
    <3>1. CASE UNCHANGED faults
      BY <3>1 DEF NoUsbFault
    <3> QED BY <1>4, <2>2, <3>1
  <2> QED BY <2>1, <2>3 DEF GivesUp
<1>7. ASSUME SendPacket PROVE Quiet
  <2>1. UNCHANGED <<calls, result, transferList>> /\ (UNCHANGED faults \/ Fail("ack"))
    BY <1>7 DEF SendPacket, history
  <2>2. NoUsbFault' => NoUsbFault
    <3>1. CASE UNCHANGED faults
      BY <3>1 DEF NoUsbFault
    <3> QED BY <1>4, <2>1, <3>1
  <2> QED BY <2>1, <2>2 DEF Quiet
<1>8. ASSUME ReadPacket PROVE ReadsOne
  BY <1>8 DEF ReadPacket, ReadsOne
<1>9. CASE MakeRoom(t)
  BY <1>6, <1>8, <1>9 DEF MakeRoom
<1>10. CASE Send(t)
  BY <1>6, <1>7, <1>10 DEF Send
<1>11. CASE Drain(t)
  BY <1>6, <1>8, <1>11 DEF Drain
<1>12. CASE GetRead(t)
  <2>1. CASE UNCHANGED <<calls, result, buffers, modes, probe, lock, job, faults>>
    BY <1>3, <2>1 DEF buffers
  <2> QED BY <1>6, <1>8, <1>12, <2>1 DEF GetRead
<1> DEFINE New(kind, count) == [kind |-> kind, count |-> count]
<1>13. ASSUME NEW kind \in Kinds, NEW count \in Nat
       PROVE  New(kind, count) \in Calls
  BY DEF Calls
<1>14. ASSUME NEW req \in Writes, NEW n \in session.counts, BeginWrite(t, req, n)
       PROVE  Issuing(New(req, n), "posted") /\ New(req, n) \in Calls
  BY <1>2, <1>13, <1>14 DEF BeginWrite, Call, buffers, Issuing, Kinds, Requests
<1>15. ASSUME NEW req \in Reads, NEW n \in session.counts, NEW now \in BOOLEAN,
              BeginRead(t, req, n, now)
       PROVE  Issuing(New(req, n), "pending") /\ New(req, n) \in Calls
  BY <1>2, <1>13, <1>15 DEF BeginRead, Call, Issuing, Kinds, Requests
<1>16. ASSUME NEW kind \in {"flush", "direct", "close", "undefer"}, NEW after,
              Begin(t, kind, after)
       PROVE  Issuing(New(kind, 0), "posted") /\ New(kind, 0) \in Calls
  BY <1>13, <1>16 DEF Begin, Call, buffers, Issuing, Kinds
<1>17. ASSUME Open(t)
       PROVE  Issuing(New("open", 0), "posted") /\ New("open", 0) \in Calls
  <2>1. transferList = <<>>
    BY <1>17 DEF Open, ClosedInOrder, CoverInv, WordsInv
  <2>2. New("open", 0) \in Calls
    BY <1>13 DEF Kinds
  <2> QED BY <1>17, <2>1, <2>2 DEF Open, Call, Issuing
<1> HIDE DEF New
<1>18. CASE Flush(t) \/ Direct(t) \/ Close(t) \/ Undefer(t)
  BY <1>16, <1>18 DEF Flush, Direct, Close, Undefer
<1> QED BY <1>1, <1>5, <1>9, <1>10, <1>11, <1>12, <1>14, <1>15, <1>17, <1>18 DEF Continue, Start

(* What is read of a transfer is what the target returned for it.          *)
LEMMA ReadsAreRightful ==
  ASSUME PipelineInv, CoverInv, NoUsbFault, ReadPacket, NEW n \in 1..Served
  PROVE  SubSeq(Buffered, Needed(n - 1) + 1, Needed(n)) = WordsOf(calls, transferList[n], 0)
<1>1. /\ WordsInv /\ Listed /\ toRead # <<>> /\ replies # <<>>
      /\ calls \in Seq(Calls) /\ transferList \in Seq(1..Len(calls)) /\ Buffered \in Seq(Places)
  BY BufferedIsSeq DEF PipelineInv, ControlInv, Typed, CoverInv, WordsInv, Listed, ReadPacket
<1> DEFINE more == Flying(calls, Tail(toRead)) \o
                     (Answers(calls, crntCmd.data) \o Remaining(calls, pc, job))
<1>2. more \in Seq(Places) /\ Waited(calls, transferList) = Buffered \o more
  BY <1>1, FirstReply
<1>3. /\ n \in 1..Len(transferList)
      /\ Needed(n) = Len(UpTo(calls, transferList, n))
      /\ Needed(n - 1) = Len(UpTo(calls, transferList, n - 1))
      /\ Len(UpTo(calls, transferList, n)) <= Len(Buffered)
  BY <1>1, ServedParts
<1> HIDE DEF more
<1>4. SubSeq(Buffered, Len(UpTo(calls, transferList, n - 1)) + 1, Len(UpTo(calls, transferList, n)))
        = WordsOf(calls, transferList[n], 0)
  BY <1>1, <1>2, <1>3, ServedWords
<1> QED BY <1>3, <1>4

(* The state of the results after a packet has been read.                  *)
LEMMA ReadsAnswer ==
  ASSUME PipelineInv, CoverInv, ReadPacket, NEW r \in DOMAIN result
  PROVE  /\ DOMAIN result' = DOMAIN result
         /\ (\E n \in 1..Served : transferList[n] = r) =>
              /\ result'[r].state = "done"
              /\ NoUsbFault => result'[r] = Done(calls, r)
         /\ ~(\E n \in 1..Served : transferList[n] = r) => result'[r] = result[r]
<1>1. result' = [i \in DOMAIN result |->
         IF \E n \in 1..Served : transferList[n] = i
           THEN LET n == CHOOSE n \in 1..Served : transferList[n] = i
                IN [state |-> "done",
                    words |-> SubSeq(Buffered, Needed(n - 1) + 1, Needed(n))]
           ELSE result[i]]
  BY DEF ReadPacket
<1>2. CASE \E n \in 1..Served : transferList[n] = r
  <2>1. PICK n : n = CHOOSE m \in 1..Served : transferList[m] = r
    OBVIOUS
  <2>2. n \in 1..Served /\ transferList[n] = r
    BY <1>2, <2>1
  <2>3. result'[r] = [state |-> "done", words |-> SubSeq(Buffered, Needed(n - 1) + 1, Needed(n))]
    BY <1>1, <1>2, <2>1
  <2>4. NoUsbFault => SubSeq(Buffered, Needed(n - 1) + 1, Needed(n)) = WordsOf(calls, r, 0)
    BY <2>2, ReadsAreRightful
  <2> QED BY <1>1, <1>2, <2>3, <2>4 DEF Done
<1>3. CASE ~ \E n \in 1..Served : transferList[n] = r
  BY <1>1, <1>3
<1> QED BY <1>2, <1>3

(* A new access does not change what another is to be answered.            *)
LEMMA DoneStays ==
  ASSUME NEW cs \in Seq(Calls), NEW c \in Calls, NEW id \in 1..Len(cs)
  PROVE  Done(Append(cs, c), id) = Done(cs, id)
BY IssuedLater DEF Done, WordsOf

(* Every step keeps the answers right.                                     *)
LEMMA StepsKeepRightful ==
  ASSUME PipelineInv, CoverInv, Rightful, ClosedInOrder, [Next]_vars
  PROVE  Rightful'
<1>1. calls \in Seq(Calls) /\ result \in Seq(Outcome) /\ Len(result) = Len(calls)
  BY DEF PipelineInv, ControlInv, Typed, CoverInv, WordsInv, Listed
<1>2. CASE UNCHANGED vars
  BY <1>2 DEF vars, Rightful, NoUsbFault
<1>3. CASE Quiet
  BY <1>3 DEF Quiet, Rightful
<1>4. CASE GivesUp
  <2>1. /\ DOMAIN result' = DOMAIN result /\ calls' = calls
        /\ \A r \in DOMAIN result : result'[r] = result[r] \/ result'[r] = NoWords("error")
    BY <1>4 DEF GivesUp, Abort
  <2>2. NoWords("error").state # "done"
    BY DEF NoWords
  <2> QED BY <1>4, <2>1, <2>2 DEF GivesUp, Rightful
<1>5. CASE ReadsOne
  <2>1. calls' = calls /\ NoUsbFault' = NoUsbFault /\ ReadPacket
    BY <1>5 DEF ReadsOne, NoUsbFault
  <2>2. \A r \in DOMAIN result :
          /\ DOMAIN result' = DOMAIN result
          /\ NoUsbFault => result'[r] = Done(calls, r) \/ result'[r] = result[r]
    BY <2>1, ReadsAnswer
  <2>3. DOMAIN result' = DOMAIN result
    BY <2>1 DEF ReadPacket
  <2> QED BY <2>1, <2>2, <2>3 DEF Rightful
<1>6. ASSUME NEW call \in Calls, NEW outcome \in {"posted", "pending"}, Issuing(call, outcome)
      PROVE  Rightful'
  <2>1. /\ calls' = Append(calls, call) /\ result' = Append(result, NoWords(outcome))
        /\ NoUsbFault' = NoUsbFault
    BY <1>6 DEF Issuing, NoUsbFault
  <2> DEFINE what == NoWords(outcome)
  <2>2. what.state # "done" /\ what \in Outcome
    BY DEF NoWords, Outcome
  <2> HIDE DEF what
  <2>3. /\ DOMAIN result' = 1..(Len(calls) + 1) /\ result'[Len(calls) + 1] = what
        /\ \A i \in 1..Len(calls) : result'[i] = result[i]
    BY <1>1, <2>1, <2>2, AppendProperties DEF what
  <2>4. ASSUME NoUsbFault, NEW id \in 1..(Len(calls) + 1), result'[id].state = "done"
        PROVE  result'[id] = Done(calls', id)
    <3>1. id \in 1..Len(calls)
      BY <1>1, <2>2, <2>3, <2>4
    <3>2. result'[id] = result[id] /\ result[id] = Done(calls, id)
      BY <1>1, <2>3, <2>4, <3>1 DEF Rightful
    <3> QED BY <1>1, <2>1, <3>1, <3>2, DoneStays
  <2> QED BY <2>1, <2>3, <2>4 DEF Rightful
<1> QED BY <1>2, <1>3, <1>4, <1>5, <1>6, StepsSorted

(* The variables of the service.                                           *)
Lengths  == [i \in DOMAIN calls |-> calls[i].count]
Answered == [id \in DOMAIN result |-> Judged(id)]

(* What the service is shown are the right words of every answer.          *)
LEMMA AnsweredIsShown == CoverInv /\ Rightful => Answered = Shown(calls, result)
<1> SUFFICES ASSUME CoverInv, Rightful, NEW id \in DOMAIN result
             PROVE  Judged(id) = IF result[id].state = "done" THEN Done(calls, id) ELSE result[id]
  BY DEF Answered, Shown
<1>1. result[id] \in Outcome
  BY DEF CoverInv, WordsInv, Listed
<1>2. result[id] = [state |-> result[id].state, words |-> result[id].words]
  BY <1>1 DEF Outcome
<1>3. WordsAfter(id, 0) = WordsOf(calls, id, 0)
  BY DEF WordsAfter, WordsOf
<1>4. CASE result[id].state = "done" /\ ~NoUsbFault
  BY <1>2, <1>3, <1>4 DEF Judged, Done
<1>5. CASE result[id].state = "done" /\ NoUsbFault
  BY <1>5 DEF Judged, Rightful
<1>6. CASE result[id].state # "done"
  BY <1>6 DEF Judged
<1> QED BY <1>4, <1>5, <1>6

(* ... in the next state too.                                              *)
LEMMA AnsweredIsShownNext == CoverInv' /\ Rightful' => (Answered = Shown(calls, result))'
BY AnsweredIsShown, PTL

(* Every step is one of the service, or nothing to it.                     *)
LEMMA StepsAreServed ==
  ASSUME PipelineInv, CoverInv, Rightful, CoverInv', Rightful', ClosedInOrder, [Next]_vars
  PROVE  [Service!Next]_(Service!vars)
<1>1. /\ Answered = Shown(calls, result)
      /\ Answered' = Shown(calls', result')
  BY AnsweredIsShown, AnsweredIsShownNext
<1>2. /\ calls \in Seq(Calls) /\ result \in Seq(Outcome) /\ Len(result) = Len(calls)
      /\ transferList \in Seq(1..Len(calls))
      /\ DOMAIN calls = 1..Len(calls) /\ DOMAIN result = 1..Len(calls) /\ Len(calls) \in Nat
      /\ \A a \in 1..Len(calls) : calls[a].count \in Nat
  <2>1. /\ calls \in Seq(Calls) /\ result \in Seq(Outcome) /\ Len(result) = Len(calls)
        /\ transferList \in Seq(1..Len(calls))
    BY DEF PipelineInv, ControlInv, Typed, CoverInv, WordsInv, Listed
  <2>2. \A a \in 1..Len(calls) : calls[a] \in Calls
    BY <2>1
  <2> QED BY <2>1, <2>2 DEF Calls
<1>3. CASE UNCHANGED vars
  BY <1>1, <1>3 DEF vars, Service!vars, Lengths, Answered
<1>4. CASE Quiet
  BY <1>1, <1>4 DEF Quiet, Service!vars, Lengths, Answered
<1>5. CASE GivesUp
  <2>1. /\ calls' = calls /\ transferList' = <<>>
        /\ result' = [r \in DOMAIN result |->
                       IF \E i \in DOMAIN transferList : transferList[i] = r
                         THEN NoWords("error") ELSE result[r]]
    BY <1>5 DEF GivesUp, Abort
  <2>2. NoWords("error") = Service!NoWords("error") /\ NoWords("error").state # "done"
    BY DEF NoWords, Service!NoWords
  <2>3. Answered' = [a \in DOMAIN Answered |->
                      IF \E k \in DOMAIN transferList : transferList[k] = a
                        THEN Service!NoWords("error") ELSE Answered[a]]
    BY <1>1, <2>1, <2>2, Zenon DEF Shown
  <2>4. Lengths' = Lengths
    BY <2>1 DEF Lengths
  <2>5. Service!GiveUp
    BY <2>1, <2>3, <2>4 DEF Service!GiveUp, Answered, Lengths
  <2> QED BY <2>5 DEF Service!Next
<1>6. CASE ReadsOne
  <2>1. /\ calls' = calls /\ ReadPacket /\ DOMAIN result' = DOMAIN result
        /\ transferList' = SubSeq(transferList, Served + 1, Len(transferList))
    BY <1>6 DEF ReadsOne, ReadPacket
  <2>2. Served \in 0..Len(transferList)
    <3>1. Buffered \in Seq(Places)
      BY <2>1, BufferedIsSeq DEF CoverInv, WordsInv, ReadPacket
    <3> QED BY <1>2, <3>1, ServedFits
  <2>3. Lengths' = Lengths
    BY <2>1 DEF Lengths
  <2>4. \A a \in DOMAIN result :
          Answered'[a] = IF \E k \in 1..Served : transferList[k] = a
                           THEN Done(calls, a) ELSE Answered[a]
    <3> TAKE a \in DOMAIN result
    <3>1. Answered'[a] = IF result'[a].state = "done" THEN Done(calls, a) ELSE result'[a]
      BY <1>1, <2>1 DEF Shown
    <3>2. Answered[a] = IF result[a].state = "done" THEN Done(calls, a) ELSE result[a]
      BY <1>1 DEF Shown
    <3> HIDE DEF Answered
    <3> QED BY <2>1, <3>1, <3>2, ReadsAnswer
  <2>5. \A a \in 1..Len(calls) : Done(calls, a) = Service!WordsOf(a)
    <3> TAKE a \in 1..Len(calls)
    <3>1. calls[a].count \in Nat /\ Lengths[a] = calls[a].count
      BY <1>2 DEF Lengths
    <3>2. [i \in 1..(calls[a].count - 0) |-> <<a, 0 + i>>] = [i \in 1..Lengths[a] |-> <<a, i>>]
      <4>1. calls[a].count - 0 = Lengths[a] /\ \A i \in 1..Lengths[a] : 0 + i = i
        BY <3>1
      <4> QED BY <4>1
    <3> QED BY <3>2 DEF Done, WordsOf, Service!WordsOf, Lengths
  <2>6. DOMAIN Answered = DOMAIN result /\ DOMAIN Answered' = DOMAIN result
    BY <2>1 DEF Answered
  <2>7. Answered' = [a \in DOMAIN Answered |->
                      IF \E k \in 1..Served : transferList[k] = a
                        THEN Service!WordsOf(a) ELSE Answered[a]]
    <3>1. Answered' = [a \in DOMAIN Answered' |-> Answered'[a]]
      BY DEF Answered
    <3>2. ASSUME NEW a \in DOMAIN result
          PROVE  Answered'[a] = IF \E k \in 1..Served : transferList[k] = a
                                  THEN Service!WordsOf(a) ELSE Answered[a]
      <4>1. Done(calls, a) = Service!WordsOf(a)
        BY <1>2, <2>5
      <4> HIDE DEF Answered
      <4> QED BY <2>4, <4>1
    <3> HIDE DEF Answered
    <3> QED BY ONLY <2>6, <3>1, <3>2
  <2>8. CASE Served = 0
    <3>1. transferList' = transferList
      <4>1. transferList' = SubSeq(transferList, 1, Len(transferList))
        BY <2>1, <2>8
      <4> QED BY <1>2, <4>1, SubSeqFull
    <3>2. 1..Served = {}
      BY <2>8
    <3>3. Answered' = [a \in DOMAIN Answered |-> Answered[a]]
      BY <2>7, <3>2
    <3>4. Answered = [a \in DOMAIN Answered |-> Answered[a]]
      BY DEF Answered
    <3> QED BY <2>3, <3>1, <3>3, <3>4 DEF Service!vars, Lengths, Answered
  <2>9. CASE Served # 0
    <3>1. Served \in 1..Len(transferList)
      BY <1>2, <2>2, <2>9
    <3>2. Service!Answer(Served)
      BY <2>1, <2>3, <2>7 DEF Service!Answer, Answered, Lengths
    <3> QED BY <3>1, <3>2 DEF Service!Next
  <2> QED BY <2>8, <2>9
<1>7. ASSUME NEW call \in Calls, NEW outcome \in {"posted", "pending"}, Issuing(call, outcome)
      PROVE  Service!Next
  <2> DEFINE what == NoWords(outcome)
             N    == Len(calls)
  <2>1. /\ calls' = Append(calls, call) /\ result' = Append(result, what)
    BY <1>7 DEF Issuing
  <2>2. what = Service!NoWords(outcome) /\ what.state # "done" /\ what \in Outcome
    BY DEF NoWords, Service!NoWords, Outcome
  <2> HIDE DEF what
  <2>3. /\ Len(calls') = N + 1 /\ DOMAIN calls' = 1..(N + 1) /\ N \in Nat
        /\ \A i \in 1..N : calls'[i] = calls[i]
        /\ DOMAIN result' = 1..(N + 1) /\ result'[N + 1] = what
        /\ \A i \in 1..N : result'[i] = result[i] /\ i # N + 1
    BY <1>2, <2>1, <2>2, AppendProperties
  <2>4. /\ Lengths \in Seq(Nat) /\ Len(Lengths) = N
        /\ Lengths' \in Seq(Nat) /\ Len(Lengths') = N + 1
        /\ \A i \in 1..N : Lengths'[i] = Lengths[i]
    <3>1. /\ Lengths = [i \in 1..N |-> calls[i].count]
          /\ Lengths' = [i \in 1..(N + 1) |-> calls'[i].count]
      BY <1>2, <2>3 DEF Lengths
    <3>2. \A i \in 1..(N + 1) : calls'[i].count \in Nat
      <4>1. calls' \in Seq(Calls)
        BY <1>2, <2>1
      <4>2. \A i \in 1..(N + 1) : calls'[i] \in Calls
        BY <2>3, <4>1
      <4> QED BY <4>2 DEF Calls
    <3>3. \A i \in 1..N : calls[i].count \in Nat /\ i \in 1..(N + 1) /\ calls'[i] = calls[i]
      BY <1>2, <2>3
    <3>4. /\ Lengths \in [1..N -> Nat] /\ Lengths' \in [1..(N + 1) -> Nat]
          /\ \A i \in 1..N : Lengths'[i] = Lengths[i]
      BY <3>1, <3>2, <3>3
    <3> DEFINE L == Lengths
               K == Lengths'
    <3>5. /\ L \in [1..N -> Nat] /\ K \in [1..(N + 1) -> Nat] /\ N \in Nat /\ N + 1 \in Nat
      BY <2>3, <3>4
    <3> HIDE DEF L, K, N
    <3>6. L \in Seq(Nat) /\ Len(L) = N /\ K \in Seq(Nat) /\ Len(K) = N + 1
      BY ONLY <3>5
    <3> QED BY <3>4, <3>6 DEF L, K
  <2>5. Service!Issue
    <3>1. Lengths' # <<>>
      BY <2>3, <2>4
    <3>2. Service!Front(Lengths') = Lengths
      <4>1. Service!Front(Lengths') = SubSeq(Lengths', 1, Len(Lengths') - 1)
        BY DEF Service!Front
      <4>2. Len(Lengths') - 1 = N
        BY <2>3, <2>4
      <4>3. SubSeq(Lengths', 1, N) = Lengths
        BY <2>3, <2>4
      <4> QED BY <4>1, <4>2, <4>3
    <3> QED BY <3>1, <3>2 DEF Service!Issue, Lengths
  <2>6. Answered' = Append(Answered, Service!NoWords(outcome))
    <3>1. /\ Shown(calls, result) = [id \in 1..N |-> Shown(calls, result)[id]]
          /\ Shown(calls', result') = [id \in 1..(N + 1) |-> Shown(calls', result')[id]]
      BY <1>2, <2>3 DEF Shown
    <3>2. \A id \in 1..N : Shown(calls', result')[id] = Shown(calls, result)[id]
      BY <1>2, <2>1, <2>3, DoneStays DEF Shown
    <3>3. Shown(calls', result')[N + 1] = what
      BY <2>2, <2>3 DEF Shown
    <3> DEFINE s == Shown(calls, result)
               z == Shown(calls', result')
    <3>4. /\ s = [id \in 1..N |-> s[id]] /\ z = [id \in 1..(N + 1) |-> z[id]]
          /\ \A id \in 1..N : z[id] = s[id]
          /\ z[N + 1] = what /\ N \in Nat
      BY <2>3, <3>1, <3>2, <3>3
    <3> HIDE DEF s, z, N
    <3>5. z = Append(s, what)
      <4> DEFINE S == {s[id] : id \in 1..N} \cup {what}
      <4>1. \A id \in 1..N : s[id] \in S
        OBVIOUS
      <4>2. what \in S
        OBVIOUS
      <4> HIDE DEF S
      <4>3. s \in [1..N -> S] /\ N \in Nat
        BY <3>4, <4>1
      <4>4. s \in Seq(S) /\ Len(s) = N
        BY ONLY <4>3
      <4>5. /\ Append(s, what) \in Seq(S) /\ Len(Append(s, what)) = N + 1
            /\ \A id \in 1..N : Append(s, what)[id] = s[id]
            /\ Append(s, what)[N + 1] = what
        BY ONLY <4>2, <4>4, AppendProperties
      <4> DEFINE y == Append(s, what)
      <4>6. DOMAIN y = 1..(N + 1) /\ y = [id \in DOMAIN y |-> y[id]]
        <5>1. y \in Seq(S) /\ Len(y) = N + 1
          BY <4>5
        <5> HIDE DEF y
        <5> QED BY ONLY <5>1
      <4>7. \A id \in 1..(N + 1) : id \in 1..N \/ id = N + 1
        BY <3>4
      <4>8. \A id \in 1..(N + 1) : z[id] = y[id]
        BY <3>4, <4>5, <4>7
      <4> HIDE DEF y
      <4>9. z = y
        BY <3>4, <4>6, <4>8
      <4> QED BY <4>9 DEF y
    <3> QED BY <1>1, <2>2, <3>5 DEF s, z
  <2>7. CASE outcome = "posted" /\ transferList' = transferList
    <3>1. Service!Write
      BY <2>5, <2>6, <2>7 DEF Service!Write, Answered
    <3> QED BY <3>1 DEF Service!Next
  <2>8. CASE outcome = "pending" /\ transferList' = Append(transferList, N + 1)
    <3>1. Service!Read
      BY <2>4, <2>5, <2>6, <2>8 DEF Service!Read, Answered, Lengths
    <3> QED BY <3>1 DEF Service!Next
  <2> QED BY <1>7, <2>7, <2>8 DEF Issuing
<1> QED BY <1>3, <1>4, <1>5, <1>6, <1>7, StepsSorted

-----------------------------------------------------------------------------
(* The theorems                                                            *)

(* The invariant holds in every session.                                   *)
THEOREM PipelineIsInductive == Spec => []PipelineInv
<1>1. Init => PipelineInv
  BY InitHasInv
<1>2. PipelineInv /\ [Next]_vars => PipelineInv'
  BY StepsKeepInv
<1> QED BY <1>1, <1>2, PTL DEF Spec

(* A packet is never longer than the buffer it is encoded into, nor is its *)
(* reply, and a DAP_Transfer has no more transfers than its byte counts,   *)
(* for every packet size and whatever accesses are joined in it            *)
(* (_Command.get_request_space and add).                                   *)
THEOREM PacketsAlwaysFit == Spec => []PacketsFit
<1>1. PipelineInv => PacketsFit
  BY DEF PipelineInv, PacketInv, PacketsFit
<1> QED BY <1>1, PipelineIsInductive, PTL

(* The target performs the words of the accesses in the order in which     *)
(* they were issued and each at most once, for any number of threads and   *)
(* packets and whichever transfers and packets fail (_write, flush and     *)
(* _abort_all_transfers).                                                  *)
THEOREM AccessesInOrder == Spec => []InOrder
<1>1. PipelineInv => InOrder
  BY DEF PipelineInv, OrderInv, Sorted, Before, InOrder
<1> QED BY <1>1, PipelineIsInductive, PTL

(* When a flush ends and nothing has failed, every word of every access    *)
(* issued so far has been performed: none is left in the current packet,   *)
(* in a packet that was not sent, or in a packet in flight that was given  *)
(* up because its reply did not decode (flush, "to guarantee that previous *)
(* writes are complete").                                                  *)
THEOREM FlushAlwaysCompletes == Spec => []FlushCompletes
<1>1. Init => FlushInv
  BY InitHasFlush
<1>2. PipelineInv /\ PipelineInv' /\ FlushInv /\ [Next]_vars => FlushInv'
  BY StepsKeepFlush
<1>3. PipelineInv /\ FlushInv => FlushCompletes
  <2> SUFFICES ASSUME PipelineInv, FlushInv, NEW t \in Threads, pc[t] = "drain", NoFaults,
                      NEW id \in DOMAIN calls, NEW i \in 1..calls[id].count
               PROVE  Performed(id, i)
    BY DEF FlushCompletes, Performed
  <2>1. crntCmd.data = <<>>
    BY DEF FlushInv, Settled
  <2>2. \A u \in Threads : ~Filling(u)
    BY DEF PipelineInv, ControlInv, LockFits, Filling, Locked
  <2> QED BY <2>1, <2>2 DEF FlushInv, NoneLost, Packed, Awaited
<1> QED BY <1>1, <1>2, <1>3, PipelineIsInductive, PTL DEF Spec

(* A thread is inside a locked method exactly when it holds the lock of    *)
(* the probe, in every step of every call (@locked).                       *)
THEOREM LockIsRightful == Spec => []LockFits
<1>1. PipelineInv => LockFits
  BY DEF PipelineInv, ControlInv
<1> QED BY <1>1, PipelineIsInductive, PTL

(* Everything a waiting transfer lacks is somewhere.                       *)
THEOREM CoverIsInductive == Spec => []CoverInv
<1>1. Init => CoverInv
  BY InitHasCover
<1>2. PipelineInv /\ CoverInv /\ [Next]_vars => CoverInv'
  BY StepsKeepCover
<1> QED BY <1>1, <1>2, PipelineIsInductive, PTL DEF Spec

(* At every step of every thread the words that the waiting reads lack are,*)
(* in order, those in the response buffer, in the packets in flight, in    *)
(* the current packet and in what _write() has still to add: while no USB  *)
(* fault has happened no read waits for a word that will not come, and     *)
(* none gets the word of another (_read_packet, get_result).               *)
THEOREM WordsAreCovered == Spec => []Covered
<1>1. PipelineInv /\ CoverInv => Covered
  <2> SUFFICES ASSUME PipelineInv, CoverInv, NoUsbFault
               PROVE  Wanted(Len(transferList))
                        = responseBuf
                            \o FlattenSeq([i \in DOMAIN toRead |-> ReadWords(toRead[i].data)])
                            \o ReadWords(crntCmd.data) \o Unfilled
    BY DEF Covered
  <2>1. /\ Listed /\ Balanced /\ toRead \in Seq(Packet) /\ crntCmd.data \in Seq(Places)
        /\ transferList \in Seq(1..Len(calls)) /\ responseBuf \in Seq(Places)
    BY DEF PipelineInv, ControlInv, Typed, Packet, CoverInv, WordsInv, Listed
  <2>2. Wanted(Len(transferList)) = Waited(calls, transferList)
    <3>1. Len(transferList) \in 0..Len(transferList)
      BY <2>1
    <3>2. SubSeq(transferList, 1, Len(transferList)) = transferList
      BY <2>1, SubSeqFull
    <3>3. Wanted(Len(transferList)) = UpTo(calls, transferList, Len(transferList))
      BY <2>1, <3>1, WantedFirst
    <3> QED BY <3>2, <3>3 DEF UpTo
  <2>3. \A data : ReadWords(data) = Answers(calls, data)
    BY DEF ReadWords, IsRead, Answers, One
  <2>4. Unfilled = Remaining(calls, pc, job)
    BY Zenon DEF Unfilled, Remaining, WordsAfter, WordsOf
  <2> DEFINE F == Flying(calls, toRead)
             A == Answers(calls, crntCmd.data)
             R == Remaining(calls, pc, job)
  <2>5. /\ FlattenSeq([i \in DOMAIN toRead |-> ReadWords(toRead[i].data)]) = F
        /\ ReadWords(crntCmd.data) = A
    BY <2>3 DEF Flying
  <2>6. F \in Seq(Places) /\ A \in Seq(Places) /\ R \in Seq(Places)
    BY <2>1, FlyingIsSeq, AnswersIsSeq, RemainingIsSeq
  <2>7. Waited(calls, transferList) = responseBuf \o (F \o (A \o R))
    BY <2>1 DEF Balanced
  <2> HIDE DEF F, A, R
  <2>8. responseBuf \o F \o A \o R = responseBuf \o (F \o (A \o R))
    <3> DEFINE G == responseBuf \o F
               H == A \o R
    <3>1. G \in Seq(Places) /\ H \in Seq(Places)
      BY <2>1, <2>6, ConcatProperties
    <3>2. G \o H = responseBuf \o (F \o H)
      <4>1. H \in Seq(Places) /\ responseBuf \in Seq(Places) /\ F \in Seq(Places)
        BY <2>1, <2>6, <3>1
      <4> HIDE DEF H, G
      <4>2. (responseBuf \o F) \o H = responseBuf \o (F \o H)
        BY ONLY <4>1, ConcatAssociative
      <4> QED BY <4>2 DEF G
    <3>3. (G \o A) \o R = G \o H
      <4> HIDE DEF G
      <4> QED BY <2>6, <3>1, ConcatAssociative DEF H
    <3> QED BY <3>2, <3>3
  <2> QED BY <2>2, <2>4, <2>5, <2>7, <2>8 DEF R
<1> QED BY <1>1, PipelineIsInductive, CoverIsInductive, PTL

(* Until a USB fault every read is answered with its own words.            *)
LEMMA RightfulAlways == Spec /\ []ClosedInOrder => []Rightful
<1>1. Init => Rightful
  BY DEF Init, Rightful
<1>2. PipelineInv /\ CoverInv /\ ClosedInOrder /\ Rightful /\ [Next]_vars => Rightful'
  BY StepsKeepRightful
<1> QED BY <1>1, <1>2, PipelineIsInductive, CoverIsInductive, PTL DEF Spec

(* However accesses are joined in packets and packets pipelined, the reads *)
(* are answered in the order of issue, each with the words the target      *)
(* returned for it, or all that wait are given up with an error. After a   *)
(* USB fault the words are not promised; and close() must not come after   *)
(* one, for open() then drops the reads that still wait without a word.    *)
THEOREM PipelineImplementsService == Spec /\ []ClosedInOrder => ServiceSpec
<1>1. Init => Service!Init
  BY DEF Init, Service!Init
<1>2. PipelineInv /\ CoverInv /\ Rightful /\ CoverInv' /\ Rightful' /\ ClosedInOrder /\ [Next]_vars
        => [Service!Next]_(Service!vars)
  BY StepsAreServed
<1>3. Spec /\ []ClosedInOrder => Service!Init /\ [][Service!Next]_(Service!vars)
  BY <1>1, <1>2, RightfulAlways, PipelineIsInductive, CoverIsInductive, PTL DEF Spec
<1> QED BY <1>3 DEF ServiceSpec, Service!Spec
=============================================================================
