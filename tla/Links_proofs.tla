----------------------------- MODULE Links_proofs -----------------------------
(***************************************************************************)
(* Proofs about the two links on which an answer must find its question:   *)
(* the packets between gdb and its session, and the packets between the    *)
(* user of a probe and its receive thread; and about the one on which no   *)
(* byte may get lost, the ring of RTT between host and target.             *)
(*                                                                         *)
(* PacketIo: the exchange of one command is in one of six phases, and in   *)
(* each of them it is known what there is in the streams besides acks and  *)
(* Ctrl-C: nothing, one packet, or one nack.  Where a read splits the      *)
(* stream does not matter, since the buffer and the socket are looked at   *)
(* together.                                                               *)
(*                                                                         *)
(* UsbBackend: what is to be read is, in order, what the receive thread    *)
(* has, what the probe has sent, and what it has yet to answer.            *)
(*                                                                         *)
(* RttChannel: the copy that the host has of an offset of the target is at *)
(* most behind it, so that there are at least the bytes the host reads and *)
(* at least the room it writes to.                                         *)
(***************************************************************************)
EXTENDS PacketIo, UsbBackend, RttChannel, SequenceTheorems, TLAPS

-----------------------------------------------------------------------------
(* Streams of packets                                                     *)

Small == {"ack", "nack", "ctrl-c"}
Item == [is : Small] \cup [is : {"body"}, n : Nat] \cup [is : {"sum"}, good : BOOLEAN]

(* What a stream holds besides acks and Ctrl-C: nothing, one packet, or    *)
(* one nack.                                                               *)
Plain(item) == item.is \in {"ack", "ctrl-c"}
Quiet(s) == \A i \in DOMAIN s : Plain(s[i])
PacketAt(s, n, p) ==
  /\ p \in 1..(Len(s) - 1) /\ s[p] = [is |-> "body", n |-> n]
  /\ s[p + 1] \in [is : {"sum"}, good : BOOLEAN]
  /\ \A i \in DOMAIN s : i \notin {p, p + 1} => Plain(s[i])
OnePacket(s, n) == \E p \in Nat : PacketAt(s, n, p)
NackAt(s, p) ==
  /\ p \in DOMAIN s /\ s[p].is = "nack" /\ \A i \in DOMAIN s : i # p => Plain(s[i])
OneNack(s) == \E p \in Nat : NackAt(s, p)

-----------------------------------------------------------------------------
LEMMA PacketItems ==
  ASSUME NEW n \in Nat, NEW good \in BOOLEAN
  PROVE  /\ Packet(n, good) \in Seq(Item) /\ Len(Packet(n, good)) = 2
         /\ Packet(n, good)[1] = [is |-> "body", n |-> n]
         /\ Packet(n, good)[2] = [is |-> "sum", good |-> good]
BY DEF Packet, Item

LEMMA SmallItems == /\ AckByte \in Item /\ NackByte \in Item /\ CtrlCByte \in Item
                    /\ Plain(AckByte) /\ Plain(CtrlCByte) /\ NackByte.is = "nack"
BY DEF AckByte, NackByte, CtrlCByte, Item, Small, Plain

LEMMA ConcatItems ==
  ASSUME NEW s \in Seq(Item), NEW t \in Seq(Item)
  PROVE  /\ s \o t \in Seq(Item) /\ Len(s) \in Nat /\ Len(t) \in Nat
         /\ Len(s \o t) = Len(s) + Len(t)
         /\ DOMAIN (s \o t) = 1..(Len(s) + Len(t))
         /\ \A i \in 1..Len(s) : (s \o t)[i] = s[i]
         /\ \A i \in 1..Len(t) : (s \o t)[Len(s) + i] = t[i]
OBVIOUS

LEMMA ConcatAgain ==
  ASSUME NEW s \in Seq(Item), NEW t \in Seq(Item), NEW u \in Seq(Item)
  PROVE  (s \o t) \o u = s \o (t \o u)
<1> DEFINE l == (s \o t) \o u
           r == s \o (t \o u)
<1>1. /\ l \in Seq(Item) /\ Len(l) = Len(s) + Len(t) + Len(u)
      /\ r \in Seq(Item) /\ Len(r) = Len(s) + Len(t) + Len(u)
      /\ Len(s) \in Nat /\ Len(t) \in Nat /\ Len(u) \in Nat
  BY ConcatItems
<1>2. ASSUME NEW i \in 1..(Len(s) + Len(t) + Len(u)) PROVE l[i] = r[i]
  OBVIOUS
<1> HIDE DEF l, r
<1>3. l = r
  BY <1>1, <1>2
<1> QED
  BY <1>3 DEF l, r

(* A read, of any length, moves the boundary between socket and buffer.    *)
LEMMA ReadMoves ==
  ASSUME NEW b \in Seq(Item), NEW t \in Seq(Item), NEW n \in 1..Len(t)
  PROVE  /\ b \o SubSeq(t, 1, n) \in Seq(Item) /\ SubSeq(t, n + 1, Len(t)) \in Seq(Item)
         /\ (b \o SubSeq(t, 1, n)) \o SubSeq(t, n + 1, Len(t)) = b \o t
<1>1. SubSeq(t, 1, n) \in Seq(Item) /\ Len(SubSeq(t, 1, n)) = n
  OBVIOUS
<1>2. SubSeq(t, n + 1, Len(t)) \in Seq(Item) /\ Len(SubSeq(t, n + 1, Len(t))) = Len(t) - n
  OBVIOUS
<1>3. SubSeq(t, 1, n) \o SubSeq(t, n + 1, Len(t)) = t
  BY <1>1, <1>2
<1> DEFINE read == SubSeq(t, 1, n)
           rest == SubSeq(t, n + 1, Len(t))
<1>4. read \in Seq(Item) /\ rest \in Seq(Item) /\ read \o rest = t
  BY <1>1, <1>2, <1>3
<1> HIDE DEF read, rest
<1>5. (b \o read) \o rest = b \o (read \o rest)
  BY <1>4, ConcatAgain
<1>6. b \o read \in Seq(Item)
  BY <1>4
<1> QED
  BY <1>4, <1>5, <1>6 DEF read, rest

(* Taking the first item out of the buffer takes it out of the stream.     *)
LEMMA HeadMoves ==
  ASSUME NEW b \in Seq(Item), NEW t \in Seq(Item), b # <<>>
  PROVE  /\ Tail(b) \in Seq(Item) /\ Tail(b) \o t = Tail(b \o t)
         /\ b \o t # <<>> /\ Head(b \o t) = Head(b)
<1>1. Len(b) \in Nat \ {0} /\ Tail(b) \in Seq(Item) /\ Len(Tail(b)) = Len(b) - 1
  OBVIOUS
<1>2. Head(b \o t) = Head(b) /\ b \o t # <<>>
  BY <1>1
<1>3. Tail(b \o t) = Tail(b) \o t
  BY <1>1
<1> QED
  BY <1>1, <1>2, <1>3

LEMMA QuietTail ==
  ASSUME NEW s \in Seq(Item), s # <<>>, Quiet(s)
  PROVE  Quiet(Tail(s))
BY DEF Quiet

LEMMA PacketTail ==
  ASSUME NEW s \in Seq(Item), s # <<>>, NEW n, OnePacket(s, n), Head(s).is \in Small
  PROVE  OnePacket(Tail(s), n)
<1>1. PICK p \in Nat : PacketAt(s, n, p)
  BY DEF OnePacket
<1>2. p # 1
  BY <1>1 DEF PacketAt, Small
<1>3. Len(Tail(s)) = Len(s) - 1 /\ \A i \in 1..(Len(s) - 1) : Tail(s)[i] = s[i + 1]
  OBVIOUS
<1>4. PacketAt(Tail(s), n, p - 1)
  BY <1>1, <1>2, <1>3 DEF PacketAt
<1>5. p - 1 \in Nat
  BY <1>1 DEF PacketAt
<1> QED
  BY <1>4, <1>5 DEF OnePacket

LEMMA NackTail ==
  ASSUME NEW s \in Seq(Item), s # <<>>, OneNack(s)
  PROVE  /\ Head(s).is # "nack" => OneNack(Tail(s))
         /\ Head(s).is = "nack" => Quiet(Tail(s))
<1>1. PICK p \in Nat : NackAt(s, p)
  BY DEF OneNack
<1>2. Len(Tail(s)) = Len(s) - 1 /\ \A i \in 1..(Len(s) - 1) : Tail(s)[i] = s[i + 1]
  OBVIOUS
<1>3. ASSUME Head(s).is # "nack" PROVE NackAt(Tail(s), p - 1) /\ p - 1 \in Nat
  BY <1>1, <1>2, <1>3 DEF NackAt
<1>4. ASSUME Head(s).is = "nack" PROVE Quiet(Tail(s))
  BY <1>1, <1>2, <1>4 DEF NackAt, Quiet, Plain
<1> QED
  BY <1>3, <1>4 DEF OneNack

(* What gdb sends comes after what it has sent.                            *)
LEMMA QuietAdds ==
  ASSUME NEW s \in Seq(Item), Quiet(s)
  PROVE  /\ \A x \in Item : Plain(x) => Quiet(Append(s, x))
         /\ OneNack(Append(s, NackByte))
         /\ \A n \in Nat, good \in BOOLEAN : OnePacket(s \o Packet(n, good), n)
<1>1. \A x \in Item : Plain(x) => Quiet(Append(s, x))
  BY DEF Quiet
<1>2. NackAt(Append(s, NackByte), Len(s) + 1)
  BY SmallItems DEF Quiet, NackAt
<1>3. ASSUME NEW n \in Nat, NEW good \in BOOLEAN
      PROVE  PacketAt(s \o Packet(n, good), n, Len(s) + 1)
  <2> DEFINE packet == Packet(n, good)
  <2>1. /\ packet \in Seq(Item) /\ Len(packet) = 2
        /\ packet[1] = [is |-> "body", n |-> n] /\ packet[2] = [is |-> "sum", good |-> good]
    BY PacketItems
  <2> HIDE DEF packet
  <2>2. /\ Len(s \o packet) = Len(s) + 2 /\ DOMAIN (s \o packet) = 1..(Len(s) + 2)
        /\ (s \o packet)[Len(s) + 1] = packet[1] /\ (s \o packet)[Len(s) + 2] = packet[2]
        /\ \A i \in 1..Len(s) : (s \o packet)[i] = s[i]
    <3>1. 1 \in 1..Len(packet) /\ 2 \in 1..Len(packet)
      BY <2>1
    <3>2. (s \o packet)[Len(s) + 1] = packet[1]
      BY <2>1, <3>1, ConcatItems
    <3>3. (s \o packet)[Len(s) + 2] = packet[2]
      BY <2>1, <3>1, ConcatItems
    <3>4. /\ Len(s \o packet) = Len(s) + Len(packet) /\ DOMAIN (s \o packet) = 1..(Len(s) + Len(packet))
          /\ \A i \in 1..Len(s) : (s \o packet)[i] = s[i]
      BY <2>1, ConcatItems
    <3> QED
      BY <2>1, <3>2, <3>3, <3>4
  <2>3. PacketAt(s \o packet, n, Len(s) + 1)
    BY <2>1, <2>2 DEF Quiet, PacketAt
  <2> QED
    BY <2>3 DEF packet
<1> QED
  BY <1>1, <1>2, <1>3 DEF OneNack, OnePacket

LEMMA CtrlCAdds ==
  ASSUME NEW s \in Seq(Item)
  PROVE  /\ OneNack(s) => OneNack(Append(s, CtrlCByte))
         /\ \A n \in Nat : OnePacket(s, n) => OnePacket(Append(s, CtrlCByte), n)
<1>1. ASSUME NEW p \in Nat, NackAt(s, p) PROVE NackAt(Append(s, CtrlCByte), p)
  BY <1>1, SmallItems DEF NackAt
<1>2. ASSUME NEW n \in Nat, NEW p \in Nat, PacketAt(s, n, p)
      PROVE  PacketAt(Append(s, CtrlCByte), n, p)
  BY <1>2, SmallItems DEF PacketAt
<1> QED
  BY <1>1, <1>2 DEF OneNack, OnePacket

LEMMA Joined ==
  ASSUME NEW b \in Seq(Item), NEW t \in Seq(Item)
  PROVE  /\ \A x \in Item : b \o Append(t, x) = Append(b \o t, x)
         /\ \A u \in Seq(Item) : b \o (t \o u) = (b \o t) \o u
<1>1. \A x \in Item : b \o Append(t, x) = Append(b \o t, x)
  OBVIOUS
<1> QED
  BY <1>1, ConcatAgain

(* The first packet in the buffer is the one in the stream, and nothing    *)
(* but acks and Ctrl-C is left behind it.                                  *)
LEMMA Single ==
  ASSUME NEW p, NEW I, I = {p}, p \in Nat
  PROVE  Min(I) = p
BY DEF Min

LEMMA FoundPacket ==
  ASSUME NEW b \in Seq(Item), NEW t \in Seq(Item), NEW n \in Nat, OnePacket(b \o t, n),
         NEW first, first = SelectInSeq(b, LAMBDA item : item.is = "body"),
         NEW final, final = SelectInSeq(b, LAMBDA item : item.is = "sum"),
         first # 0, final # 0
  PROVE  /\ first \in 1..Len(b) /\ b[first] = [is |-> "body", n |-> n]
         /\ final \in 1..Len(b) /\ b[final] \in [is : {"sum"}, good : BOOLEAN]
         /\ SubSeq(b, final + 1, Len(b)) \in Seq(Item)
         /\ Quiet(SubSeq(b, final + 1, Len(b)) \o t)
<1>1. PICK p \in Nat : PacketAt(b \o t, n, p)
  BY DEF OnePacket
<1>2. Len(b) \in Nat /\ Len(b \o t) = Len(b) + Len(t) /\ \A i \in 1..Len(b) : (b \o t)[i] = b[i]
  OBVIOUS
<1>3. \A i \in 1..Len(b) : b[i].is = "body" => i = p
  BY SMTT(20), <1>1, <1>2 DEF PacketAt, Plain
<1>4. \A i \in 1..Len(b) : b[i].is = "sum" => i = p + 1
  BY SMTT(20), <1>1, <1>2 DEF PacketAt, Plain
<1>5. first = p /\ p \in 1..Len(b)
  <2> DEFINE I == {i \in 1..Len(b) : b[i].is = "body"}
  <2>1. I # {} /\ first = Min(I)
    BY DEF SelectInSeq
  <2>2. I = {p}
    BY <2>1, <1>3
  <2> QED
    BY <2>1, <2>2, Single
<1>6. final = p + 1 /\ p + 1 \in 1..Len(b)
  <2> DEFINE I == {i \in 1..Len(b) : b[i].is = "sum"}
  <2>1. I # {} /\ final = Min(I)
    BY DEF SelectInSeq
  <2>2. I = {p + 1}
    BY <2>1, <1>4
  <2> QED
    BY <2>1, <2>2, Single
<1>7. SubSeq(b, p + 2, Len(b)) \in Seq(Item) /\ Len(SubSeq(b, p + 2, Len(b))) = Len(b) - p - 1
      /\ \A i \in 1..(Len(b) - p - 1) : SubSeq(b, p + 2, Len(b))[i] = b[i + p + 1]
  BY <1>6
<1>8. Quiet(SubSeq(b, p + 2, Len(b)) \o t)
  <2> SUFFICES ASSUME NEW i \in 1..(Len(b) - p - 1 + Len(t))
               PROVE  Plain((SubSeq(b, p + 2, Len(b)) \o t)[i])
    BY <1>7 DEF Quiet
  <2> DEFINE rest == SubSeq(b, p + 2, Len(b))
  <2> HIDE DEF rest
  <2>0. /\ rest \in Seq(Item) /\ Len(rest) = Len(b) - p - 1
        /\ \A k \in 1..(Len(b) - p - 1) : rest[k] = b[k + p + 1]
    BY <1>7 DEF rest
  <2>3. ASSUME i <= Len(b) - p - 1 PROVE (rest \o t)[i] = (b \o t)[i + p + 1]
    <3>1. i \in 1..Len(rest) /\ i + p + 1 \in 1..Len(b)
      BY <2>0, <2>3, <1>6, <1>2
    <3>2. (rest \o t)[i] = rest[i] /\ (b \o t)[i + p + 1] = b[i + p + 1]
      BY <3>1, <2>0, ConcatItems
    <3>3. rest[i] = b[i + p + 1]
      BY <3>1, <2>0
    <3> QED
      BY <3>2, <3>3
  <2>4. ASSUME i > Len(b) - p - 1 PROVE (rest \o t)[i] = (b \o t)[i + p + 1]
    <3> DEFINE k == i - (Len(b) - p - 1)
    <3>1. k \in 1..Len(t) /\ i = Len(rest) + k /\ i + p + 1 = Len(b) + k
      BY SMTT(20), <2>0, <2>4, <1>6, <1>2
    <3> HIDE DEF k
    <3>2. (rest \o t)[Len(rest) + k] = t[k] /\ (b \o t)[Len(b) + k] = t[k]
      BY <3>1, <2>0, ConcatItems
    <3>3. (rest \o t)[i] = (b \o t)[i + p + 1]
      BY <3>1, <3>2
    <3> QED
      BY <3>3
  <2>5. i <= Len(b) - p - 1 \/ i > Len(b) - p - 1
    BY <1>2, <1>6
  <2>1. (rest \o t)[i] = (b \o t)[i + p + 1]
    BY <2>3, <2>4, <2>5
  <2>2. i + p + 1 \in DOMAIN (b \o t) /\ i + p + 1 \notin {p, p + 1}
    BY <1>2, <1>6
  <2> QED
    BY <2>1, <2>2, <1>1 DEF PacketAt, rest
<1> QED
  BY SMTT(20), <1>1, <1>2, <1>5, <1>6, <1>7, <1>8 DEF PacketAt

LEMMA NoPacketFound ==
  ASSUME NEW b \in Seq(Item), NEW t \in Seq(Item), Quiet(b \o t) \/ OneNack(b \o t)
  PROVE  SelectInSeq(b, LAMBDA item : item.is = "body") = 0
<1>1. \A i \in 1..Len(b) : (b \o t)[i] = b[i] /\ i \in DOMAIN (b \o t)
  OBVIOUS
<1>2. \A i \in 1..Len(b) : b[i].is # "body"
  BY <1>1 DEF Quiet, OneNack, NackAt, Plain
<1>3. {i \in 1..Len(b) : b[i].is = "body"} = {}
  BY <1>2
<1> QED
  BY <1>3 DEF SelectInSeq

(* What gdb finds first in an answer: the ack of its command, or the reply. *)
LEMMA AnswerHead ==
  ASSUME NEW n \in Nat, NEW good \in BOOLEAN
  PROVE  /\ Head(Packet(n, good)).is = "body"
         /\ Head(<<AckByte>> \o Packet(n, good)).is = "ack"
         /\ Tail(<<AckByte>> \o Packet(n, good)) = Packet(n, good)
<1> DEFINE packet == Packet(n, good)
           ack == <<AckByte>>
<1>1. /\ packet \in Seq(Item) /\ Len(packet) = 2
      /\ packet[1] = [is |-> "body", n |-> n]
  BY PacketItems
<1>2. ack \in Seq(Item) /\ Len(ack) = 1 /\ ack # <<>> /\ Head(ack) = AckByte /\ Tail(ack) = <<>>
  BY SmallItems
<1> HIDE DEF packet, ack
<1>3. Tail(ack) \o packet = Tail(ack \o packet) /\ Head(ack \o packet) = Head(ack)
  BY <1>1, <1>2, HeadMoves
<1>4. Tail(ack \o packet) = packet
  <2>1. <<>> \o packet = packet
    BY <1>1
  <2> QED
    BY <1>2, <1>3, <2>1
<1>5. Head(packet) = packet[1]
  BY <1>1
<1>6. Head(packet).is = "body"
  BY <1>1, <1>5
<1>7. Head(ack \o packet).is = "ack"
  BY <1>2, <1>3 DEF AckByte
<1> QED
  BY <1>4, <1>6, <1>7 DEF packet, ack

-----------------------------------------------------------------------------
Sent      == buffer \o toServer
Resting   == sesPc \in {"top", "receive", "sent"}
Unhandled == received = <<>> /\ Resting /\ Len(handled) = Len(accepted)
Answered  == received = <<>> /\ Resting /\ Len(handled) = At /\ lastPacket = At

(* Where the exchange of gdb's command is: between two of them; the        *)
(* command on its way, or found damaged; with the session; its reply on    *)
(* its way, or found damaged.                                              *)
Idle      == gdbPc = "idle" /\ toGdb = <<>> /\ Quiet(Sent) /\ Unhandled
Asking    == gdbPc # "idle" /\ toGdb = <<>> /\ OnePacket(Sent, At) /\ Unhandled
Refused   == gdbPc # "idle" /\ toGdb \in {<<>>, <<NackByte>>} /\ Quiet(Sent) /\ Unhandled
Working   == /\ gdbPc # "idle" /\ toGdb \in {<<>>, <<AckByte>>} /\ Quiet(Sent)
             /\ \/ received = <<At>> /\ Resting /\ Len(handled) = Len(accepted)
                \/ received = <<>> /\ sesPc \in {"running", "reply"} /\ Len(handled) = At
Answering == /\ gdbPc # "idle" /\ Quiet(Sent) /\ Answered
             /\ \E good \in BOOLEAN :
                  toGdb = Packet(At, good) \/ toGdb = <<AckByte>> \o Packet(At, good)
Complaining == gdbPc # "idle" /\ toGdb = <<>> /\ OneNack(Sent) /\ Answered

Exchange == Idle \/ Asking \/ Refused \/ Working \/ Answering \/ Complaining

PioTypes ==
  /\ buffer \in Seq(Item) /\ toServer \in Seq(Item)
  /\ handled \in Seq(Nat) /\ accepted \in Seq(Nat)

PioInv == PioTypes /\ Exchange /\ InStep

LEMMA AtIsNat ==
  ASSUME PioTypes
  PROVE  /\ At \in Nat /\ Len(accepted) \in Nat /\ Len(handled) \in Nat /\ Sent \in Seq(Item)
         /\ gdbPc = "idle" => At = Len(accepted)
         /\ gdbPc # "idle" => At = Len(accepted) + 1
BY DEF PioTypes, At, Sent

LEMMA PioInitInv == PioInit => PioInv
<1> SUFFICES ASSUME PioInit PROVE PioInv
  OBVIOUS
<1>1. PioTypes /\ InStep
  BY DEF PioInit, PioTypes, InStep
<1>2. Quiet(Sent)
  BY DEF PioInit, Sent, Quiet
<1>3. Unhandled
  BY DEF PioInit, Unhandled, Resting
<1>4. Idle
  BY <1>2, <1>3 DEF PioInit, Idle
<1> QED
  BY <1>1, <1>4 DEF PioInv, Exchange

(* Steps that handle, answer and accept nothing: the exchange stays where  *)
(* it is when what there is between acks and Ctrl-C stays.                 *)
LEMMA Moved ==
  ASSUME PioInv, PioTypes', UNCHANGED <<toGdb, received, handled, lastPacket, gdbPc, accepted>>,
         \/ sesPc' = sesPc
         \/ Resting /\ Resting'
         \/ sesPc \in {"running", "reply"} /\ sesPc' \in {"running", "reply"},
         Quiet(Sent) => Quiet(Sent'), OneNack(Sent) => OneNack(Sent'),
         OnePacket(Sent, At) => OnePacket(Sent', At)
  PROVE  PioInv'
<1>1. At' = At
  BY DEF At
<1>2. InStep'
  BY DEF PioInv, InStep
<1>3. Unhandled => Unhandled'
  BY DEF Unhandled, Resting
<1>4. Answered => Answered'
  BY <1>1 DEF Answered, Resting
<1>5. CASE Idle
  <2>1. Idle'
    BY <1>3, <1>5 DEF Idle
  <2> QED
    BY <2>1, <1>2 DEF PioInv, Exchange
<1>6. CASE Asking
  <2>1. Asking'
    BY <1>1, <1>3, <1>6 DEF Asking
  <2> QED
    BY <2>1, <1>2 DEF PioInv, Exchange
<1>7. CASE Refused
  <2>1. Refused'
    BY <1>3, <1>7 DEF Refused
  <2> QED
    BY <2>1, <1>2 DEF PioInv, Exchange
<1>8. CASE Working
  <2>1. Working'
    BY <1>1, <1>8 DEF Working, Resting
  <2> QED
    BY <2>1, <1>2 DEF PioInv, Exchange
<1>9. CASE Answering
  <2>1. Answering'
    BY <1>1, <1>4, <1>9 DEF Answering
  <2> QED
    BY <2>1, <1>2 DEF PioInv, Exchange
<1>10. CASE Complaining
  <2>1. Complaining'
    BY <1>4, <1>10 DEF Complaining
  <2> QED
    BY <2>1, <1>2 DEF PioInv, Exchange
<1> QED
  BY <1>5, <1>6, <1>7, <1>8, <1>9, <1>10 DEF PioInv, Exchange

(* Dropping an ack or a Ctrl-C at the start of the buffer.                 *)
LEMMA DropsPlain ==
  ASSUME PioInv, buffer # <<>>, Plain(Head(buffer)), buffer' = Tail(buffer), UNCHANGED toServer
  PROVE  /\ buffer' \in Seq(Item)
         /\ Quiet(Sent) => Quiet(Sent')
         /\ OneNack(Sent) => OneNack(Sent')
         /\ \A n : OnePacket(Sent, n) => OnePacket(Sent', n)
<1>1. buffer \in Seq(Item) /\ toServer \in Seq(Item) /\ Sent \in Seq(Item)
  BY AtIsNat DEF PioInv, PioTypes
<1>2. /\ Tail(buffer) \in Seq(Item) /\ Tail(buffer) \o toServer = Tail(Sent)
      /\ Sent # <<>> /\ Head(Sent) = Head(buffer)
  BY <1>1, HeadMoves DEF Sent
<1>3. Sent' = Tail(Sent)
  BY <1>2 DEF Sent
<1>4. Head(Sent).is \in Small /\ Head(Sent).is # "nack"
  BY <1>2 DEF Plain, Small
<1> QED
  BY <1>1, <1>2, <1>3, <1>4, QuietTail, NackTail, PacketTail

-----------------------------------------------------------------------------
LEMMA ReadInv ==
  ASSUME PioInv, Read
  PROVE  PioInv'
<1>0. buffer \in Seq(Item) /\ toServer \in Seq(Item)
  BY DEF PioInv, PioTypes
<1>1. PICK n \in 1..Len(toServer) : /\ buffer' = buffer \o SubSeq(toServer, 1, n)
                                    /\ toServer' = SubSeq(toServer, n + 1, Len(toServer))
  BY DEF Read
<1>2. /\ buffer \o SubSeq(toServer, 1, n) \in Seq(Item)
      /\ SubSeq(toServer, n + 1, Len(toServer)) \in Seq(Item)
      /\ (buffer \o SubSeq(toServer, 1, n)) \o SubSeq(toServer, n + 1, Len(toServer)) = Sent
  BY <1>0, ReadMoves DEF Sent
<1>3. buffer' \in Seq(Item) /\ toServer' \in Seq(Item) /\ buffer' \o toServer' = Sent
  BY <1>1, <1>2
<1>4. Sent' = Sent
  BY <1>3 DEF Sent
<1>5. PioTypes'
  BY <1>3 DEF PioInv, PioTypes, Read, pioSession, pioGdb
<1> QED
  BY <1>4, <1>5, Moved DEF Read, pioSession, pioGdb

LEMMA QuietStepsInv ==
  ASSUME PioInv, ReadTimesOut \/ NoAckExpected \/ NoPacket \/ LoopTop \/ StopOnCtrlC
                 \/ CoreStopsItself \/ ExpectAck \/ UNCHANGED pioVars
  PROVE  PioInv'
<1>1. UNCHANGED <<buffer, toServer, toGdb, received, handled, lastPacket, gdbPc, accepted>>
  BY DEF ReadTimesOut, NoAckExpected, NoPacket, LoopTop, StopOnCtrlC, CoreStopsItself, ExpectAck,
         pioVars, pioThread, pioSession, pioGdb
<1>2. \/ sesPc' = sesPc
      \/ Resting /\ Resting'
      \/ sesPc \in {"running", "reply"} /\ sesPc' \in {"running", "reply"}
  BY DEF ReadTimesOut, NoAckExpected, NoPacket, LoopTop, StopOnCtrlC, CoreStopsItself, ExpectAck,
         pioVars, pioThread, pioSession, pioGdb, Resting
<1>3. Sent' = Sent
  BY <1>1 DEF Sent
<1>4. PioTypes'
  BY <1>1 DEF PioInv, PioTypes
<1> QED
  BY <1>1, <1>2, <1>3, <1>4, Moved

LEMMA CheckAckInv ==
  ASSUME PioInv, CheckAck
  PROVE  PioInv'
<1>1. UNCHANGED <<toServer, toGdb, received, handled, lastPacket, gdbPc, accepted, sesPc>>
  BY DEF CheckAck, pioSession, pioGdb
<1>2. CASE StartsWith(buffer, "ack")
  <2>1. buffer # <<>> /\ Plain(Head(buffer)) /\ buffer' = Tail(buffer)
    BY <1>2 DEF CheckAck, StartsWith, Plain
  <2>2. PioTypes'
    BY <1>1, <2>1, DropsPlain DEF PioInv, PioTypes
  <2>3. /\ Quiet(Sent) => Quiet(Sent')
        /\ OneNack(Sent) => OneNack(Sent')
        /\ OnePacket(Sent, At) => OnePacket(Sent', At)
    BY <1>1, <2>1, DropsPlain
  <2> QED
    BY <1>1, <2>2, <2>3, Moved
<1>3. CASE ~StartsWith(buffer, "ack")
  <2>1. Sent' = Sent /\ buffer' = buffer
    BY <1>3 DEF CheckAck, Sent
  <2>2. PioTypes'
    BY <1>1, <2>1 DEF PioInv, PioTypes
  <2> QED
    BY <1>1, <2>1, <2>2, Moved
<1> QED
  BY <1>2, <1>3

LEMMA FindCtrlCInv ==
  ASSUME PioInv, FindCtrlC
  PROVE  PioInv'
<1>1. UNCHANGED <<toServer, toGdb, received, handled, lastPacket, gdbPc, accepted, sesPc>>
  BY DEF FindCtrlC, pioSession, pioGdb
<1>2. CASE StartsWith(buffer, "ctrl-c")
  <2>1. buffer # <<>> /\ Plain(Head(buffer)) /\ buffer' = Tail(buffer)
    BY <1>2 DEF FindCtrlC, StartsWith, Plain
  <2>2. PioTypes'
    BY <1>1, <2>1, DropsPlain DEF PioInv, PioTypes
  <2>3. /\ Quiet(Sent) => Quiet(Sent')
        /\ OneNack(Sent) => OneNack(Sent')
        /\ OnePacket(Sent, At) => OnePacket(Sent', At)
    BY <1>1, <2>1, DropsPlain
  <2> QED
    BY <1>1, <2>2, <2>3, Moved
<1>3. CASE ~StartsWith(buffer, "ctrl-c")
  <2>1. Sent' = Sent /\ buffer' = buffer
    BY <1>3 DEF FindCtrlC, Sent
  <2>2. PioTypes'
    BY <1>1, <2>1 DEF PioInv, PioTypes
  <2> QED
    BY <1>1, <2>1, <2>2, Moved
<1> QED
  BY <1>2, <1>3

(* gdb's acks and Ctrl-C.                                                  *)
LEMMA SendCtrlCInv ==
  ASSUME PioInv, SendCtrlC
  PROVE  PioInv'
<1>0. buffer \in Seq(Item) /\ toServer \in Seq(Item) /\ Sent \in Seq(Item)
  BY AtIsNat DEF PioInv, PioTypes
<1>1. UNCHANGED <<buffer, toGdb, received, handled, lastPacket, gdbPc, accepted, sesPc>>
  BY DEF SendCtrlC, pioThread, pioSession
<1>2. toServer' = Append(toServer, CtrlCByte) /\ toServer' \in Seq(Item)
  BY <1>0, SmallItems DEF SendCtrlC
<1>3. Sent' = Append(Sent, CtrlCByte)
  BY <1>0, <1>1, <1>2, SmallItems, Joined DEF Sent
<1>4. PioTypes'
  BY <1>1, <1>2 DEF PioInv, PioTypes
<1>5. Quiet(Sent) => Quiet(Sent')
  BY <1>0, <1>3, QuietAdds, SmallItems
<1>6. OneNack(Sent) => OneNack(Sent')
  BY <1>0, <1>3, CtrlCAdds
<1>7. OnePacket(Sent, At) => OnePacket(Sent', At)
  BY <1>0, <1>3, CtrlCAdds, AtIsNat DEF PioInv
<1> QED
  BY <1>1, <1>4, <1>5, <1>6, <1>7, Moved

-----------------------------------------------------------------------------
(* gdb and a packet.                                                       *)

LEMMA SendCommandInv ==
  ASSUME PioInv, SendCommand
  PROVE  PioInv'
<1>0. /\ buffer \in Seq(Item) /\ toServer \in Seq(Item) /\ Sent \in Seq(Item)
      /\ At \in Nat /\ At = Len(accepted)
  BY AtIsNat DEF PioInv, PioTypes, SendCommand
<1>1. UNCHANGED <<buffer, toGdb, received, handled, lastPacket, accepted, sesPc>>
  BY DEF SendCommand, pioThread, pioSession
<1>2. PICK good \in BOOLEAN : toServer' = toServer \o Packet(At + 1, good)
  BY DEF SendCommand
<1>3. Packet(At + 1, good) \in Seq(Item)
  <2>1. At + 1 \in Nat
    BY <1>0
  <2> QED
    BY <2>1, PacketItems
<1>4. toServer' \in Seq(Item) /\ Sent' = Sent \o Packet(At + 1, good)
  <2>1. toServer' \in Seq(Item)
    BY <1>0, <1>2, <1>3, ConcatItems
  <2>2. buffer \o (toServer \o Packet(At + 1, good)) = (buffer \o toServer) \o Packet(At + 1, good)
    BY <1>0, <1>3, Joined
  <2> QED
    BY <1>1, <1>2, <2>1, <2>2 DEF Sent
<1>5. At' = At + 1 /\ gdbPc' # "idle"
  BY <1>0, <1>1 DEF At, SendCommand
<1>6. Idle
  BY DEF PioInv, Exchange, SendCommand, Idle, Asking, Refused, Working, Answering, Complaining
<1>7. OnePacket(Sent', At')
  BY <1>0, <1>4, <1>5, <1>6, QuietAdds DEF Idle
<1>8. Unhandled'
  BY <1>1, <1>6 DEF Idle, Unhandled, Resting
<1>9. Asking'
  BY <1>1, <1>5, <1>6, <1>7, <1>8 DEF Idle, Asking
<1>10. PioTypes' /\ InStep'
  BY <1>1, <1>4 DEF PioInv, PioTypes, InStep
<1> QED
  BY <1>9, <1>10 DEF PioInv, Exchange

LEMMA GdbTakesNackInv ==
  ASSUME PioInv, GdbTakesNack
  PROVE  PioInv'
<1>0. buffer \in Seq(Item) /\ toServer \in Seq(Item) /\ Sent \in Seq(Item) /\ At \in Nat
  BY AtIsNat DEF PioInv, PioTypes
<1>1. UNCHANGED <<buffer, gdbPc, received, handled, lastPacket, accepted, sesPc>> /\ gdbPc # "idle"
  BY DEF GdbTakesNack, pioThread, pioSession, pioGdb
<1>2. PICK good \in BOOLEAN : toServer' = toServer \o Packet(At, good)
  BY DEF GdbTakesNack
<1>3. Packet(At, good) \in Seq(Item)
  BY <1>0, PacketItems
<1>4. toServer' \in Seq(Item) /\ Sent' = Sent \o Packet(At, good)
  <2>1. toServer' \in Seq(Item)
    BY <1>0, <1>2, <1>3, ConcatItems
  <2>2. buffer \o (toServer \o Packet(At, good)) = (buffer \o toServer) \o Packet(At, good)
    BY <1>0, <1>3, Joined
  <2> QED
    BY <1>1, <1>2, <2>1, <2>2 DEF Sent
<1>5. At' = At
  BY <1>1 DEF At
<1>6. toGdb # <<>> /\ Head(toGdb).is = "nack" /\ toGdb' = Tail(toGdb)
  BY DEF GdbTakesNack, StartsWith
<1>7. Refused /\ toGdb' = <<>>
  <2>1. ~Idle /\ ~Asking /\ ~Complaining
    BY <1>6 DEF Idle, Asking, Complaining
  <2>2. ~Working
    BY <1>6 DEF Working, AckByte
  <2>3. ~Answering
    BY <1>0, <1>6, AnswerHead DEF Answering
  <2>4. Refused
    BY <2>1, <2>2, <2>3 DEF PioInv, Exchange
  <2>5. toGdb = <<NackByte>>
    BY <2>4, <1>6 DEF Refused
  <2> QED
    BY <2>4, <2>5, <1>6
<1>8. OnePacket(Sent', At')
  BY <1>0, <1>4, <1>5, <1>7, QuietAdds DEF Refused
<1>9. Unhandled'
  BY <1>1, <1>7 DEF Refused, Unhandled, Resting
<1>10. Asking'
  BY <1>1, <1>7, <1>8, <1>9 DEF Asking
<1>11. PioTypes' /\ InStep'
  BY <1>1, <1>4 DEF PioInv, PioTypes, InStep
<1> QED
  BY <1>10, <1>11 DEF PioInv, Exchange

(* The ack of a command stands alone or before the reply.                  *)
LEMMA GdbTakesAckInv ==
  ASSUME PioInv, GdbTakesAck \/ GdbIgnoresAck
  PROVE  PioInv'
<1>0. At \in Nat
  BY AtIsNat DEF PioInv
<1>1. /\ UNCHANGED <<toServer, buffer, received, handled, lastPacket, accepted, sesPc>>
      /\ gdbPc # "idle" /\ gdbPc' # "idle"
  BY DEF GdbTakesAck, GdbIgnoresAck, pioThread, pioSession, pioGdb
<1>2. Sent' = Sent /\ At' = At
  BY <1>1 DEF Sent, At
<1>3. toGdb # <<>> /\ Head(toGdb).is = "ack" /\ toGdb' = Tail(toGdb)
  BY DEF GdbTakesAck, GdbIgnoresAck, StartsWith
<1>4. PioTypes' /\ InStep'
  BY <1>1 DEF PioInv, PioTypes, InStep
<1>5. ~Idle /\ ~Asking /\ ~Complaining
  BY <1>3 DEF Idle, Asking, Complaining
<1>6. ~Refused
  BY <1>3 DEF Refused, NackByte
<1>7. CASE Working
  <2>1. toGdb' = <<>>
    <3>1. toGdb = <<AckByte>>
      BY <1>3, <1>7 DEF Working
    <3> QED
      BY <1>3, <3>1
  <2>2. Working'
    BY <1>1, <1>2, <1>7, <2>1 DEF Working, Resting
  <2> QED
    BY <2>2, <1>4 DEF PioInv, Exchange
<1>8. CASE Answering
  <2>1. PICK good \in BOOLEAN :
          toGdb = Packet(At, good) \/ toGdb = <<AckByte>> \o Packet(At, good)
    BY <1>8 DEF Answering
  <2>2. toGdb' = Packet(At, good)
    BY <1>0, <1>3, <2>1, AnswerHead
  <2>3. Answered'
    BY <1>1, <1>2, <1>8 DEF Answering, Answered, Resting
  <2>4. Answering'
    BY <1>1, <1>2, <1>8, <2>2, <2>3 DEF Answering
  <2> QED
    BY <2>4, <1>4 DEF PioInv, Exchange
<1> QED
  BY <1>5, <1>6, <1>7, <1>8 DEF PioInv, Exchange

LEMMA GdbTakesReplyInv ==
  ASSUME PioInv, GdbTakesReply
  PROVE  PioInv'
<1>0. /\ buffer \in Seq(Item) /\ toServer \in Seq(Item) /\ Sent \in Seq(Item)
      /\ At \in Nat /\ accepted \in Seq(Nat) /\ Len(accepted) \in Nat /\ At = Len(accepted) + 1
  BY AtIsNat DEF PioInv, PioTypes, GdbTakesReply
<1>1. UNCHANGED <<buffer, received, handled, lastPacket, sesPc>> /\ gdbPc # "idle"
  BY DEF GdbTakesReply, pioThread, pioSession
<1>2. toGdb # <<>> /\ Head(toGdb).is = "body"
  BY DEF GdbTakesReply, StartsWith
<1>3. Answering
  <2>1. ~Idle /\ ~Asking /\ ~Complaining
    BY <1>2 DEF Idle, Asking, Complaining
  <2>2. ~Working
    BY <1>2 DEF Working, AckByte
  <2>3. ~Refused
    BY <1>2 DEF Refused, NackByte
  <2> QED
    BY <2>1, <2>2, <2>3 DEF PioInv, Exchange
<1>4. PICK good \in BOOLEAN :
        toGdb = Packet(At, good) \/ toGdb = <<AckByte>> \o Packet(At, good)
  BY <1>3 DEF Answering
<1>5. toGdb = Packet(At, good)
  BY <1>0, <1>2, <1>4, AnswerHead
<1>6. toGdb[1].n = At /\ toGdb[2].good = good /\ Len(toGdb) = 2
  BY <1>5 DEF Packet
<1>7. toGdb' = <<>>
  BY <1>5, <1>6 DEF GdbTakesReply, Packet
<1>8. CASE good
  <2>1. /\ toServer' = IF gdbAcks THEN Append(toServer, AckByte) ELSE toServer
        /\ accepted' = Append(accepted, At) /\ gdbPc' = "idle"
    BY <1>6, <1>8 DEF GdbTakesReply
  <2>2. /\ accepted' \in Seq(Nat) /\ Len(accepted') = At
        /\ accepted'[At] = At /\ \A i \in 1..Len(accepted) : accepted'[i] = accepted[i]
    BY <1>0, <2>1
  <2>3. toServer' \in Seq(Item) /\ (Sent' = Sent \/ Sent' = Append(Sent, AckByte))
    <3>1. Append(toServer, AckByte) \in Seq(Item)
      BY <1>0, SmallItems
    <3>2. buffer \o Append(toServer, AckByte) = Append(buffer \o toServer, AckByte)
      BY <1>0, SmallItems, Joined
    <3> QED
      BY <1>0, <1>1, <2>1, <3>1, <3>2 DEF Sent
  <2>4. Quiet(Sent')
    BY <1>0, <1>3, <2>3, SmallItems, QuietAdds DEF Answering
  <2>5. Unhandled'
    BY <1>1, <1>3, <2>2 DEF Answering, Answered, Unhandled, Resting
  <2>6. Idle'
    BY <1>7, <2>1, <2>4, <2>5 DEF Idle
  <2>7. PioTypes'
    BY <1>1, <2>2, <2>3 DEF PioInv, PioTypes
  <2>8. ASSUME NEW i \in DOMAIN accepted' PROVE accepted'[i] = i
    <3>1. i \in 1..Len(accepted) \/ i = At
      BY <1>0, <2>2
    <3>2. \A k \in 1..Len(accepted) : accepted[k] = k
      BY <1>0 DEF PioInv, InStep
    <3> QED
      BY <2>2, <3>1, <3>2
  <2>9. InStep'
    BY <1>1, <2>8 DEF PioInv, InStep
  <2> QED
    BY <2>6, <2>7, <2>9 DEF PioInv, Exchange
<1>9. CASE ~good
  <2>1. toServer' = Append(toServer, NackByte) /\ UNCHANGED <<accepted, gdbPc>>
    BY <1>6, <1>9 DEF GdbTakesReply
  <2>2. toServer' \in Seq(Item) /\ Sent' = Append(Sent, NackByte) /\ At' = At
    BY <1>0, <1>1, <2>1, SmallItems, Joined DEF Sent, At
  <2>3. OneNack(Sent')
    BY <1>0, <1>3, <2>2, QuietAdds DEF Answering
  <2>4. Answered'
    BY <1>1, <1>3, <2>2 DEF Answering, Answered, Resting
  <2>5. Complaining'
    BY <1>1, <1>7, <2>1, <2>3, <2>4 DEF Complaining
  <2>6. PioTypes' /\ InStep'
    BY <1>1, <2>1, <2>2 DEF PioInv, PioTypes, InStep
  <2> QED
    BY <2>5, <2>6 DEF PioInv, Exchange
<1> QED
  BY <1>8, <1>9

-----------------------------------------------------------------------------
(* The two threads and a packet.                                           *)

LEMMA FindPacketInv ==
  ASSUME PioInv, FindPacket
  PROVE  PioInv'
<1>0. /\ buffer \in Seq(Item) /\ toServer \in Seq(Item) /\ Sent \in Seq(Item) /\ At \in Nat
      /\ Len(accepted) \in Nat
  BY AtIsNat DEF PioInv, PioTypes
<1>1. UNCHANGED <<toServer, handled, lastPacket, sesPc, gdbPc, accepted>>
  BY DEF FindPacket, pioSession, pioGdb
<1>2. Begin # 0 /\ End # 0
  BY DEF FindPacket
<1>3. Asking
  <2>1. ~(Quiet(Sent) \/ OneNack(Sent))
    BY <1>0, <1>2, NoPacketFound DEF Sent, Begin
  <2> QED
    BY <2>1 DEF PioInv, Exchange, Idle, Asking, Refused, Working, Answering, Complaining
<1>4. /\ buffer[Begin] = [is |-> "body", n |-> At]
      /\ buffer[End] \in [is : {"sum"}, good : BOOLEAN]
      /\ SubSeq(buffer, End + 1, Len(buffer)) \in Seq(Item)
      /\ Quiet(SubSeq(buffer, End + 1, Len(buffer)) \o toServer)
  <2>1. OnePacket(buffer \o toServer, At)
    BY <1>3 DEF Asking, Sent
  <2> QED
    BY <1>0, <1>2, <2>1, FoundPacket DEF Begin, End
<1>5. buffer' = SubSeq(buffer, End + 1, Len(buffer))
  BY DEF FindPacket, After
<1>6. buffer' \in Seq(Item) /\ Quiet(Sent')
  BY <1>1, <1>4, <1>5 DEF Sent
<1>7. PioTypes' /\ InStep' /\ At' = At
  BY <1>1, <1>6 DEF PioInv, PioTypes, InStep, At
<1>8. buffer[Begin].n = At /\ received = <<>> /\ toGdb = <<>> /\ gdbPc # "idle" /\ Unhandled
  BY <1>3, <1>4 DEF Asking, Unhandled
<1>9. CASE buffer[End].good
  <2>1. received' = <<At>>
    BY <1>8, <1>9 DEF FindPacket
  <2>2. toGdb' \in {<<>>, <<AckByte>>}
    BY <1>8, <1>9 DEF FindPacket
  <2>3. Working'
    BY <1>1, <1>6, <1>7, <1>8, <2>1, <2>2 DEF Working, Unhandled, Resting
  <2> QED
    BY <1>7, <2>3 DEF PioInv, Exchange
<1>10. CASE ~buffer[End].good
  <2>1. received' = <<>>
    BY <1>8, <1>10 DEF FindPacket
  <2>2. toGdb' \in {<<>>, <<NackByte>>}
    BY <1>8, <1>10 DEF FindPacket
  <2>3. Refused'
    BY <1>1, <1>6, <1>8, <2>1, <2>2 DEF Refused, Unhandled, Resting
  <2> QED
    BY <1>7, <2>3 DEF PioInv, Exchange
<1> QED
  BY <1>9, <1>10

LEMMA ResendInv ==
  ASSUME PioInv, Resend
  PROVE  PioInv'
<1>0. /\ buffer \in Seq(Item) /\ toServer \in Seq(Item) /\ Sent \in Seq(Item) /\ At \in Nat
  BY AtIsNat DEF PioInv, PioTypes
<1>1. UNCHANGED <<toServer, received, handled, lastPacket, sesPc, gdbPc, accepted>>
  BY DEF Resend, pioSession, pioGdb
<1>2. buffer # <<>> /\ Head(buffer).is = "nack" /\ buffer' = Tail(buffer)
  BY DEF Resend, StartsWith
<1>3. /\ Tail(buffer) \in Seq(Item) /\ Tail(buffer) \o toServer = Tail(Sent)
      /\ Sent # <<>> /\ Head(Sent) = Head(buffer)
  BY <1>0, <1>2, HeadMoves DEF Sent
<1>4. buffer' \in Seq(Item) /\ Sent' = Tail(Sent) /\ At' = At
  BY <1>1, <1>2, <1>3 DEF Sent, At
<1>5. Complaining
  <2>1. Head(Sent) = Sent[1] /\ 1 \in DOMAIN Sent /\ Sent[1].is = "nack"
    BY <1>0, <1>2, <1>3
  <2>2. ~Quiet(Sent)
    BY <2>1 DEF Quiet, Plain
  <2>3. ~OnePacket(Sent, At)
    BY <1>0, <2>1 DEF OnePacket, PacketAt, Plain
  <2> QED
    BY <2>2, <2>3 DEF PioInv, Exchange, Idle, Asking, Refused, Working, Answering, Complaining
<1>6. Quiet(Sent')
  BY <1>0, <1>2, <1>3, <1>4, <1>5, NackTail DEF Complaining
<1>7. toGdb = <<>> /\ lastPacket = At /\ gdbPc # "idle" /\ Answered
  BY <1>5 DEF Complaining, Answered
<1>8. PICK good \in BOOLEAN : toGdb' = toGdb \o Packet(lastPacket, good)
  BY DEF Resend
<1>9. toGdb' = Packet(At, good)
  BY <1>0, <1>7, <1>8, PacketItems
<1>10. Answered'
  BY <1>1, <1>4, <1>7 DEF Answered, Resting
<1>11. Answering'
  BY <1>1, <1>4, <1>6, <1>7, <1>9, <1>10 DEF Answering
<1>12. PioTypes' /\ InStep'
  BY <1>1, <1>4 DEF PioInv, PioTypes, InStep
<1> QED
  BY <1>11, <1>12 DEF PioInv, Exchange

LEMMA TakeCommandInv ==
  ASSUME PioInv, TakeCommand
  PROVE  PioInv'
<1>0. /\ At \in Nat /\ Len(accepted) \in Nat /\ Len(handled) \in Nat /\ handled \in Seq(Nat)
      /\ gdbPc # "idle" => At = Len(accepted) + 1
  BY AtIsNat DEF PioInv, PioTypes
<1>1. UNCHANGED <<buffer, toServer, toGdb, lastPacket, gdbPc, accepted>>
  BY DEF TakeCommand, pioGdb
<1>2. received # <<>>
  BY DEF TakeCommand
<1>3. Working
  BY <1>2 DEF PioInv, Exchange, Idle, Asking, Refused, Answering, Complaining, Unhandled, Answered
<1>4. /\ received = <<At>> /\ gdbPc # "idle" /\ toGdb \in {<<>>, <<AckByte>>} /\ Quiet(Sent)
      /\ Len(handled) = Len(accepted)
  BY <1>2, <1>3 DEF Working
<1>5. received' = <<>> /\ handled' = Append(handled, At)
  BY <1>4 DEF TakeCommand
<1>6. /\ handled' \in Seq(Nat) /\ Len(handled') = At
      /\ handled'[At] = At /\ \A i \in 1..Len(handled) : handled'[i] = handled[i]
  BY <1>0, <1>4, <1>5
<1>7. sesPc' \in {"running", "reply"}
  BY DEF TakeCommand
<1>8. Sent' = Sent /\ At' = At
  BY <1>1 DEF Sent, At
<1>9. Working'
  BY <1>1, <1>4, <1>5, <1>6, <1>7, <1>8 DEF Working
<1>10. PioTypes'
  BY <1>1, <1>6 DEF PioInv, PioTypes
<1>11. ASSUME NEW i \in DOMAIN handled' PROVE handled'[i] = i
  <2>1. i \in 1..Len(handled) \/ i = At
    BY <1>0, <1>4, <1>6
  <2>2. \A k \in 1..Len(handled) : handled[k] = k
    BY <1>0 DEF PioInv, InStep
  <2> QED
    BY <1>6, <2>1, <2>2
<1>12. InStep'
  BY <1>1, <1>11 DEF PioInv, InStep
<1> QED
  BY <1>9, <1>10, <1>12 DEF PioInv, Exchange

LEMMA SentReply ==
  ASSUME PioInv, SendReply
  PROVE  /\ Working /\ lastPacket' = At
         /\ \E good \in BOOLEAN :
              toGdb' = Packet(At, good) \/ toGdb' = <<AckByte>> \o Packet(At, good)
<1>0. At \in Nat /\ handled \in Seq(Nat) /\ Len(accepted) \in Nat
  BY AtIsNat DEF PioInv, PioTypes
<1>1. UNCHANGED <<buffer, toServer, received, handled, gdbPc, accepted>> /\ sesPc = "reply"
  BY DEF SendReply, pioGdb
<1>2. Working
  BY <1>1 DEF PioInv, Exchange, Idle, Asking, Refused, Answering, Complaining, Unhandled, Answered,
              Resting
<1>3. /\ received = <<>> /\ gdbPc # "idle" /\ toGdb \in {<<>>, <<AckByte>>} /\ Quiet(Sent)
      /\ Len(handled) = At
  BY <1>1, <1>2 DEF Working, Resting
<1>4. Last(handled) = At
  <2>1. At # 0
    BY <1>0, <1>3 DEF At
  <2>2. At \in DOMAIN handled
    BY <1>0, <1>3, <2>1
  <2> QED
    BY <1>3, <2>2 DEF Last, PioInv, InStep
<1>5. lastPacket' = At /\ sesPc' = "sent"
  BY <1>4 DEF SendReply
<1>6. PICK good \in BOOLEAN : toGdb' = toGdb \o Packet(At, good)
  BY <1>4 DEF SendReply
<1>7. toGdb' = Packet(At, good) \/ toGdb' = <<AckByte>> \o Packet(At, good)
  <2>1. Packet(At, good) \in Seq(Item)
    BY <1>0, PacketItems
  <2>2. <<>> \o Packet(At, good) = Packet(At, good)
    BY <2>1
  <2>3. toGdb = <<>> \/ toGdb = <<AckByte>>
    BY <1>3
  <2> QED
    BY <1>6, <2>2, <2>3
<1> QED
  BY <1>2, <1>5, <1>7

LEMMA SendReplyInv ==
  ASSUME PioInv, SendReply
  PROVE  PioInv'
<1>0. At \in Nat
  BY AtIsNat DEF PioInv
<1>1. UNCHANGED <<buffer, toServer, received, handled, gdbPc, accepted>> /\ sesPc = "reply"
  BY DEF SendReply, pioGdb
<1>2. Working
  BY SentReply
<1>3. received = <<>> /\ gdbPc # "idle" /\ Quiet(Sent) /\ Len(handled) = At
  BY <1>1, <1>2 DEF Working, Resting
<1>5. lastPacket' = At /\ sesPc' = "sent"
  BY SentReply DEF SendReply
<1>7. \E good \in BOOLEAN :
        toGdb' = Packet(At, good) \/ toGdb' = <<AckByte>> \o Packet(At, good)
  BY SentReply
<1>8. Sent' = Sent /\ At' = At
  BY <1>1 DEF Sent, At
<1>9. Answered'
  BY <1>1, <1>3, <1>5, <1>8 DEF Answered, Resting
<1>10. Answering'
  BY <1>1, <1>3, <1>7, <1>8, <1>9 DEF Answering
<1>11. PioTypes' /\ InStep'
  BY <1>1 DEF PioInv, PioTypes, InStep
<1> QED
  BY <1>10, <1>11 DEF PioInv, Exchange

-----------------------------------------------------------------------------
LEMMA PioStepInv ==
  ASSUME PioInv, [PioNext]_pioVars
  PROVE  PioInv'
<1>1. CASE GdbStep
  BY <1>1, SendCommandInv, GdbTakesAckInv, GdbTakesNackInv, GdbTakesReplyInv DEF GdbStep
<1>2. CASE IoStep
  BY <1>2, ReadInv, QuietStepsInv, CheckAckInv, ResendInv, FindCtrlCInv, FindPacketInv DEF IoStep
<1>3. CASE SesStep
  BY <1>3, QuietStepsInv, TakeCommandInv, SendReplyInv DEF SesStep
<1>4. CASE SendCtrlC
  BY <1>4, SendCtrlCInv
<1>5. CASE CoreStopsItself \/ UNCHANGED pioVars
  BY <1>5, QuietStepsInv
<1> QED
  BY <1>1, <1>2, <1>3, <1>4, <1>5 DEF PioNext

(* Each command is handled once and in its turn, and its reply is the one  *)
(* gdb takes for it, whatever the number of commands and damaged packets.  *)
THEOREM InStepAlways == PioSpec => []InStep
<1>1. PioInv /\ [PioNext]_pioVars => PioInv'
  BY PioStepInv
<1>2. PioInv => InStep
  BY DEF PioInv
<1> QED
  BY PioInitInv, <1>1, <1>2, PTL DEF PioSpec

-----------------------------------------------------------------------------
(* Types.  The queue's follows from PioInv.                                *)

Pcs   == /\ ioPc \in {"read", "ack", "ctrl-c", "packet"}
         /\ sesPc \in {"top", "receive", "running", "reply", "sent"}
         /\ gdbPc \in {"idle", "ack", "reply"}
Bits  == /\ interruptEvent \in BOOLEAN /\ sendAcks \in BOOLEAN /\ clearSendAcks \in BOOLEAN
         /\ expectingAck \in BOOLEAN /\ gdbAcks \in BOOLEAN /\ asked \in BOOLEAN
InScript == /\ script \in Scripts /\ damage \in 0..MaxDamage
            /\ lastPacket \in Nat /\ lastPacket <= At /\ At <= Len(script)

LEMMA PcsStep ==
  ASSUME Pcs, [PioNext]_pioVars
  PROVE  Pcs'
<1> USE DEF Pcs, pioThread, pioSession, pioGdb
<1>1. CASE GdbStep \/ SendCtrlC
  BY <1>1 DEF GdbStep, SendCommand, GdbTakesAck, GdbTakesNack, GdbTakesReply, GdbIgnoresAck, SendCtrlC
<1>2. CASE IoStep
  BY <1>2 DEF IoStep, Read, ReadTimesOut, CheckAck, Resend, NoAckExpected, FindCtrlC, FindPacket,
              NoPacket
<1>3. CASE SesStep \/ CoreStopsItself
  BY <1>3 DEF SesStep, LoopTop, TakeCommand, StopOnCtrlC, SendReply, ExpectAck, CoreStopsItself
<1>4. CASE UNCHANGED pioVars
  BY <1>4 DEF pioVars
<1> QED
  BY <1>1, <1>2, <1>3, <1>4 DEF PioNext

LEMMA BitsStep ==
  ASSUME Bits, [PioNext]_pioVars
  PROVE  Bits'
<1> USE DEF Bits, pioThread, pioFlags, pioSession, pioGdb
<1>1. CASE SendCommand \/ GdbTakesAck \/ GdbTakesNack \/ GdbIgnoresAck \/ SendCtrlC
  BY <1>1 DEF SendCommand, GdbTakesAck, GdbTakesNack, GdbIgnoresAck, SendCtrlC
<1>2. CASE GdbTakesReply
  <2>1. gdbAcks' = gdbAcks \/ gdbAcks' = (gdbAcks /\ script[At] # "noack")
    BY <1>2 DEF GdbTakesReply
  <2> QED
    BY <1>2, <2>1 DEF GdbTakesReply
<1>3. CASE Read \/ ReadTimesOut \/ CheckAck \/ Resend \/ NoAckExpected
  BY <1>3 DEF Read, ReadTimesOut, CheckAck, Resend, NoAckExpected
<1>4. CASE FindCtrlC \/ FindPacket \/ NoPacket
  BY <1>4 DEF FindCtrlC, FindPacket, NoPacket
<1>5. CASE LoopTop \/ StopOnCtrlC \/ SendReply \/ ExpectAck \/ CoreStopsItself
  BY <1>5 DEF LoopTop, StopOnCtrlC, SendReply, ExpectAck, CoreStopsItself
<1>6. CASE TakeCommand
  <2>1. clearSendAcks' = (clearSendAcks \/ script[Head(received)] = "noack")
    BY <1>6 DEF TakeCommand
  <2> QED
    BY <1>6, <2>1 DEF TakeCommand
<1>7. CASE UNCHANGED pioVars
  BY <1>7 DEF pioVars
<1> QED
  BY <1>1, <1>2, <1>3, <1>4, <1>5, <1>6, <1>7 DEF PioNext, GdbStep, IoStep, SesStep

LEMMA ScriptLength == ASSUME script \in Scripts PROVE Len(script) \in Nat
BY PacketAssumption DEF PacketAssumption

(* Damage is counted to its bound.                                         *)
LEMMA DamageStep ==
  ASSUME damage \in 0..MaxDamage, NEW good \in BOOLEAN, Arrives(good)
  PROVE  damage' \in 0..MaxDamage
BY PacketAssumption DEF PacketAssumption, Arrives

LEMMA InScriptStep ==
  ASSUME PioInv, PioInv', InScript, [PioNext]_pioVars
  PROVE  InScript'
<1> USE DEF pioThread, pioSession, pioGdb
<1>0. At \in Nat /\ Len(accepted) \in Nat /\ Len(script) \in Nat
  BY AtIsNat, ScriptLength DEF PioInv, InScript
<1>1. CASE SendCommand
  <2>1. At' = At + 1 /\ At < Len(script)
    BY <1>0, <1>1 DEF SendCommand, At
  <2>2. damage' \in 0..MaxDamage
    BY <1>1, DamageStep DEF SendCommand, InScript
  <2> QED
    BY <1>0, <1>1, <2>1, <2>2 DEF SendCommand, InScript
<1>2. CASE GdbTakesNack \/ GdbTakesAck \/ GdbIgnoresAck \/ SendCtrlC
  <2>1. At' = At
    BY <1>2 DEF GdbTakesNack, GdbTakesAck, GdbIgnoresAck, SendCtrlC, At
  <2>2. damage' \in 0..MaxDamage
    BY <1>2, DamageStep DEF GdbTakesNack, GdbTakesAck, GdbIgnoresAck, SendCtrlC, InScript
  <2> QED
    BY <1>0, <1>2, <2>1, <2>2 DEF GdbTakesNack, GdbTakesAck, GdbIgnoresAck, SendCtrlC, InScript
<1>3. CASE GdbTakesReply
  <2>1. At' = At
    <3>1. CASE UNCHANGED <<accepted, gdbPc>>
      BY <3>1 DEF At
    <3>2. CASE accepted' = Append(accepted, toGdb[1].n) /\ gdbPc' = "idle"
      <4>1. accepted' \in Seq(Nat) /\ accepted \in Seq(Nat)
        BY DEF PioInv, PioTypes
      <4>2. Len(accepted') = Len(accepted) + 1
        BY <3>2, <4>1
      <4> QED
        BY <1>0, <1>3, <3>2, <4>2 DEF At, GdbTakesReply
    <3> QED
      BY <1>3, <3>1, <3>2 DEF GdbTakesReply
  <2> QED
    BY <1>0, <1>3, <2>1 DEF GdbTakesReply, InScript
<1>4. CASE IoStep \/ LoopTop \/ TakeCommand \/ StopOnCtrlC \/ ExpectAck \/ CoreStopsItself
           \/ UNCHANGED pioVars
  <2>1. UNCHANGED <<script, gdbPc, accepted, lastPacket>>
    BY <1>4 DEF IoStep, Read, ReadTimesOut, CheckAck, Resend, NoAckExpected, FindCtrlC, FindPacket,
                NoPacket, LoopTop, TakeCommand, StopOnCtrlC, ExpectAck, CoreStopsItself, pioVars
  <2>2. At' = At
    BY <2>1 DEF At
  <2>3. damage' \in 0..MaxDamage
    <3>1. CASE Resend
      BY <3>1, DamageStep DEF Resend, InScript
    <3>2. CASE ~Resend
      BY <1>4, <3>2 DEF IoStep, Read, ReadTimesOut, CheckAck, NoAckExpected, FindCtrlC, FindPacket,
                NoPacket, LoopTop, TakeCommand, StopOnCtrlC, ExpectAck, CoreStopsItself, pioVars,
                InScript
    <3> QED
      BY <3>1, <3>2
  <2> QED
    BY <2>1, <2>2, <2>3 DEF InScript
<1>5. CASE SendReply
  <2>1. At' = At
    BY <1>5 DEF SendReply, At
  <2>2. sesPc' = "sent"
    BY <1>5 DEF SendReply
  <2>3. damage' \in 0..MaxDamage
    BY <1>5, DamageStep DEF SendReply, InScript
  <2>4. lastPacket' = At
    BY <1>5, SentReply
  <2> QED
    BY <1>0, <1>5, <2>1, <2>3, <2>4 DEF SendReply, InScript
<1> QED
  BY <1>1, <1>2, <1>3, <1>4, <1>5 DEF PioNext, GdbStep, SesStep

(* The thread that handles packets, the session and gdb keep their types.  *)
THEOREM PacketTypeCorrect == PioSpec => []PioTypeOK
<1>1. PioInit => Pcs /\ Bits /\ InScript
  <2> SUFFICES ASSUME PioInit PROVE Pcs /\ Bits /\ InScript
    OBVIOUS
  <2>1. Pcs /\ Bits
    BY DEF PioInit, Pcs, Bits
  <2>2. At = 0 /\ script \in Scripts /\ lastPacket = 0 /\ damage = 0
    BY DEF PioInit, At
  <2>3. InScript
    BY <2>2, ScriptLength, PacketAssumption DEF InScript, PacketAssumption
  <2> QED
    BY <2>1, <2>3
<1>2. (PioInv /\ Pcs /\ Bits /\ InScript) /\ [PioNext]_pioVars
        => (PioInv /\ Pcs /\ Bits /\ InScript)'
  BY PioStepInv, PcsStep, BitsStep, InScriptStep
<1>3. PioInv /\ Pcs /\ Bits /\ InScript => PioTypeOK
  <2> SUFFICES ASSUME PioInv, Pcs, Bits, InScript PROVE PioTypeOK
    OBVIOUS
  <2>0. At \in Nat /\ Len(script) \in Nat
    BY AtIsNat, ScriptLength DEF PioInv, InScript
  <2>1. received = <<>> \/ received = <<At>>
    BY DEF PioInv, Exchange, Idle, Asking, Refused, Working, Answering, Complaining, Unhandled,
           Answered
  <2>2. received \in Seq(Nat)
    <3>1. <<>> \in Seq(Nat) /\ <<At>> \in Seq(Nat)
      BY <2>0
    <3> QED
      BY <2>1, <3>1
  <2>3. lastPacket \in 0..Len(script) /\ damage \in 0..MaxDamage
    BY <2>0 DEF InScript
  <2>4. \A b \in {interruptEvent, sendAcks, clearSendAcks, expectingAck, gdbAcks, asked} :
          b \in BOOLEAN
    BY DEF Bits
  <2> QED
    BY <2>2, <2>3, <2>4 DEF PioTypeOK, Pcs
<1> QED
  BY PioInitInv, <1>1, <1>2, <1>3, PTL DEF PioSpec

-----------------------------------------------------------------------------
(* The USB interface                                                      *)

Answer == Seq(1..UsbWrites)
Outstanding == rcvData \o fromProbe \o toProbe

UsbTypes ==
  /\ UsbTypeOK /\ backend \in Backends /\ opens \in 0..UsbOpens /\ gaveUp \in BOOLEAN
  /\ unread \in Answer /\ rcvData \in Answer /\ toProbe \in Answer /\ fromProbe \in Answer

Flags == usbOpen \in BOOLEAN /\ stopEvent \in BOOLEAN /\ exited \in BOOLEAN /\ gaveUp \in BOOLEAN
Control ==
  /\ userPc \in {"idle", "write", "read", "join"} /\ rxPc \in {"none", "loop", "wait", "read"}
  /\ credits \in Nat /\ written \in 0..UsbWrites
  /\ backend \in Backends /\ opens \in 0..UsbOpens

CreditsFit ==
  /\ userPc = "write" => written < UsbWrites /\ credits <= written + opens
  /\ usbOpen /\ userPc # "write" => credits < written + opens
  /\ ~usbOpen => credits <= written + opens

Phases ==
  /\ usbOpen => userPc # "join" /\ (rxPc = "none" <=> exited)
  /\ userPc \in {"read", "write"} => usbOpen
  /\ ~usbOpen => unread = <<>>
  /\ userPc = "read" => unread # <<>>
  /\ ~usbOpen /\ userPc = "idle" => rcvData = <<>> /\ rxPc = "none" /\ ~exited

Awaited ==
  usbOpen /\ ~gaveUp /\ (rxPc # "none" \/ userPc = "read") => unread = Outstanding

UsbInv == UsbTypes /\ CreditsFit /\ Phases /\ Awaited /\ AnswersMatch

LEMMA UsbInitInv == UsbInit => UsbInv
<1> USE UsbAssumption DEF UsbAssumption
<1> SUFFICES ASSUME UsbInit PROVE UsbInv
  OBVIOUS
<1>1. <<>> \in Answer /\ <<>> \o <<>> \o <<>> = <<>>
  BY DEF Answer
<1>2. UsbTypes
  <2>1. unread = <<>> /\ rcvData = <<>> /\ toProbe = <<>> /\ fromProbe = <<>>
    BY DEF UsbInit
  <2>2. \A s \in {unread, rcvData, toProbe, fromProbe} : s \in Seq(1..UsbWrites)
    BY <1>1, <2>1 DEF Answer
  <2>3. usbOpen \in BOOLEAN /\ stopEvent \in BOOLEAN /\ exited \in BOOLEAN /\ gaveUp \in BOOLEAN
    BY DEF UsbInit
  <2>4. /\ userPc \in {"idle", "write", "read", "join"} /\ rxPc \in {"none", "loop", "wait", "read"}
        /\ credits \in 0..(UsbWrites + UsbOpens) /\ written \in 0..UsbWrites
        /\ opens \in 0..UsbOpens /\ backend \in Backends
    BY DEF UsbInit
  <2>5. UsbTypeOK
    BY <2>2, <2>3, <2>4 DEF UsbTypeOK
  <2> QED
    BY <1>1, <2>1, <2>3, <2>4, <2>5 DEF UsbTypes
<1>3. CreditsFit /\ Phases
  BY DEF UsbInit, CreditsFit, Phases
<1>4. Awaited /\ AnswersMatch
  BY DEF UsbInit, Awaited, AnswersMatch
<1> QED
  BY <1>2, <1>3, <1>4 DEF UsbInv

LEMMA CreditsBound ==
  ASSUME NEW c \in Nat, NEW w \in 0..UsbWrites, NEW o \in 0..UsbOpens,
         c < w + o \/ c <= w + o
  PROVE  c \in 0..(UsbWrites + UsbOpens)
BY UsbAssumption DEF UsbAssumption

(* Each side keeps the types, and credits are given for what is written    *)
(* and once more by close().                                               *)
LEMMA UsbTypesStep == UsbInv /\ [UsbNext]_usbVars => UsbTypes' /\ CreditsFit' /\ Phases'
<1> USE UsbAssumption DEF UsbAssumption
<1> SUFFICES ASSUME UsbInv, [UsbNext]_usbVars
             PROVE  UsbTypes' /\ CreditsFit' /\ Phases'
  OBVIOUS
<1>a. Control /\ CreditsFit /\ Phases
  BY DEF UsbInv, UsbTypes, UsbTypeOK, Control
<1>f. Flags
  BY DEF UsbInv, UsbTypes, UsbTypeOK, Flags
<1>s. unread \in Answer /\ rcvData \in Answer /\ toProbe \in Answer /\ fromProbe \in Answer
  BY DEF UsbInv, UsbTypes
<1>b. SUFFICES /\ Control' /\ Flags'
               /\ unread' \in Answer /\ rcvData' \in Answer
               /\ toProbe' \in Answer /\ fromProbe' \in Answer
               /\ CreditsFit' /\ Phases'
  <2>1. SUFFICES ASSUME Control', Flags', unread' \in Answer, rcvData' \in Answer,
                        toProbe' \in Answer, fromProbe' \in Answer, CreditsFit', Phases'
                 PROVE  UsbTypes'
    OBVIOUS
  <2>2. \A s \in {unread', rcvData', toProbe', fromProbe'} : s \in Seq(1..UsbWrites)
    BY <2>1 DEF Answer
  <2>3. credits' \in 0..(UsbWrites + UsbOpens)
    <3>1. credits' < written' + opens' \/ credits' <= written' + opens'
      BY <2>1, Zenon DEF CreditsFit
    <3>2. /\ credits' \in Nat /\ written' \in 0..UsbWrites /\ opens' \in 0..UsbOpens
      BY <2>1 DEF Control
    <3> QED
      BY <3>1, <3>2, CreditsBound
  <2>4. UsbTypeOK'
    BY <2>1, <2>2, <2>3 DEF UsbTypeOK, Control, Flags
  <2> QED
    BY <2>1, <2>4 DEF Control, Flags, UsbTypes
<1>c. /\ <<>> \in Answer /\ \A s \in Answer : s # <<>> => Head(s) \in 1..UsbWrites /\ Tail(s) \in Answer
      /\ \A s \in Answer, x \in 1..UsbWrites : Append(s, x) \in Answer
  BY DEF Answer
<1>1. CASE Open
  <2>0. Flags'
    BY <1>f, <1>1 DEF Flags, Open
  <2>1. Control'
    BY <1>a, <1>1 DEF Control, Open, CreditsFit
  <2>2. unread' \in Answer /\ rcvData' \in Answer /\ toProbe' \in Answer /\ fromProbe' \in Answer
    BY <1>a, <1>s, <1>c, <1>1 DEF Open, Control, CreditsFit, Phases
  <2>3. CreditsFit'
    BY <1>a, <1>1 DEF Control, Open, CreditsFit, Phases
  <2>4. Phases'
    BY <1>a, <1>1 DEF Control, Open, Phases
  <2> QED
    BY <2>0, <2>1, <2>2, <2>3, <2>4
<1>2. CASE BeginUsbWrite
  <2>0. Flags'
    BY <1>f, <1>2 DEF Flags, BeginUsbWrite, usbWire
  <2>1. Control'
    BY <1>a, <1>2 DEF Control, BeginUsbWrite, usbWire, CreditsFit
  <2>2. unread' \in Answer /\ rcvData' \in Answer /\ toProbe' \in Answer /\ fromProbe' \in Answer
    BY <1>a, <1>s, <1>c, <1>2 DEF BeginUsbWrite, usbWire, Control, CreditsFit, Phases
  <2>3. CreditsFit'
    BY <1>a, <1>2 DEF Control, BeginUsbWrite, usbWire, CreditsFit, Phases
  <2>4. Phases'
    BY <1>a, <1>2 DEF Control, BeginUsbWrite, usbWire, Phases
  <2> QED
    BY <2>0, <2>1, <2>2, <2>3, <2>4
<1>3. CASE EndUsbWrite
  <2>0. Flags'
    BY <1>f, <1>3 DEF Flags, EndUsbWrite, usbRx
  <2>1. Control'
    BY <1>a, <1>3 DEF Control, EndUsbWrite, usbRx, CreditsFit
  <2>2. unread' \in Answer /\ rcvData' \in Answer /\ toProbe' \in Answer /\ fromProbe' \in Answer
    BY <1>a, <1>s, <1>c, <1>3 DEF EndUsbWrite, usbRx, Control, CreditsFit, Phases
  <2>3. CreditsFit'
    BY <1>a, <1>3 DEF Control, EndUsbWrite, usbRx, CreditsFit, Phases
  <2>4. Phases'
    BY <1>a, <1>3 DEF Control, EndUsbWrite, usbRx, Phases
  <2> QED
    BY <2>0, <2>1, <2>2, <2>3, <2>4
<1>4. CASE UsbWriteFails
  <2>0. Flags'
    BY <1>f, <1>4 DEF Flags, UsbWriteFails, usbWire, usbRx
  <2>1. Control'
    BY <1>a, <1>4 DEF Control, UsbWriteFails, usbWire, usbRx, CreditsFit
  <2>2. unread' \in Answer /\ rcvData' \in Answer /\ toProbe' \in Answer /\ fromProbe' \in Answer
    <3>1. written' \in 1..UsbWrites
      BY <1>a, <1>4 DEF UsbWriteFails, Control, CreditsFit
    <3>2. toProbe' \in {toProbe, Append(toProbe, written')} /\ unread' = <<>>
          /\ rcvData' = rcvData /\ fromProbe' = fromProbe
      BY <1>4 DEF UsbWriteFails, usbRx
    <3> QED
      BY <1>s, <1>c, <3>1, <3>2
  <2>3. CreditsFit'
    BY <1>a, <1>4 DEF Control, UsbWriteFails, usbWire, usbRx, CreditsFit, Phases
  <2>4. Phases'
    BY <1>a, <1>4 DEF Control, UsbWriteFails, usbWire, usbRx, Phases
  <2> QED
    BY <2>0, <2>1, <2>2, <2>3, <2>4
<1>5. CASE BeginUsbRead
  <2>0. Flags'
    BY <1>f, <1>5 DEF Flags, BeginUsbRead, usbWire, usbRx
  <2>1. Control'
    BY <1>a, <1>5 DEF Control, BeginUsbRead, usbWire, usbRx, CreditsFit
  <2>2. unread' \in Answer /\ rcvData' \in Answer /\ toProbe' \in Answer /\ fromProbe' \in Answer
    BY <1>a, <1>s, <1>c, <1>5 DEF BeginUsbRead, usbWire, usbRx, Control, CreditsFit, Phases
  <2>3. CreditsFit'
    BY <1>a, <1>5 DEF Control, BeginUsbRead, usbWire, usbRx, CreditsFit, Phases
  <2>4. Phases'
    BY <1>a, <1>5 DEF Control, BeginUsbRead, usbWire, usbRx, Phases
  <2> QED
    BY <2>0, <2>1, <2>2, <2>3, <2>4
<1>6. CASE UsbRead
  <2>0. Flags'
    BY <1>f, <1>6 DEF Flags, UsbRead, usbWire
  <2>1. Control'
    BY <1>a, <1>6 DEF Control, UsbRead, usbWire, CreditsFit
  <2>2. unread' \in Answer /\ rcvData' \in Answer /\ toProbe' \in Answer /\ fromProbe' \in Answer
    BY <1>a, <1>s, <1>c, <1>6 DEF UsbRead, usbWire, Control, CreditsFit, Phases
  <2>3. CreditsFit'
    BY <1>a, <1>6 DEF Control, UsbRead, usbWire, CreditsFit, Phases
  <2>4. Phases'
    BY <1>a, <1>6 DEF Control, UsbRead, usbWire, Phases
  <2> QED
    BY <2>0, <2>1, <2>2, <2>3, <2>4
<1>7. CASE UsbReadTimesOut
  <2>0. Flags'
    BY <1>f, <1>7 DEF Flags, UsbReadTimesOut, usbWire, usbRx
  <2>1. Control'
    BY <1>a, <1>7 DEF Control, UsbReadTimesOut, usbWire, usbRx, CreditsFit
  <2>2. unread' \in Answer /\ rcvData' \in Answer /\ toProbe' \in Answer /\ fromProbe' \in Answer
    BY <1>a, <1>s, <1>c, <1>7 DEF UsbReadTimesOut, usbWire, usbRx, Control, CreditsFit, Phases
  <2>3. CreditsFit'
    BY <1>a, <1>7 DEF Control, UsbReadTimesOut, usbWire, usbRx, CreditsFit, Phases
  <2>4. Phases'
    BY <1>a, <1>7 DEF Control, UsbReadTimesOut, usbWire, usbRx, Phases
  <2> QED
    BY <2>0, <2>1, <2>2, <2>3, <2>4
<1>8. CASE CloseUsb
  <2>0. Flags'
    BY <1>f, <1>8 DEF Flags, CloseUsb, usbWire
  <2>1. Control'
    BY <1>a, <1>8 DEF Control, CloseUsb, usbWire, CreditsFit
  <2>2. unread' \in Answer /\ rcvData' \in Answer /\ toProbe' \in Answer /\ fromProbe' \in Answer
    BY <1>a, <1>s, <1>c, <1>8 DEF CloseUsb, usbWire, Control, CreditsFit, Phases
  <2>3. CreditsFit'
    BY <1>a, <1>8 DEF Control, CloseUsb, usbWire, CreditsFit, Phases
  <2>4. Phases'
    BY <1>a, <1>8 DEF Control, CloseUsb, usbWire, Phases
  <2> QED
    BY <2>0, <2>1, <2>2, <2>3, <2>4
<1>9. CASE RxJoined
  <2>0. Flags'
    BY <1>f, <1>9 DEF Flags, RxJoined, usbWire
  <2>1. Control'
    BY <1>a, <1>9 DEF Control, RxJoined, usbWire, CreditsFit
  <2>2. unread' \in Answer /\ rcvData' \in Answer /\ toProbe' \in Answer /\ fromProbe' \in Answer
    BY <1>a, <1>s, <1>c, <1>9 DEF RxJoined, usbWire, Control, CreditsFit, Phases
  <2>3. CreditsFit'
    BY <1>a, <1>9 DEF Control, RxJoined, usbWire, CreditsFit, Phases
  <2>4. Phases'
    BY <1>a, <1>9 DEF Control, RxJoined, usbWire, Phases
  <2> QED
    BY <2>0, <2>1, <2>2, <2>3, <2>4
<1>10. CASE RxLoop
  <2>0. Flags'
    BY <1>f, <1>10 DEF Flags, RxLoop, RxExits, usbUser, usbWire
  <2>1. Control'
    BY <1>a, <1>10 DEF Control, RxLoop, RxExits, usbUser, usbWire, CreditsFit
  <2>2. unread' \in Answer /\ rcvData' \in Answer /\ toProbe' \in Answer /\ fromProbe' \in Answer
    BY <1>a, <1>s, <1>c, <1>10 DEF RxLoop, RxExits, usbUser, usbWire, Control, CreditsFit, Phases
  <2>3. CreditsFit'
    BY <1>a, <1>10 DEF Control, RxLoop, RxExits, usbUser, usbWire, CreditsFit, Phases
  <2>4. Phases'
    BY <1>a, <1>10 DEF Control, RxLoop, RxExits, usbUser, usbWire, Phases
  <2> QED
    BY <2>0, <2>1, <2>2, <2>3, <2>4
<1>11. CASE RxAcquires
  <2>0. Flags'
    BY <1>f, <1>11 DEF Flags, RxAcquires, usbUser, usbWire
  <2>1. Control'
    BY <1>a, <1>11 DEF Control, RxAcquires, usbUser, usbWire, CreditsFit
  <2>2. unread' \in Answer /\ rcvData' \in Answer /\ toProbe' \in Answer /\ fromProbe' \in Answer
    BY <1>a, <1>s, <1>c, <1>11 DEF RxAcquires, usbUser, usbWire, Control, CreditsFit, Phases
  <2>3. CreditsFit'
    BY <1>a, <1>11 DEF Control, RxAcquires, usbUser, usbWire, CreditsFit, Phases
  <2>4. Phases'
    BY <1>a, <1>11 DEF Control, RxAcquires, usbUser, usbWire, Phases
  <2> QED
    BY <2>0, <2>1, <2>2, <2>3, <2>4
<1>12. CASE RxReads
  <2>0. Flags'
    BY <1>f, <1>12 DEF Flags, RxReads, usbUser
  <2>1. Control'
    BY <1>a, <1>12 DEF Control, RxReads, usbUser, CreditsFit
  <2>2. unread' \in Answer /\ rcvData' \in Answer /\ toProbe' \in Answer /\ fromProbe' \in Answer
    BY <1>a, <1>s, <1>c, <1>12 DEF RxReads, usbUser, Control, CreditsFit, Phases
  <2>3. CreditsFit'
    BY <1>a, <1>12 DEF Control, RxReads, usbUser, CreditsFit, Phases
  <2>4. Phases'
    BY <1>a, <1>12 DEF Control, RxReads, usbUser, Phases
  <2> QED
    BY <2>0, <2>1, <2>2, <2>3, <2>4
<1>13. CASE RxTimesOut
  <2>0. Flags'
    BY <1>f, <1>13 DEF Flags, RxTimesOut, RxExits, usbUser, usbWire
  <2>1. Control'
    BY <1>a, <1>13 DEF Control, RxTimesOut, RxExits, usbUser, usbWire, CreditsFit
  <2>2. unread' \in Answer /\ rcvData' \in Answer /\ toProbe' \in Answer /\ fromProbe' \in Answer
    BY <1>a, <1>s, <1>c, <1>13 DEF RxTimesOut, RxExits, usbUser, usbWire, Control, CreditsFit, Phases
  <2>3. CreditsFit'
    BY <1>a, <1>13 DEF Control, RxTimesOut, RxExits, usbUser, usbWire, CreditsFit, Phases
  <2>4. Phases'
    BY <1>a, <1>13 DEF Control, RxTimesOut, RxExits, usbUser, usbWire, Phases
  <2> QED
    BY <2>0, <2>1, <2>2, <2>3, <2>4
<1>14. CASE ProbeAnswers
  <2>0. Flags'
    BY <1>f, <1>14 DEF Flags, ProbeAnswers, usbUser, usbRx
  <2>1. Control'
    BY <1>a, <1>14 DEF Control, ProbeAnswers, usbUser, usbRx, CreditsFit
  <2>2. unread' \in Answer /\ rcvData' \in Answer /\ toProbe' \in Answer /\ fromProbe' \in Answer
    BY <1>a, <1>s, <1>c, <1>14 DEF ProbeAnswers, usbUser, usbRx, Control, CreditsFit, Phases
  <2>3. CreditsFit'
    BY <1>a, <1>14 DEF Control, ProbeAnswers, usbUser, usbRx, CreditsFit, Phases
  <2>4. Phases'
    BY <1>a, <1>14 DEF Control, ProbeAnswers, usbUser, usbRx, Phases
  <2> QED
    BY <2>0, <2>1, <2>2, <2>3, <2>4
<1>15. CASE UNCHANGED usbVars
  <2>0. Flags'
    BY <1>f, <1>15 DEF Flags, usbVars, usbRx, usbUser, usbWire
  <2>1. Control'
    BY <1>a, <1>15 DEF Control, usbVars, usbRx, usbUser, usbWire, CreditsFit
  <2>2. unread' \in Answer /\ rcvData' \in Answer /\ toProbe' \in Answer /\ fromProbe' \in Answer
    BY <1>a, <1>s, <1>c, <1>15 DEF usbVars, usbRx, usbUser, usbWire, Control, CreditsFit, Phases
  <2>3. CreditsFit'
    BY <1>a, <1>15 DEF Control, usbVars, usbRx, usbUser, usbWire, CreditsFit, Phases
  <2>4. Phases'
    BY <1>a, <1>15 DEF Control, usbVars, usbRx, usbUser, usbWire, Phases
  <2> QED
    BY <2>0, <2>1, <2>2, <2>3, <2>4
<1> QED
  BY <1>1, <1>2, <1>3, <1>4, <1>5, <1>6, <1>7, <1>8, <1>9, <1>10, <1>11, <1>12, <1>13,
     <1>14, <1>15 DEF UsbNext, UsbCall, RxStep

(* An answer that moves on stays in its place.                             *)
LEMMA Taken ==
  ASSUME NEW r \in Answer, NEW f \in Answer, f # <<>>
  PROVE  /\ Append(r, Head(f)) \in Answer /\ Tail(f) \in Answer /\ f \o r \in Answer /\ f \o r # <<>>
         /\ Append(r, Head(f)) \o Tail(f) = r \o f
         /\ Head(f \o r) = Head(f) /\ Tail(f \o r) = Tail(f) \o r
<1> USE DEF Answer
<1>0. Len(f) \in Nat \ {0} /\ Head(f) \in 1..UsbWrites /\ Tail(f) \in Answer
  <2>1. f \in Seq(1..UsbWrites) /\ f # <<>>
    OBVIOUS
  <2>2. Len(f) \in Nat \ {0}
    BY <2>1
  <2>3. Head(f) \in 1..UsbWrites /\ Tail(f) \in Seq(1..UsbWrites)
    BY <2>1, HeadTailProperties
  <2> QED
    BY <2>2, <2>3
<1>1. Append(r, Head(f)) \in Answer /\ Tail(f) \in Answer /\ Len(Tail(f)) = Len(f) - 1
  BY <1>0
<1>2. Append(r, Head(f)) \o Tail(f) = r \o f
  BY <1>0, <1>1
<1>3. Head(f \o r) = Head(f) /\ f \o r \in Answer /\ f \o r # <<>>
  BY <1>0, <1>1
<1>4. Tail(f \o r) = Tail(f) \o r
  BY <1>0, <1>1
<1> QED
  BY <1>1, <1>2, <1>3, <1>4

LEMMA Added ==
  ASSUME NEW r \in Answer, NEW f \in Answer, NEW x \in 1..UsbWrites
  PROVE  r \o f \in Answer /\ r \o Append(f, x) = Append(r \o f, x)
BY DEF Answer

LEMMA AwaitedStep == UsbInv /\ [UsbNext]_usbVars => Awaited' /\ AnswersMatch'
<1> USE UsbAssumption DEF UsbAssumption
<1> SUFFICES ASSUME UsbInv, [UsbNext]_usbVars
             PROVE  Awaited' /\ AnswersMatch'
  OBVIOUS
<1>0. /\ unread \in Answer /\ rcvData \in Answer /\ toProbe \in Answer /\ fromProbe \in Answer
      /\ written \in Nat /\ Phases /\ Awaited /\ AnswersMatch
  BY DEF UsbInv, UsbTypes, UsbTypeOK
<1>a. Answer = Seq(1..UsbWrites)
  BY DEF Answer
<1>1. CASE Open
  <2>1. gaveUp' = (toProbe # <<>>) /\ toProbe' = toProbe /\ fromProbe' = <<>>
        /\ unread' = unread /\ rcvData' = rcvData /\ answer'.to = answer'.got
    BY <1>1 DEF Open
  <2>2. unread = <<>> /\ rcvData = <<>>
    BY <1>0, <1>1 DEF Open, Phases
  <2>3. <<>> \o <<>> \o <<>> = <<>>
    OBVIOUS
  <2>4. ~gaveUp' => unread' = Outstanding'
    BY <2>1, <2>2, <2>3 DEF Outstanding
  <2> QED
    BY <2>1, <2>4 DEF Awaited, AnswersMatch
<1>2. CASE BeginUsbWrite
  BY <1>0, <1>2 DEF BeginUsbWrite, Phases, Awaited, AnswersMatch, Outstanding, usbWire
<1>3. CASE EndUsbWrite
  <2>1. written' \in 1..UsbWrites
    BY <1>3, <1>0 DEF EndUsbWrite, UsbInv, UsbTypes, UsbTypeOK, CreditsFit
  <2>2. rcvData \o fromProbe \o Append(toProbe, written') = Append(Outstanding, written')
    <3>1. rcvData \o fromProbe \in Answer
      BY <1>0, <2>1, Added
    <3> QED
      BY <3>1, <2>1, <1>0, Added DEF Outstanding
  <2> QED
    BY <1>0, <1>3, <2>2 DEF EndUsbWrite, Phases, Awaited, AnswersMatch, Outstanding, usbRx
<1>4. CASE UsbWriteFails
  BY <1>0, <1>4 DEF UsbWriteFails, Phases, Awaited, AnswersMatch, Outstanding, usbWire, usbRx
<1>5. CASE BeginUsbRead
  BY <1>0, <1>5 DEF BeginUsbRead, Phases, Awaited, AnswersMatch, Outstanding, usbWire, usbRx
<1>6. CASE UsbRead
  <2>1. /\ Head(Outstanding) = Head(rcvData)
        /\ Tail(Outstanding) = Tail(rcvData) \o fromProbe \o toProbe
    <3>1. rcvData # <<>>
      BY <1>6 DEF UsbRead
    <3>2. /\ Head(rcvData \o fromProbe) = Head(rcvData) /\ rcvData \o fromProbe \in Answer
          /\ Tail(rcvData \o fromProbe) = Tail(rcvData) \o fromProbe
          /\ rcvData \o fromProbe # <<>>
      BY <3>1, <1>0, Taken
    <3> DEFINE both == rcvData \o fromProbe
    <3>3. both \in Answer
      BY <3>1, <1>0, Taken
    <3>4. Head(both \o toProbe) = Head(both) /\ Tail(both \o toProbe) = Tail(both) \o toProbe
      <4> HIDE DEF both
      <4> QED
        BY <3>2, <3>3, <1>0, Taken DEF both
    <3> QED
      BY <3>2, <3>4 DEF Outstanding
  <2> QED
    BY <1>0, <1>6, <2>1 DEF UsbRead, Phases, Awaited, AnswersMatch, Outstanding, usbWire
<1>7. CASE UsbReadTimesOut
  BY <1>0, <1>7 DEF UsbReadTimesOut, Phases, Awaited, AnswersMatch, Outstanding, usbWire, usbRx
<1>8. CASE CloseUsb
  BY <1>0, <1>8 DEF CloseUsb, Phases, Awaited, AnswersMatch, Outstanding, usbWire
<1>9. CASE RxJoined
  BY <1>0, <1>9 DEF RxJoined, Phases, Awaited, AnswersMatch, Outstanding, usbWire
<1>10. CASE RxLoop
  BY <1>0, <1>10 DEF RxLoop, RxExits, Phases, Awaited, AnswersMatch, Outstanding, usbUser, usbWire
<1>11. CASE RxAcquires
  BY <1>0, <1>11 DEF RxAcquires, Phases, Awaited, AnswersMatch, Outstanding, usbUser, usbWire
<1>12. CASE RxReads
  <2>1. fromProbe # <<>> => Append(rcvData, Head(fromProbe)) \o Tail(fromProbe) \o toProbe = Outstanding
    BY <1>0, Taken DEF Outstanding
  <2> QED
    BY <1>0, <1>12, <2>1 DEF RxReads, Phases, Awaited, AnswersMatch, Outstanding, usbUser
<1>13. CASE RxTimesOut
  BY <1>0, <1>13 DEF RxTimesOut, RxExits, Phases, Awaited, AnswersMatch, Outstanding, usbUser, usbWire
<1>14. CASE ProbeAnswers
  <2>1. toProbe # <<>> => rcvData \o Append(fromProbe, Head(toProbe)) \o Tail(toProbe) = Outstanding
    <3> SUFFICES ASSUME toProbe # <<>>
                 PROVE  rcvData \o Append(fromProbe, Head(toProbe)) \o Tail(toProbe) = Outstanding
      OBVIOUS
    <3> DEFINE both == rcvData \o fromProbe
    <3>0. Head(toProbe) \in 1..UsbWrites
      BY <1>0 DEF Answer
    <3>1. /\ both \in Answer
          /\ rcvData \o Append(fromProbe, Head(toProbe)) = Append(both, Head(toProbe))
      BY <1>0, <3>0, Added
    <3> HIDE DEF both
    <3>2. Append(both, Head(toProbe)) \o Tail(toProbe) = both \o toProbe
      BY <3>1, <1>0, Taken
    <3> QED
      BY <3>1, <3>2 DEF Outstanding, both
  <2> QED
    BY <1>0, <1>14, <2>1 DEF ProbeAnswers, Phases, Awaited, AnswersMatch, Outstanding, usbUser, usbRx
<1>15. CASE UNCHANGED usbVars
  BY <1>0, <1>15 DEF usbVars, usbRx, usbUser, usbWire, Phases, Awaited, AnswersMatch, Outstanding
<1> QED
  BY <1>1, <1>2, <1>3, <1>4, <1>5, <1>6, <1>7, <1>8, <1>9, <1>10, <1>11, <1>12, <1>13,
     <1>14, <1>15 DEF UsbNext, UsbCall, RxStep

(* Each read() returns the answer of its own command, as long as no answer *)
(* can come that nobody waits for, for any number of commands and of       *)
(* closes and reopens, with writes that raise and answers that come late,  *)
(* and whichever thread comes first.                                       *)
THEOREM AnswersMatchAlways == UsbSpec => []AnswersMatch
<1>1. UsbInv /\ [UsbNext]_usbVars => UsbInv'
  BY UsbTypesStep, AwaitedStep DEF UsbInv
<1>2. UsbInv => AnswersMatch
  BY DEF UsbInv
<1> QED
  BY UsbInitInv, <1>1, <1>2, PTL DEF UsbSpec

(* The queues hold answers of commands that were written, and the credits  *)
(* of the receive thread are bounded by the commands and the closes.       *)
THEOREM UsbTypeCorrect == UsbSpec => []UsbTypeOK
<1>1. UsbInv /\ [UsbNext]_usbVars => UsbInv'
  BY UsbTypesStep, AwaitedStep DEF UsbInv
<1>2. UsbInv => UsbTypeOK
  BY DEF UsbInv, UsbTypes
<1> QED
  BY UsbInitInv, <1>1, <1>2, PTL DEF UsbSpec

-----------------------------------------------------------------------------
(* The ring of RTT                                                         *)

(* The k-th cell after r, and how far w is ahead of r, in a ring of s.     *)
Cell(r, k, s)  == IF r + k < s THEN r + k ELSE r + k - s
Ahead(w, r, s) == IF w >= r THEN w - r ELSE w - r + s

(* A remainder of what is less than twice the divisor.                     *)
LEMMA ModOnce ==
  ASSUME NEW s \in Nat \ {0}, NEW x \in 0..(2 * s - 1)
  PROVE  x % s = IF x < s THEN x ELSE x - s
OBVIOUS

(* The next cell.                                                          *)
LEMMA NextCell ==
  ASSUME NEW s \in Nat, s > 1, NEW x \in 0..(s - 1)
  PROVE  (x + 1) % s = IF x + 1 < s THEN x + 1 ELSE 0
<1> DEFINE y == x + 1
<1>1. y \in 0..(2 * s - 1) /\ s \in Nat \ {0}
  OBVIOUS
<1>2. y % s = IF y < s THEN y ELSE y - s
  BY ONLY <1>1, ModOnce
<1> QED BY <1>2

(* How far an offset is ahead of another.                                  *)
LEMMA AheadIsLeft ==
  ASSUME NEW s \in Nat \ {0}, NEW w \in 0..(s - 1), NEW r \in 0..(s - 1)
  PROVE  (w - r + s) % s = Ahead(w, r, s) /\ Ahead(w, r, s) \in 0..(s - 1)
<1>1. w - r + s \in 0..(2 * s - 1)
  OBVIOUS
<1> DEFINE x == w - r + s
<1>2. x % s = IF x < s THEN x ELSE x - s
  BY ONLY <1>1, s \in Nat \ {0}, ModOnce
<1>3. x < s <=> w < r
  OBVIOUS
<1> QED BY <1>2, <1>3 DEF Ahead

(* What lies between the offsets.                                          *)
Between(w, r, s, cells) == [i \in 1..Ahead(w, r, s) |-> cells[Cell(r, i - 1, s)]]

(* The types, once the target has prepared the ring.                       *)
RttTypes ==
  /\ side \in {"up", "down"} /\ size \in RingSizes \cup {0}
  /\ size # 0 => ring \in [0..(size - 1) -> Nat]
  /\ wrOff \in Nat /\ rdOff \in Nat /\ (size # 0 => wrOff < size /\ rdOff < size)
  /\ offs \in [wr : Nat, rd : Nat] /\ (size # 0 => offs.wr < size /\ offs.rd < size)
  /\ sent \in Nat /\ left \in Nat /\ put \in Nat /\ sent + put + left <= RttTotal
  /\ got \in Seq(Nat) /\ data \in Seq(Nat)
  /\ size = 0 => wrOff = 0 /\ rdOff = 0 /\ offs = [wr |-> 0, rd |-> 0] /\ rttPc = "idle"

(* Who is where in which call.                                             *)
Sides ==
  /\ side = "up" => rttPc \in {"idle", "first", "second", "release"} /\ left = 0 /\ put = 0
  /\ side = "down" => rttPc \in {"idle", "offsets", "top", "bottom", "announce"}
  /\ rttPc \notin {"bottom", "announce"} => put = 0

(* The bytes between the offsets are those sent and not yet received.      *)
Counted == sent = Len(got) + Ahead(wrOff, rdOff, size)

(* What the host read lies still between the offsets.                      *)
ReadOk ==
  rttPc \in {"first", "second", "release"} =>
    /\ offs.rd = rdOff /\ offs.wr # rdOff
    /\ Ahead(offs.wr, rdOff, size) <= Ahead(wrOff, rdOff, size)
    /\ rttPc = "second" => /\ offs.wr < rdOff
                           /\ data = [i \in 1..(size - rdOff) |-> ring[Cell(rdOff, i - 1, size)]]
    /\ rttPc = "release" => data = Between(offs.wr, rdOff, size, ring)

(* There is room for what the host has put beyond the offset of writing,   *)
(* and it is what has been sent next.                                      *)
WriteOk ==
  rttPc \in {"top", "bottom", "announce"} =>
    /\ Ahead(wrOff, rdOff, size) <= Ahead(wrOff, offs.rd, size)
    /\ Ahead(wrOff, offs.rd, size) + put < size
    /\ offs.wr = Cell(wrOff, put, size)
    /\ rttPc = "top" => wrOff >= offs.rd
    /\ \A k \in 0..(put - 1) : ring[Cell(wrOff, k, size)] = sent + k + 1

RttInv == RttTypes /\ Sides /\ Counted /\ ReadOk /\ WriteOk

(* A ring has at least two cells.                                          *)
LEMMA RingSizeIsNat == ASSUME size \in RingSizes \cup {0} PROVE size \in Nat /\ size # 1
BY RttAssumption

(* The queue without remainders.                                           *)
LEMMA QueuedIsBetween ==
  ASSUME NEW s \in Nat, s > 1, NEW w \in 0..(s - 1), NEW r \in 0..(s - 1), NEW cells
  PROVE  [i \in 1..((w - r + s) % s) |-> cells[(r + i - 1) % s]] = Between(w, r, s, cells)
<1>1. s \in Nat \ {0}
  OBVIOUS
<1>2. (w - r + s) % s = Ahead(w, r, s) /\ Ahead(w, r, s) \in 0..(s - 1)
  BY <1>1, AheadIsLeft
<1>3. ASSUME NEW i \in 1..Ahead(w, r, s) PROVE (r + i - 1) % s = Cell(r, i - 1, s)
  <2> DEFINE x == r + i - 1
  <2>1. x \in 0..(2 * s - 1) /\ x = r + (i - 1)
    BY <1>1, <1>2
  <2>2. x % s = IF x < s THEN x ELSE x - s
    BY ONLY <1>1, <2>1, ModOnce
  <2>3. r \in Nat /\ i - 1 \in Nat /\ s \in Nat
    BY <1>1, <1>2
  <2> QED BY ONLY <2>1, <2>2, <2>3 DEF Cell
<1> QED BY <1>2, <1>3 DEF Between

(* The offsets and their copies lie in a ring that there is.               *)
LEMMA Ringed ==
  ASSUME RttTypes, size # 0
  PROVE  /\ size \in Nat /\ size > 1 /\ wrOff \in 0..(size - 1) /\ rdOff \in 0..(size - 1)
         /\ offs.wr \in 0..(size - 1) /\ offs.rd \in 0..(size - 1)
         /\ ring \in [0..(size - 1) -> Nat]
<1>1. size \in Nat /\ size > 1
  BY RingSizeIsNat DEF RttTypes
<1>2. /\ wrOff \in Nat /\ wrOff < size /\ rdOff \in Nat /\ rdOff < size
      /\ offs.wr \in Nat /\ offs.wr < size /\ offs.rd \in Nat /\ offs.rd < size
      /\ ring \in [0..(size - 1) -> Nat]
  BY DEF RttTypes
<1> QED BY ONLY <1>1, <1>2

(* How far an offset can be ahead.                                         *)
LEMMA AheadInRing ==
  ASSUME NEW s \in Nat, NEW w \in 0..(s - 1), NEW r \in 0..(s - 1)
  PROVE  Ahead(w, r, s) \in 0..(s - 1) /\ (w # r => Ahead(w, r, s) \in 1..(s - 1))
BY DEF Ahead

LEMMA RttInitInv == RttInit => RttInv
<1> SUFFICES ASSUME RttInit PROVE RttInv
  OBVIOUS
<1>1. RttTypes /\ Sides
  BY RttAssumption DEF RttInit, RttTypes, Sides
<1>2. Counted
  BY DEF RttInit, Counted, Ahead
<1> QED BY <1>1, <1>2 DEF RttInit, RttInv, ReadOk, WriteOk

LEMMA PrepareInv == RttInv /\ Prepare => RttInv'
<1> SUFFICES ASSUME RttInv, Prepare PROVE RttInv'
  OBVIOUS
<1>1. size' \in Nat /\ size' > 1
  BY RttAssumption DEF Prepare
<1>2. ring' \in [0..(size' - 1) -> Nat]
  BY <1>1 DEF Prepare
<1>3. rttPc' = "idle" /\ wrOff' = 0 /\ rdOff' = 0
  BY DEF Prepare, RttInv, RttTypes, rttHost
<1>4. RttTypes' /\ Sides'
  <2>1. offs' = offs /\ offs.wr = 0 /\ offs.rd = 0
    BY DEF Prepare, RttInv, RttTypes, rttHost
  <2> QED BY <1>1, <1>2, <1>3, <2>1 DEF Prepare, RttInv, RttTypes, Sides, rttHost
<1>5. Counted'
  BY <1>3 DEF RttInv, RttTypes, Counted, Prepare, Ahead
<1> QED BY <1>3, <1>4, <1>5 DEF RttInv, ReadOk, WriteOk

(* What the target puts is none of the cells that the host reads.          *)
LEMMA TargetPutsInv == RttInv /\ TargetPuts => RttInv'
<1> SUFFICES ASSUME RttInv, TargetPuts PROVE RttInv'
  OBVIOUS
<1> DEFINE n == Ahead(wrOff, rdOff, size)
<1>1. /\ size \in Nat /\ size > 1 /\ wrOff \in 0..(size - 1) /\ rdOff \in 0..(size - 1)
      /\ ring \in [0..(size - 1) -> Nat] /\ sent \in Nat /\ n \in 0..(size - 1)
  <2>1. size # 0 /\ RttTypes /\ sent \in Nat
    BY DEF RttInv, RttTypes, TargetPuts
  <2> QED BY ONLY <2>1, Ringed, AheadInRing
<1>2. wrOff' = (IF wrOff + 1 < size THEN wrOff + 1 ELSE 0) /\ wrOff' # rdOff
  <2>1. (wrOff + 1) % size = IF wrOff + 1 < size THEN wrOff + 1 ELSE 0
    BY <1>1, NextCell
  <2> QED BY <1>1, <2>1 DEF TargetPuts
<1>3. Ahead(wrOff', rdOff, size) = n + 1 /\ n + 1 < size /\ wrOff = Cell(rdOff, n, size)
  BY <1>1, <1>2 DEF Ahead, Cell
<1>4. ASSUME NEW k \in 0..(n - 1)
      PROVE  Cell(rdOff, k, size) \in 0..(size - 1) /\ Cell(rdOff, k, size) # wrOff
  <2> HIDE DEF n
  <2>1. k \in Nat /\ k < n /\ rdOff \in Nat /\ rdOff < size /\ n \in Nat /\ n < size
    BY <1>1
  <2> QED BY ONLY <1>1, <1>3, <2>1 DEF Cell
<1>5. /\ ring' = [ring EXCEPT ![wrOff] = sent + 1] /\ sent' = sent + 1 /\ side = "up"
      /\ UNCHANGED <<side, size, rdOff, got, rttPc, blocking, offs, data, left, put>>
      /\ sent < RttTotal /\ size # 0
  BY DEF TargetPuts, rttHost
<1>6. RttTypes'
  <2>1. ring' \in [0..(size - 1) -> Nat]
    BY <1>1, <1>5
  <2>2. sent' + put' + left' <= RttTotal
    BY <1>1, <1>5, RttAssumption DEF RttInv, Sides
  <2>3. wrOff' \in Nat /\ wrOff' < size
    BY <1>1, <1>2
  <2>4. sent' \in Nat
    BY <1>1, <1>5
  <2> QED BY <1>5, <2>1, <2>2, <2>3, <2>4 DEF RttInv, RttTypes
<1>7. Sides'
  BY <1>5 DEF RttInv, Sides
<1>8. Counted'
  <2>1. sent = Len(got) + n /\ Len(got) \in Nat
    BY DEF RttInv, RttTypes, Counted
  <2> HIDE DEF n
  <2>2. sent + 1 = Len(got) + (n + 1)
    BY ONLY <1>1, <2>1
  <2> QED BY <1>3, <1>5, <2>2 DEF Counted
<1>9. ReadOk'
  <2> SUFFICES ASSUME rttPc \in {"first", "second", "release"} PROVE ReadOk'
    BY <1>5 DEF ReadOk
  <2>1. /\ offs.rd = rdOff /\ offs.wr # rdOff /\ Ahead(offs.wr, rdOff, size) <= n
        /\ offs.wr \in 0..(size - 1)
    <3>1. offs.rd = rdOff /\ offs.wr # rdOff /\ Ahead(offs.wr, rdOff, size) <= n
      BY DEF RttInv, ReadOk
    <3>2. offs.wr \in Nat /\ offs.wr < size
      BY <1>5 DEF RttInv, RttTypes
    <3> QED BY <1>1, <3>1, <3>2
  <2>2. \A k \in 0..(n - 1) : ring'[Cell(rdOff, k, size)] = ring[Cell(rdOff, k, size)]
    BY <1>1, <1>4, <1>5
  <2>3. Ahead(offs.wr, rdOff, size) \in Nat
    BY <1>1, <2>1 DEF Ahead
  <2>8. /\ offs'.rd = rdOff' /\ offs'.wr # rdOff'
        /\ Ahead(offs'.wr, rdOff', size') <= Ahead(wrOff', rdOff', size')
    BY <1>1, <1>3, <1>5, <2>1, <2>3
  <2>4. \A i \in 1..Ahead(offs.wr, rdOff, size) : i - 1 \in 0..(n - 1)
    BY <1>1, <2>1, <2>3
  <2>5. CASE rttPc = "second"
    <3>1. offs.wr < rdOff /\ data = [i \in 1..(size - rdOff) |-> ring[Cell(rdOff, i - 1, size)]]
      BY <2>5 DEF RttInv, ReadOk
    <3>2. size - rdOff <= Ahead(offs.wr, rdOff, size)
      BY <1>1, <2>1, <3>1 DEF Ahead
    <3>3. \A i \in 1..(size - rdOff) : i - 1 \in 0..(n - 1)
      BY <1>1, <2>1, <2>3, <3>2
    <3>4. data = [i \in 1..(size - rdOff) |-> ring'[Cell(rdOff, i - 1, size)]]
      BY <2>2, <3>1, <3>3
    <3> QED BY <1>5, <2>5, <2>8, <3>1, <3>4 DEF ReadOk
  <2>6. CASE rttPc = "release"
    <3>1. data = Between(offs.wr, rdOff, size, ring)
      BY <2>6 DEF RttInv, ReadOk
    <3>2. Between(offs.wr, rdOff, size, ring) = Between(offs.wr, rdOff, size, ring')
      BY <2>2, <2>4 DEF Between
    <3> QED BY <1>5, <2>6, <2>8, <3>1, <3>2 DEF ReadOk
  <2>7. CASE rttPc = "first"
    BY <1>5, <2>7, <2>8 DEF ReadOk
  <2> QED BY <2>5, <2>6, <2>7
<1>10. WriteOk'
  BY <1>5 DEF RttInv, Sides, WriteOk
<1> QED BY <1>6, <1>7, <1>8, <1>9, <1>10 DEF RttInv

(* What the target takes only makes more room than the host knows of.      *)
LEMMA TargetTakesInv == RttInv /\ TargetTakes => RttInv'
<1> SUFFICES ASSUME RttInv, TargetTakes PROVE RttInv'
  OBVIOUS
<1> DEFINE n == Ahead(wrOff, rdOff, size)
<1>1. /\ size \in Nat /\ size > 1 /\ wrOff \in 0..(size - 1) /\ rdOff \in 0..(size - 1)
      /\ ring \in [0..(size - 1) -> Nat] /\ n \in 1..(size - 1)
  <2>1. size # 0 /\ RttTypes /\ rdOff # wrOff
    BY DEF RttInv, RttTypes, TargetTakes
  <2> QED BY ONLY <2>1, Ringed, AheadInRing
<1>2. rdOff' = (IF rdOff + 1 < size THEN rdOff + 1 ELSE 0)
  BY <1>1, NextCell DEF TargetTakes
<1>3. Ahead(wrOff, rdOff', size) = n - 1
  <2>1. wrOff # rdOff /\ wrOff \in Nat /\ rdOff \in Nat /\ wrOff < size /\ rdOff < size
    BY <1>1 DEF TargetTakes
  <2> QED BY ONLY <1>1, <1>2, <2>1 DEF Ahead
<1>4. /\ side = "down" /\ got' = Append(got, ring[rdOff]) /\ got \in Seq(Nat)
      /\ UNCHANGED <<side, size, ring, wrOff, sent, rttPc, blocking, offs, data, left, put>>
  BY DEF TargetTakes, rttHost, RttInv, RttTypes
<1>5. got' \in Seq(Nat) /\ Len(got') = Len(got) + 1 /\ Len(got) \in Nat
  BY <1>1, <1>4
<1>6. RttTypes'
  <2>1. rdOff' \in Nat /\ rdOff' < size
    BY <1>1, <1>2
  <2>2. size # 0 /\ RttTypes
    BY <1>1 DEF RttInv
  <2>3. UNCHANGED <<side, size, ring, wrOff, sent, rttPc, offs, data, left, put>>
    BY <1>4
  <2> QED BY ONLY <1>5, <2>1, <2>2, <2>3 DEF RttTypes
<1>7. Sides'
  BY <1>4 DEF RttInv, Sides
<1>8. Counted'
  BY <1>1, <1>3, <1>4, <1>5 DEF RttInv, Counted
<1>9. ReadOk'
  BY <1>4 DEF RttInv, Sides, ReadOk
<1>10. WriteOk'
  <2> SUFFICES ASSUME rttPc \in {"top", "bottom", "announce"} PROVE WriteOk'
    BY <1>4 DEF WriteOk
  <2>1. n <= Ahead(wrOff, offs.rd, size) /\ Ahead(wrOff, offs.rd, size) \in Nat
    <3>1. offs.rd \in Nat /\ offs.rd < size
      BY <1>1 DEF RttInv, RttTypes
    <3>2. Ahead(wrOff, offs.rd, size) \in Nat
      BY <1>1, <3>1 DEF Ahead
    <3> QED BY <3>2 DEF RttInv, WriteOk
  <2>2. Ahead(wrOff', rdOff', size') <= Ahead(wrOff', offs'.rd, size')
    BY <1>1, <1>3, <1>4, <2>1
  <2> QED BY <1>4, <2>2 DEF RttInv, WriteOk
<1> QED BY <1>6, <1>7, <1>8, <1>9, <1>10 DEF RttInv

-----------------------------------------------------------------------------
(* What the host does in read().                                           *)

LEMMA ReadOffsetsInv == RttInv /\ ReadOffsets => RttInv'
<1> SUFFICES ASSUME RttInv, ReadOffsets PROVE RttInv'
  OBVIOUS
<1>1. /\ UNCHANGED <<side, size, ring, wrOff, rdOff, sent, got, data, left, put>>
      /\ side = "up" /\ offs' = [wr |-> wrOff, rd |-> rdOff] /\ rttPc' = "first"
      /\ wrOff # rdOff /\ size # 0
  BY DEF ReadOffsets, rttMemory
<1>2. RttTypes' /\ Sides' /\ Counted'
  BY <1>1 DEF RttInv, RttTypes, Sides, Counted
<1>3. Ahead(wrOff, rdOff, size) \in Int
  BY RingSizeIsNat DEF RttInv, RttTypes, Ahead
<1>4. ReadOk' /\ WriteOk'
  BY <1>1, <1>3 DEF ReadOk, WriteOk
<1> QED BY <1>2, <1>4 DEF RttInv

(* What is read in one part.                                               *)
LEMMA CellsAreSeq ==
  ASSUME RttTypes, size # 0, NEW first \in Nat, NEW n \in Int, first + n <= size
  PROVE  Cells(first, n) \in Seq(Nat) /\ Len(Cells(first, n)) = IF n >= 0 THEN n ELSE 0
<1> DEFINE m == IF n >= 0 THEN n ELSE 0
<1>1. m \in Nat /\ 1..n = 1..m
  OBVIOUS
<1>2. \A i \in 1..m : first + i - 1 \in 0..(size - 1) /\ ring[first + i - 1] \in Nat
  <2>1. \A i \in 1..m : first + i - 1 \in 0..(size - 1)
    BY Ringed
  <2> QED BY <2>1, Ringed
<1>3. Cells(first, n) = [i \in 1..m |-> ring[first + i - 1]]
  BY <1>1 DEF Cells
<1> HIDE DEF m
<1>4. Cells(first, n) \in Seq(Nat) /\ Len(Cells(first, n)) = m
  <2> DEFINE f == [i \in 1..m |-> ring[first + i - 1]]
  <2>1. \A i \in 1..m : f[i] \in Nat
    BY <1>2
  <2>2. f \in [1..m -> Nat]
    BY <2>1
  <2> HIDE DEF f
  <2>3. f \in Seq(Nat) /\ Len(f) = m
    BY ONLY <1>1, <2>2
  <2> QED BY <1>3, <2>3 DEF f
<1> QED BY <1>4 DEF m

LEMMA ReadFirstInv == RttInv /\ ReadFirst => RttInv'
<1> SUFFICES ASSUME RttInv, ReadFirst PROVE RttInv'
  OBVIOUS
<1>1. /\ size \in Nat /\ size > 1 /\ rdOff \in 0..(size - 1) /\ offs.wr \in 0..(size - 1)
      /\ offs.rd = rdOff /\ offs.wr # rdOff /\ side = "up" /\ rttPc = "first"
      /\ Ahead(offs.wr, rdOff, size) <= Ahead(wrOff, rdOff, size)
  BY RingSizeIsNat DEF RttInv, RttTypes, Sides, ReadOk, ReadFirst
<1>2. UNCHANGED <<side, size, ring, wrOff, rdOff, sent, got, offs, left, put>>
  BY DEF ReadFirst, rttMemory
<1> DEFINE end == IF offs.wr > rdOff THEN offs.wr ELSE size
<1>3. /\ data' = Cells(rdOff, end - rdOff) /\ end \in Nat /\ end > rdOff /\ end <= size
      /\ rttPc' = IF offs.wr > rdOff THEN "release" ELSE "second"
  BY <1>1 DEF ReadFirst
<1>4. data' \in Seq(Nat)
  <2>1. end - rdOff \in Int /\ rdOff + (end - rdOff) <= size
    BY <1>1, <1>3
  <2> HIDE DEF end
  <2> QED BY <1>1, <1>3, <2>1, CellsAreSeq DEF RttInv
<1>5. RttTypes' /\ Sides' /\ Counted'
  BY <1>1, <1>2, <1>3, <1>4 DEF RttInv, RttTypes, Sides, Counted
<1>6. data' = [i \in 1..(end - rdOff) |-> ring[Cell(rdOff, i - 1, size)]]
  <2>1. \A i \in 1..(end - rdOff) : rdOff + i - 1 = Cell(rdOff, i - 1, size)
    BY <1>1, <1>3 DEF Cell
  <2> QED BY <1>3, <2>1 DEF Cells
<1>7. offs.wr > rdOff => end - rdOff = Ahead(offs.wr, rdOff, size)
  BY <1>1 DEF Ahead
<1>8. offs.wr > rdOff \/ offs.wr < rdOff
  BY <1>1
<1>9. ReadOk'
  BY <1>1, <1>2, <1>3, <1>6, <1>7, <1>8 DEF ReadOk, Between
<1>10. WriteOk'
  BY <1>3 DEF WriteOk
<1> QED BY <1>5, <1>9, <1>10 DEF RttInv

(* The two parts together are what lies between the offsets.               *)
LEMMA ReadSecondInv == RttInv /\ ReadSecond => RttInv'
<1> SUFFICES ASSUME RttInv, ReadSecond PROVE RttInv'
  OBVIOUS
<1> DEFINE m == size - rdOff
           w == offs.wr
<1>1. /\ size \in Nat /\ size > 1 /\ rdOff \in 0..(size - 1) /\ w \in 0..(size - 1)
      /\ offs.rd = rdOff /\ w < rdOff /\ side = "up" /\ rttPc = "second"
      /\ Ahead(w, rdOff, size) <= Ahead(wrOff, rdOff, size)
      /\ data = [i \in 1..m |-> ring[Cell(rdOff, i - 1, size)]]
      /\ data \in Seq(Nat)
  BY RingSizeIsNat DEF RttInv, RttTypes, Sides, ReadOk, ReadSecond
<1>2. UNCHANGED <<side, size, ring, wrOff, rdOff, sent, got, offs, left, put>>
      /\ rttPc' = "release" /\ data' = data \o Cells(0, w)
  BY DEF ReadSecond, rttMemory
<1>3. Cells(0, w) \in Seq(Nat) /\ Len(Cells(0, w)) = w
  <2>1. w \in Int /\ 0 + w <= size /\ w >= 0
    BY <1>1
  <2> HIDE DEF w
  <2> QED BY <1>1, <2>1, CellsAreSeq DEF RttInv
<1>4. data' \in Seq(Nat)
  BY <1>1, <1>2, <1>3, ConcatProperties
<1>5. RttTypes' /\ Sides' /\ Counted'
  BY <1>1, <1>2, <1>4 DEF RttInv, RttTypes, Sides, Counted
<1>6. m \in Nat /\ Len(data) = m /\ Ahead(w, rdOff, size) = m + w
  BY <1>1 DEF Ahead
<1>7. data' = Between(w, rdOff, size, ring)
  <2> DEFINE b == Between(w, rdOff, size, ring)
  <2>1. b = [i \in 1..(m + w) |-> ring[Cell(rdOff, i - 1, size)]]
    BY <1>6 DEF Between
  <2>2. data' = [i \in 1..(m + w) |-> IF i <= m THEN data[i] ELSE Cells(0, w)[i - m]]
    <3> DEFINE c == Cells(0, w)
    <3>1. /\ data \in Seq(Nat) /\ c \in Seq(Nat) /\ Len(data) = m /\ Len(c) = w /\ data' = data \o c
          /\ m \in Nat /\ w \in Nat
      BY <1>1, <1>2, <1>3, <1>6
    <3> HIDE DEF c, m, w
    <3>2. data' \in Seq(Nat) /\ Len(data') = m + w
      BY ONLY <3>1, ConcatProperties
    <3>3. \A i \in 1..(m + w) : data'[i] = IF i <= m THEN data[i] ELSE c[i - m]
      BY ONLY <3>1, ConcatProperties
    <3>4. data' = [i \in 1..(m + w) |-> data'[i]]
      BY ONLY <3>2
    <3>5. data' = [i \in 1..(m + w) |-> IF i <= m THEN data[i] ELSE c[i - m]]
      BY <3>3, <3>4
    <3> QED BY <3>5 DEF c
  <2>3. ASSUME NEW i \in 1..(m + w), i <= m
        PROVE  data[i] = ring[Cell(rdOff, i - 1, size)]
    <3>1. i \in 1..m
      BY <1>1, <1>6, <2>3
    <3> QED BY <1>1, <3>1
  <2>4. ASSUME NEW i \in 1..(m + w), ~ i <= m
        PROVE  Cells(0, w)[i - m] = ring[Cell(rdOff, i - 1, size)]
    <3>1. i - m \in 1..w
      BY <1>1, <1>6, <2>4
    <3>2. Cells(0, w)[i - m] = ring[0 + (i - m) - 1]
      BY <3>1 DEF Cells
    <3>3. 0 + (i - m) - 1 = Cell(rdOff, i - 1, size)
      BY <1>1, <3>1 DEF Cell
    <3> QED BY <3>2, <3>3
  <2> QED BY <2>1, <2>2, <2>3, <2>4
<1>8. ReadOk'
  <2>1. w # rdOff
    BY <1>1
  <2> QED BY <1>1, <1>2, <1>7, <2>1 DEF ReadOk
<1>9. WriteOk'
  BY <1>2 DEF WriteOk
<1> QED BY <1>5, <1>8, <1>9 DEF RttInv

(* What was ahead by more is ahead by the difference.                      *)
LEMMA AheadBehind ==
  ASSUME NEW s \in Nat, NEW v \in 0..(s - 1), NEW w \in 0..(s - 1), NEW r \in 0..(s - 1),
         Ahead(w, r, s) <= Ahead(v, r, s)
  PROVE  Ahead(v, w, s) = Ahead(v, r, s) - Ahead(w, r, s)
BY DEF Ahead

(* What the target has put meanwhile is left.                              *)
LEMMA ReleaseReadInv == RttInv /\ ReleaseRead => RttInv'
<1> SUFFICES ASSUME RttInv, ReleaseRead PROVE RttInv'
  OBVIOUS
<1> DEFINE w == offs.wr
           n == Ahead(w, rdOff, size)
<1>1. /\ size \in Nat /\ size > 1 /\ rdOff \in 0..(size - 1) /\ w \in 0..(size - 1)
      /\ wrOff \in 0..(size - 1) /\ side = "up" /\ rttPc = "release"
      /\ n <= Ahead(wrOff, rdOff, size) /\ data = Between(w, rdOff, size, ring)
      /\ data \in Seq(Nat) /\ got \in Seq(Nat) /\ sent = Len(got) + Ahead(wrOff, rdOff, size)
  BY RingSizeIsNat DEF RttInv, RttTypes, Sides, Counted, ReadOk, ReleaseRead
<1>2. /\ UNCHANGED <<side, size, ring, wrOff, sent, offs, left, put>>
      /\ rttPc' = "idle" /\ rdOff' = w /\ got' = got \o data /\ data' = <<>>
  BY DEF ReleaseRead
<1>3. n \in Nat /\ Len(data) = n
  <2>1. n \in Nat
    <3>1. /\ size \in Nat /\ w \in 0..(size - 1) /\ rdOff \in 0..(size - 1)
      BY <1>1
    <3>2. n \in 0..(size - 1)
      BY ONLY <3>1, AheadInRing
    <3> QED BY ONLY <3>1, <3>2
  <2> QED BY <1>1, <2>1 DEF Between
<1>4. got' \in Seq(Nat) /\ Len(got') = Len(got) + n /\ Len(got) \in Nat
  BY <1>1, <1>2, <1>3, ConcatProperties
<1>5. Ahead(wrOff, w, size) = Ahead(wrOff, rdOff, size) - n
  BY <1>1, AheadBehind
<1>6. RttTypes' /\ Sides'
  <2>1. w \in Nat /\ w < size /\ data' \in Seq(Nat)
    BY <1>1, <1>2
  <2> QED BY <1>1, <1>2, <1>4, <2>1 DEF RttInv, RttTypes, Sides
<1>7. Counted'
  <2>1. Ahead(wrOff, rdOff, size) \in Nat
    BY <1>1 DEF Ahead
  <2> HIDE DEF n, w
  <2>2. Len(got') + Ahead(wrOff, w, size) = sent
    BY ONLY <1>1, <1>3, <1>4, <1>5, <2>1
  <2> QED BY <1>2, <2>2 DEF Counted
<1>8. ReadOk' /\ WriteOk'
  BY <1>2 DEF ReadOk, WriteOk
<1> QED BY <1>6, <1>7, <1>8 DEF RttInv

-----------------------------------------------------------------------------
(* What the host does in write().                                          *)

(* p cells after w there still is room before r.                           *)
LEMMA RoomAhead ==
  ASSUME NEW s \in Nat \ {0}, NEW w \in 0..(s - 1), NEW r \in 0..(s - 1), NEW p \in Nat,
         Ahead(w, r, s) + p < s
  PROVE  /\ Cell(w, p, s) \in 0..(s - 1)
         /\ Ahead(Cell(w, p, s), r, s) = Ahead(w, r, s) + p
BY DEF Ahead, Cell

(* A cell beyond w is not one between r and w.                             *)
LEMMA OtherCells ==
  ASSUME NEW s \in Nat \ {0}, NEW w \in 0..(s - 1), NEW r \in 0..(s - 1), NEW p \in Nat,
         Ahead(w, r, s) + p < s,
         NEW j \in 0..(p - 1), NEW k \in 0..(Ahead(w, r, s) - 1)
  PROVE  Cell(w, j, s) # Cell(r, k, s) /\ Cell(r, k, s) \in 0..(s - 1)
BY DEF Ahead, Cell

(* As much as is still to be sent.                                         *)
LEMMA UpTo ==
  ASSUME NEW total \in Nat, NEW n \in Nat, NEW more \in 1..(total - n)
  PROVE  more \in Nat /\ n + more <= total
OBVIOUS

LEMMA CallWriteInv == RttInv /\ CallWrite => RttInv'
<1> SUFFICES ASSUME RttInv, CallWrite PROVE RttInv'
  OBVIOUS
<1>1. UNCHANGED <<side, size, ring, wrOff, rdOff, sent, got, offs, data, put>>
      /\ side = "down" /\ rttPc = "idle" /\ put = 0
  BY DEF CallWrite, rttMemory, RttInv, Sides
<1>2. /\ left' \in Nat /\ sent + left' <= RttTotal
      /\ rttPc' = IF size = 0 THEN "idle" ELSE "offsets"
  <2>1. sent \in Nat /\ left \in Nat /\ sent + left <= RttTotal
    BY <1>1, RttAssumption DEF RttInv, RttTypes
  <2>2. CASE size = 0
    BY <1>1, <2>1, <2>2 DEF CallWrite
  <2>3. CASE size # 0
    <3>1. left' \in 1..(RttTotal - sent) /\ rttPc' = "offsets"
      BY <2>3 DEF CallWrite
    <3>2. left' \in Nat /\ sent + left' <= RttTotal
      <4>1. sent \in Nat /\ RttTotal \in Nat
        BY <2>1, RttAssumption
      <4> QED BY <3>1, <4>1, UpTo
    <3> QED BY <2>3, <3>1, <3>2
  <2> QED BY <2>2, <2>3
<1>3. RttTypes'
  BY <1>1, <1>2 DEF RttInv, RttTypes
<1>4. Sides' /\ Counted' /\ ReadOk' /\ WriteOk'
  BY <1>1, <1>2 DEF RttInv, Sides, Counted, ReadOk, WriteOk
<1> QED BY <1>3, <1>4 DEF RttInv

LEMMA WriteOffsetsInv == RttInv /\ WriteOffsets => RttInv'
<1> SUFFICES ASSUME RttInv, WriteOffsets PROVE RttInv'
  OBVIOUS
<1>1. /\ UNCHANGED <<side, size, ring, wrOff, rdOff, sent, got, data, left, put>>
      /\ offs' = [wr |-> wrOff, rd |-> rdOff] /\ rttPc = "offsets"
      /\ rttPc' = IF wrOff >= rdOff THEN "top" ELSE "bottom"
  BY DEF WriteOffsets, rttMemory
<1>2. /\ size \in Nat \ {0} /\ wrOff \in 0..(size - 1) /\ rdOff \in 0..(size - 1) /\ put = 0
      /\ side = "down"
  BY <1>1, RingSizeIsNat DEF RttInv, RttTypes, Sides
<1>3. RttTypes' /\ Sides' /\ Counted' /\ ReadOk'
  BY <1>1, <1>2 DEF RttInv, RttTypes, Sides, Counted, ReadOk
<1>4. /\ Ahead(wrOff, rdOff, size) \in 0..(size - 1) /\ Cell(wrOff, 0, size) = wrOff
      /\ 0..(0 - 1) = {}
  BY <1>2 DEF Ahead, Cell
<1>5. WriteOk'
  <2>1. Ahead(wrOff, rdOff, size) <= Ahead(wrOff, rdOff, size)
        /\ Ahead(wrOff, rdOff, size) + 0 < size
    BY <1>2, <1>4
  <2>2. rttPc' = "top" => wrOff >= rdOff
    BY <1>1
  <2>3. \A k \in 0..(put' - 1) : FALSE
    BY <1>1, <1>2
  <2> QED BY <1>1, <1>2, <1>4, <2>1, <2>2, <2>3 DEF WriteOk
<1> QED BY <1>3, <1>5 DEF RttInv

(* What fits beyond the copy of the write offset: n bytes in a row.        *)
Fits(n) ==
  /\ n \in Nat /\ n <= left /\ offs.wr + n <= size
  /\ Ahead(wrOff, offs.rd, size) + put + n < size

(* What is stored is sent next, and no cell of the queue is overwritten.   *)
LEMMA StoreAdds ==
  ASSUME RttInv, NEW n, Fits(n), Store(n), rttPc \in {"top", "bottom"},
         UNCHANGED <<size, wrOff, rdOff, sent>>
  PROVE  /\ ring' \in [0..(size - 1) -> Nat]
         /\ left' \in Nat /\ put' \in Nat /\ put' = put + n /\ left' = left - n
         /\ Cell(wrOff, put', size) = Cell(offs.wr, n, size)
         /\ \A k \in 0..(put' - 1) : ring'[Cell(wrOff, k, size)] = sent + k + 1
         /\ \A k \in 0..(Ahead(wrOff, rdOff, size) - 1) :
              ring'[Cell(rdOff, k, size)] = ring[Cell(rdOff, k, size)]
<1> DEFINE a == Ahead(wrOff, offs.rd, size)
           w == offs.wr
<1>1. /\ size \in Nat \ {0} /\ wrOff \in 0..(size - 1) /\ rdOff \in 0..(size - 1)
      /\ w \in 0..(size - 1) /\ offs.rd \in 0..(size - 1) /\ sent \in Nat
      /\ ring \in [0..(size - 1) -> Nat] /\ put \in Nat /\ left \in Nat
  BY RingSizeIsNat DEF RttInv, RttTypes
<1>2. /\ Ahead(wrOff, rdOff, size) <= a /\ a + put + n < size /\ w = Cell(wrOff, put, size)
      /\ n \in Nat /\ n <= left /\ w + n <= size
      /\ \A k \in 0..(put - 1) : ring[Cell(wrOff, k, size)] = sent + k + 1
  BY DEF RttInv, WriteOk, Fits
<1>3. /\ put' = put + n /\ left' = left - n
      /\ ring' = [i \in 0..(size - 1) |->
                    IF i \in w..(w + n - 1) THEN sent + put + i - w + 1 ELSE ring[i]]
  BY <1>1 DEF Store
<1> DEFINE b == Ahead(wrOff, rdOff, size)
<1>4. a \in Nat /\ b \in Nat
  <2>1. /\ size \in Nat /\ wrOff \in 0..(size - 1)
        /\ rdOff \in 0..(size - 1) /\ offs.rd \in 0..(size - 1)
    BY <1>1
  <2>2. a \in 0..(size - 1) /\ b \in 0..(size - 1)
    BY ONLY <2>1, AheadInRing
  <2> QED BY ONLY <2>1, <2>2
<1> HIDE DEF a, b, w
<1>10. b + (put + n) < size /\ put + n \in Nat /\ b < size
  <2>1. b <= a /\ a + put + n < size /\ put \in Nat /\ n \in Nat /\ size \in Nat
    BY <1>1, <1>2 DEF b
  <2> QED BY ONLY <1>4, <2>1
<1>5. ring' \in [0..(size - 1) -> Nat]
  <2>1. \A i \in 0..(size - 1) : i \in w..(w + n - 1) => sent + put + i - w + 1 \in Nat
    <3> SUFFICES ASSUME NEW i \in 0..(size - 1), i \in w..(w + n - 1)
                 PROVE  sent + put + i - w + 1 \in Nat
      OBVIOUS
    <3>1. sent \in Nat /\ put \in Nat /\ i \in Int /\ i >= w /\ w \in Int
      BY <1>1, <1>2
    <3> QED BY ONLY <3>1
  <2> QED BY <1>1, <1>3, <2>1
<1>6. left' \in Nat /\ put' \in Nat
  BY <1>1, <1>2, <1>3
<1>7. Cell(wrOff, put', size) = Cell(w, n, size)
  <2>1. put + n < size
    BY <1>1, <1>2, <1>4
  <2> QED BY ONLY <1>1, <1>2, <1>3, <2>1 DEF Cell
<1>8. ASSUME NEW k \in 0..(put' - 1)
      PROVE  ring'[Cell(wrOff, k, size)] = sent + k + 1
  <2>1. put + n < size /\ k \in Nat /\ k < put + n
    BY <1>1, <1>2, <1>3, <1>4
  <2>2. CASE k < put
    <3>1. Cell(wrOff, k, size) \in 0..(size - 1) /\ Cell(wrOff, k, size) \notin w..(w + n - 1)
      <4>1. /\ size \in Nat /\ wrOff \in 0..(size - 1) /\ put \in Nat /\ n \in Nat
            /\ w = Cell(wrOff, put, size) /\ w + n <= size
        BY <1>1, <1>2
      <4> QED BY ONLY <4>1, <2>1, <2>2 DEF Cell
    <3>2. k \in 0..(put - 1)
      BY <1>1, <2>1, <2>2
    <3> QED BY <1>2, <1>3, <3>1, <3>2
  <2>3. CASE k >= put
    <3>1. Cell(wrOff, k, size) = w + (k - put) /\ w + (k - put) \in 0..(size - 1)
          /\ w + (k - put) \in w..(w + n - 1)
      BY ONLY <1>1, <1>2, <2>1, <2>3 DEF Cell
    <3>2. sent + put + (w + (k - put)) - w + 1 = sent + k + 1
      BY <1>1, <2>1
    <3> QED BY <1>3, <3>1, <3>2
  <2> QED BY <1>1, <2>1, <2>2, <2>3
<1>9. ASSUME NEW k \in 0..(Ahead(wrOff, rdOff, size) - 1)
      PROVE  ring'[Cell(rdOff, k, size)] = ring[Cell(rdOff, k, size)]
  <2>1. b + (put + n) < size /\ put + n \in Nat
    BY <1>10
  <2>2. Cell(rdOff, k, size) \in 0..(size - 1)
    <3>1. k \in Nat /\ k < b /\ rdOff \in Nat /\ rdOff < size /\ size \in Nat
      BY <1>1, <1>4 DEF b
    <3> QED BY ONLY <1>10, <1>4, <3>1 DEF Cell
  <2>3. ASSUME Cell(rdOff, k, size) \in w..(w + n - 1) PROVE FALSE
    <3> DEFINE j == put + (Cell(rdOff, k, size) - w)
    <3>1. j \in 0..((put + n) - 1)
      <4> DEFINE c == Cell(rdOff, k, size)
      <4>1. c \in Int /\ c >= w /\ c <= w + n - 1 /\ w \in Int /\ n \in Nat /\ put \in Nat
        BY <1>1, <1>2, <2>2, <2>3
      <4>2. j = put + (c - w)
        OBVIOUS
      <4> HIDE DEF j, c
      <4> QED BY ONLY <4>1, <4>2
    <3>2. Cell(wrOff, j, size) # Cell(rdOff, k, size)
      <4> HIDE DEF j
      <4> QED BY <1>1, <2>1, <3>1, OtherCells DEF b
    <3>3. Cell(wrOff, j, size) = Cell(rdOff, k, size)
      <4> DEFINE c == Cell(rdOff, k, size)
      <4>1. c \in 0..(size - 1) /\ c \in w..(w + n - 1) /\ j = put + (c - w)
        BY <2>2, <2>3
      <4>2. put + n < size
        BY <1>1, <1>2, <1>4
      <4> HIDE DEF c, j
      <4>3. Cell(wrOff, j, size) = c
        BY ONLY <1>1, <1>2, <4>1, <4>2 DEF Cell
      <4> QED BY <4>3 DEF c
    <3> QED BY <3>2, <3>3
  <2> QED BY <1>3, <2>2, <2>3
<1> QED BY <1>3, <1>5, <1>6, <1>7, <1>8, <1>9 DEF w

(* What fits at the top leaves one cell empty, or the ring begins with one.*)
LEMMA WriteTopInv ==
  ASSUME RttInv, WriteTop
  PROVE  RttInv' /\ Fits(Lesser(left, Top)) /\ Store(Lesser(left, Top))
<1> DEFINE n == Lesser(left, Top)
           w == offs.wr
           r == offs.rd
<1>1. /\ size \in Nat /\ size > 1 /\ w \in 0..(size - 1) /\ r \in 0..(size - 1) /\ left \in Nat
      /\ wrOff \in 0..(size - 1) /\ rttPc = "top" /\ put = 0 /\ w = wrOff /\ wrOff >= r
      /\ side = "down" /\ sent \in Nat /\ offs \in [wr : Nat, rd : Nat]
  <2>1. rttPc = "top" /\ size # 0 /\ size \in Nat /\ size > 1 /\ left \in Nat /\ sent \in Nat
        /\ offs \in [wr : Nat, rd : Nat]
    BY RingSizeIsNat DEF RttInv, RttTypes, WriteTop
  <2>2. put = 0 /\ side = "down" /\ offs.wr = Cell(wrOff, put, size) /\ wrOff >= offs.rd
    BY <2>1 DEF RttInv, RttTypes, Sides, WriteOk
  <2>3. wrOff \in 0..(size - 1) /\ w \in 0..(size - 1) /\ r \in 0..(size - 1)
    BY <2>1 DEF RttInv, RttTypes
  <2> QED BY <2>1, <2>2, <2>3 DEF Cell
<1>2. /\ Store(n) /\ offs' = [offs EXCEPT !.wr = (w + n) % size] /\ rttPc' = "bottom"
      /\ UNCHANGED <<side, size, wrOff, rdOff, sent, got, data>>
  BY DEF WriteTop
<1>3. Top = size - w - (IF r = 0 THEN 1 ELSE 0) /\ Top \in Nat
  BY <1>1 DEF Top
<1>4. n \in Nat /\ n <= left /\ n <= Top
  BY <1>1, <1>3 DEF Lesser
<1> HIDE DEF n
<1>5. Fits(n)
  BY <1>1, <1>3, <1>4 DEF Fits, Ahead
<1>6. /\ ring' \in [0..(size - 1) -> Nat]
      /\ left' \in Nat /\ put' \in Nat /\ put' = put + n /\ left' = left - n
      /\ Cell(wrOff, put', size) = Cell(w, n, size)
      /\ \A k \in 0..(put' - 1) : ring'[Cell(wrOff, k, size)] = sent + k + 1
  BY <1>1, <1>2, <1>5, StoreAdds
<1>7. offs'.wr = Cell(w, n, size) /\ offs'.rd = r /\ offs' \in [wr : Nat, rd : Nat]
      /\ Cell(w, n, size) \in 0..(size - 1)
  <2> DEFINE x == w + n
  <2>1. x \in 0..(2 * size - 1) /\ size \in Nat \ {0}
    BY <1>1, <1>3, <1>4
  <2>2. x % size = IF x < size THEN x ELSE x - size
    BY ONLY <2>1, ModOnce
  <2>3. (w + n) % size = Cell(w, n, size) /\ Cell(w, n, size) \in 0..(size - 1)
    BY <1>1, <1>3, <1>4, <2>2 DEF Cell
  <2> QED BY <1>1, <1>2, <2>3
<1>8. RttTypes'
  <2>1. sent' + put' + left' <= RttTotal
    <3>1. sent + put + left <= RttTotal
      BY DEF RttInv, RttTypes
    <3> QED BY <1>1, <1>2, <1>4, <1>6, <3>1, RttAssumption
  <2>2. offs'.wr < size /\ offs'.rd < size
    BY <1>1, <1>7
  <2> QED BY <1>1, <1>2, <1>6, <1>7, <2>1, <2>2 DEF RttInv, RttTypes
<1>9. Sides' /\ Counted' /\ ReadOk'
  BY <1>1, <1>2 DEF RttInv, Sides, Counted, ReadOk
<1>10. WriteOk'
  <2>1. Ahead(wrOff, rdOff, size) <= Ahead(wrOff, r, size)
    BY <1>1 DEF RttInv, WriteOk
  <2>2. Ahead(wrOff, r, size) + put' < size
    <3>1. Ahead(wrOff, r, size) \in Int
      BY <1>1 DEF Ahead
    <3> QED BY <1>1, <1>4, <1>5, <1>6, <3>1 DEF Fits
  <2> QED BY <1>2, <1>6, <1>7, <2>1, <2>2 DEF WriteOk
<1> QED BY <1>2, <1>5, <1>8, <1>9, <1>10 DEF RttInv, n

(* What then fits at the bottom also leaves one.                           *)
LEMMA WriteBottomInv ==
  ASSUME RttInv, WriteBottom
  PROVE  RttInv' /\ Fits(Lesser(left, Bottom)) /\ Store(Lesser(left, Bottom))
<1> DEFINE n == Lesser(left, Bottom)
           w == offs.wr
           r == offs.rd
<1>1. /\ size \in Nat /\ size > 1 /\ w \in 0..(size - 1) /\ r \in 0..(size - 1) /\ left \in Nat
      /\ wrOff \in 0..(size - 1) /\ rttPc = "bottom" /\ put \in Nat
      /\ w = Cell(wrOff, put, size) /\ Ahead(wrOff, r, size) + put < size
      /\ side = "down" /\ sent \in Nat /\ offs \in [wr : Nat, rd : Nat]
  <2>1. rttPc = "bottom" /\ size # 0 /\ size \in Nat /\ size > 1 /\ left \in Nat /\ sent \in Nat
        /\ offs \in [wr : Nat, rd : Nat] /\ put \in Nat
    BY RingSizeIsNat DEF RttInv, RttTypes, WriteBottom
  <2>2. side = "down" /\ offs.wr = Cell(wrOff, put, size) /\ Ahead(wrOff, r, size) + put < size
    BY <2>1 DEF RttInv, RttTypes, Sides, WriteOk
  <2>3. wrOff \in 0..(size - 1) /\ w \in 0..(size - 1) /\ r \in 0..(size - 1)
    BY <2>1 DEF RttInv, RttTypes
  <2> QED BY <2>1, <2>2, <2>3
<1>2. /\ Store(n) /\ offs' = [offs EXCEPT !.wr = w + n] /\ rttPc' = "announce"
      /\ UNCHANGED <<side, size, wrOff, rdOff, sent, got, data>>
  BY DEF WriteBottom
<1>3. Bottom = (IF r - w - 1 < 0 THEN 0 ELSE r - w - 1) /\ Bottom \in Nat
  BY <1>1 DEF Bottom
<1>4. n \in Nat /\ n <= left /\ n <= Bottom
  BY <1>1, <1>3 DEF Lesser
<1> HIDE DEF n
<1>5. Fits(n)
  <2>1. Ahead(w, r, size) = Ahead(wrOff, r, size) + put
    BY <1>1, RoomAhead
  <2>2. Ahead(w, r, size) \in Nat /\ w + n < size /\ Ahead(w, r, size) + n < size
    BY <1>1, <1>3, <1>4 DEF Ahead
  <2>3. w + n <= size
    BY <1>1, <1>4, <2>2
  <2> QED BY <1>4, <2>1, <2>2, <2>3 DEF Fits
<1>6. /\ ring' \in [0..(size - 1) -> Nat]
      /\ left' \in Nat /\ put' \in Nat /\ put' = put + n /\ left' = left - n
      /\ Cell(wrOff, put', size) = Cell(w, n, size)
      /\ \A k \in 0..(put' - 1) : ring'[Cell(wrOff, k, size)] = sent + k + 1
  BY <1>1, <1>2, <1>5, StoreAdds
<1>7. offs'.wr = Cell(w, n, size) /\ offs'.rd = r /\ offs' \in [wr : Nat, rd : Nat]
      /\ offs'.wr < size
  <2>1. w + n = Cell(w, n, size) /\ w + n < size
    BY <1>1, <1>3, <1>4 DEF Cell
  <2> QED BY <1>1, <1>2, <1>4, <2>1
<1>8. RttTypes'
  <2>1. sent' + put' + left' <= RttTotal
    <3>1. sent + put + left <= RttTotal
      BY DEF RttInv, RttTypes
    <3> QED BY <1>1, <1>2, <1>4, <1>6, <3>1, RttAssumption
  <2>2. offs'.rd < size
    BY <1>1, <1>7
  <2> QED BY <1>1, <1>2, <1>6, <1>7, <2>1, <2>2 DEF RttInv, RttTypes
<1>9. Sides' /\ Counted' /\ ReadOk'
  BY <1>1, <1>2 DEF RttInv, Sides, Counted, ReadOk
<1>10. WriteOk'
  <2>1. Ahead(wrOff, rdOff, size) <= Ahead(wrOff, r, size)
    BY <1>1 DEF RttInv, WriteOk
  <2>2. Ahead(wrOff, r, size) + put' < size
    <3>1. Ahead(wrOff, r, size) \in Int
      BY <1>1 DEF Ahead
    <3> QED BY <1>1, <1>4, <1>5, <1>6, <3>1 DEF Fits
  <2> QED BY <1>2, <1>6, <1>7, <2>1, <2>2 DEF WriteOk
<1> QED BY <1>2, <1>5, <1>8, <1>9, <1>10 DEF RttInv, n

LEMMA AnnounceInv == RttInv /\ Announce => RttInv'
<1> SUFFICES ASSUME RttInv, Announce PROVE RttInv'
  OBVIOUS
<1>1. /\ size \in Nat /\ size > 1 /\ wrOff \in 0..(size - 1) /\ rdOff \in 0..(size - 1)
      /\ put \in Nat /\ left \in Nat /\ sent \in Nat
      /\ offs.wr = Cell(wrOff, put, size) /\ offs.wr \in Nat /\ offs.wr < size
      /\ Ahead(wrOff, rdOff, size) + put < size
      /\ sent = Len(got) + Ahead(wrOff, rdOff, size) /\ side = "down" /\ got \in Seq(Nat)
      /\ sent + put + left <= RttTotal
  <2>1. rttPc = "announce" /\ size \in Nat /\ size > 1 /\ size # 0
    BY RingSizeIsNat DEF RttInv, RttTypes, Announce
  <2>2. /\ wrOff \in 0..(size - 1) /\ rdOff \in 0..(size - 1) /\ offs.rd \in 0..(size - 1)
        /\ put \in Nat /\ offs.wr \in Nat /\ offs.wr < size
    BY <2>1 DEF RttInv, RttTypes
  <2>3. /\ offs.wr = Cell(wrOff, put, size)
        /\ Ahead(wrOff, rdOff, size) <= Ahead(wrOff, offs.rd, size)
        /\ Ahead(wrOff, offs.rd, size) + put < size
    BY <2>1 DEF RttInv, WriteOk
  <2>4. Ahead(wrOff, rdOff, size) + put < size
    <3>1. Ahead(wrOff, rdOff, size) \in Int /\ Ahead(wrOff, offs.rd, size) \in Int
      BY <2>1, <2>2 DEF Ahead
    <3> QED BY <2>1, <2>2, <2>3, <3>1
  <2> QED BY <2>1, <2>2, <2>3, <2>4 DEF RttInv, RttTypes, Sides, Counted
<1>2. /\ wrOff' = offs.wr /\ sent' = sent + put /\ put' = 0
      /\ UNCHANGED <<side, size, ring, rdOff, got, offs, data>>
      /\ left' \in {0, left} /\ rttPc' \in {"offsets", "idle"}
  BY DEF Announce
<1>3. Ahead(wrOff', rdOff, size) = Ahead(wrOff, rdOff, size) + put
  BY <1>1, <1>2, RoomAhead
<1>4. RttTypes'
  <2>1. sent' \in Nat /\ left' \in Nat /\ put' \in Nat /\ sent' + put' + left' <= RttTotal
    <3>1. RttTotal \in Nat
      BY RttAssumption
    <3>2. /\ sent \in Nat /\ put \in Nat /\ left \in Nat /\ sent + put + left <= RttTotal
          /\ sent' = sent + put /\ put' = 0 /\ (left' = 0 \/ left' = left)
      BY <1>1, <1>2
    <3> QED BY ONLY <3>1, <3>2
  <2>2. /\ side' \in {"up", "down"} /\ size' \in RingSizes \cup {0} /\ size' # 0
        /\ ring' \in [0..(size' - 1) -> Nat] /\ got' \in Seq(Nat) /\ data' \in Seq(Nat)
    <3>1. size # 0 /\ RttTypes
      BY <1>1 DEF RttInv
    <3>2. /\ side \in {"up", "down"} /\ size \in RingSizes \cup {0} /\ size # 0
          /\ ring \in [0..(size - 1) -> Nat] /\ got \in Seq(Nat) /\ data \in Seq(Nat)
      BY ONLY <3>1 DEF RttTypes
    <3> QED BY ONLY <1>2, <3>2
  <2>3. /\ offs' \in [wr : Nat, rd : Nat] /\ offs'.wr < size' /\ offs'.rd < size'
        /\ wrOff' \in Nat /\ rdOff' \in Nat /\ wrOff' < size' /\ rdOff' < size'
    <3>1. offs \in [wr : Nat, rd : Nat] /\ offs.rd < size
      <4>1. size # 0 /\ RttTypes
        BY <1>1 DEF RttInv
      <4> QED BY ONLY <4>1 DEF RttTypes
    <3>2. offs' = offs /\ rdOff' = rdOff /\ size' = size /\ wrOff' = offs.wr
      BY <1>2
    <3> QED BY <1>1, <3>1, <3>2
  <2> QED BY <2>1, <2>2, <2>3 DEF RttTypes
<1>5. Sides' /\ ReadOk' /\ WriteOk'
  BY <1>1, <1>2 DEF Sides, ReadOk, WriteOk
<1>6. Counted'
  <2>1. Len(got) \in Nat /\ Ahead(wrOff, rdOff, size) \in Int
    BY <1>1 DEF Ahead
  <2> QED BY <1>1, <1>2, <1>3, <2>1 DEF Counted
<1> QED BY <1>4, <1>5, <1>6 DEF RttInv

LEMMA RttStepInv == RttInv /\ [RttNext]_rttVars => RttInv'
<1> SUFFICES ASSUME RttInv, [RttNext]_rttVars PROVE RttInv'
  OBVIOUS
<1>1. CASE UNCHANGED rttVars
  BY <1>1 DEF rttVars, rttHost, rttMemory, RttInv, RttTypes, Sides, Counted, ReadOk, WriteOk, Between
<1> QED BY <1>1, PrepareInv, TargetPutsInv, TargetTakesInv, ReadOffsetsInv, ReadFirstInv,
           ReadSecondInv, ReleaseReadInv, CallWriteInv, WriteOffsetsInv, WriteTopInv,
           WriteBottomInv, AnnounceInv DEF RttNext, RttStep

-----------------------------------------------------------------------------
(* The queue                                                               *)

(* One cell stays empty.                                                   *)
Capacity == IF size = 0 THEN 0 ELSE size - 1

(* The ring as long as it is there.                                        *)
LEMMA Prepared ==
  ASSUME RttInv, size # 0
  PROVE  /\ size \in Nat /\ size > 1 /\ wrOff \in 0..(size - 1) /\ rdOff \in 0..(size - 1)
         /\ Ahead(wrOff, rdOff, size) \in 0..(size - 1)
         /\ Queued = Between(wrOff, rdOff, size, ring)
         /\ Capacity = size - 1
         /\ Queued \in Seq(Nat) /\ Len(Queued) = Ahead(wrOff, rdOff, size)
         /\ got \in Seq(Nat) /\ sent = Len(got) + Len(Queued) /\ sent <= RttTotal
<1> DEFINE n == Ahead(wrOff, rdOff, size)
<1>1. /\ size \in Nat /\ size > 1 /\ wrOff \in 0..(size - 1) /\ rdOff \in 0..(size - 1)
      /\ ring \in [0..(size - 1) -> Nat]
  BY RingSizeIsNat DEF RttInv, RttTypes
<1>2. n \in 0..(size - 1)
  BY <1>1 DEF Ahead
<1>3. Queued = Between(wrOff, rdOff, size, ring)
  BY <1>1, QueuedIsBetween DEF Queued
<1>4. Queued \in Seq(Nat) /\ Len(Queued) = n
  <2>1. \A i \in 1..n : Cell(rdOff, i - 1, size) \in 0..(size - 1)
    BY <1>1, <1>2 DEF Cell
  <2>2. \A i \in 1..n : ring[Cell(rdOff, i - 1, size)] \in Nat
    BY <1>1, <2>1
  <2> DEFINE f == [i \in 1..n |-> ring[Cell(rdOff, i - 1, size)]]
  <2>3. f \in [1..n -> Nat] /\ n \in Nat
    BY <1>2, <2>2
  <2> HIDE DEF f, n
  <2>4. f \in Seq(Nat) /\ Len(f) = n
    BY ONLY <2>3
  <2> QED BY <1>3, <2>4 DEF f, n, Between
<1>5. sent <= RttTotal /\ got \in Seq(Nat)
  <2>1. sent \in Nat /\ left \in Nat /\ put \in Nat /\ sent + put + left <= RttTotal
    BY DEF RttInv, RttTypes
  <2> QED BY ONLY RttInv, <2>1, RttAssumption DEF RttInv, RttTypes
<1>6. sent = Len(got) + Len(Queued)
  BY <1>4 DEF RttInv, Counted
<1> QED BY <1>1, <1>2, <1>3, <1>4, <1>5, <1>6 DEF Capacity

(* As long as the cells between the offsets stay, so does the queue.       *)
LEMMA QueueStays ==
  ASSUME RttInv, size # 0, UNCHANGED <<size, wrOff, rdOff, got>>,
         \A k \in 0..(Ahead(wrOff, rdOff, size) - 1) :
           ring'[Cell(rdOff, k, size)] = ring[Cell(rdOff, k, size)]
  PROVE  UNCHANGED <<Capacity, Queued, got>>
<1> DEFINE n == Ahead(wrOff, rdOff, size)
<1>1. n \in Nat /\ Queued = Between(wrOff, rdOff, size, ring)
  BY Prepared
<1>2. Queued' = Between(wrOff, rdOff, size, ring')
  <2>1. size \in Nat /\ size > 1 /\ wrOff \in 0..(size - 1) /\ rdOff \in 0..(size - 1)
    BY Prepared
  <2>2. [i \in 1..((wrOff - rdOff + size) % size) |-> ring'[(rdOff + i - 1) % size]]
          = Between(wrOff, rdOff, size, ring')
    BY <2>1, QueuedIsBetween
  <2> QED BY <2>2 DEF Queued
<1>3. \A i \in 1..n : i - 1 \in 0..(n - 1)
  BY <1>1
<1> QED BY <1>1, <1>2, <1>3 DEF Between, Capacity

(* The offset of writing moves over p cells that hold what was sent.       *)
LEMMA QueueGrows ==
  ASSUME RttInv, size # 0, UNCHANGED <<size, rdOff, got>>,
         NEW p \in Nat, Ahead(wrOff, rdOff, size) + p < size, wrOff' = Cell(wrOff, p, size),
         \A k \in 0..(Ahead(wrOff, rdOff, size) - 1) :
           ring'[Cell(rdOff, k, size)] = ring[Cell(rdOff, k, size)],
         \A k \in 0..(p - 1) : ring'[Cell(wrOff, k, size)] = sent + k + 1
  PROVE  Channel!Put(p)
<1> DEFINE n == Ahead(wrOff, rdOff, size)
           more == [i \in 1..p |-> Len(got) + Len(Queued) + i]
<1>1. /\ size \in Nat /\ size > 1 /\ wrOff \in 0..(size - 1) /\ rdOff \in 0..(size - 1)
      /\ n \in 0..(size - 1) /\ Queued = Between(wrOff, rdOff, size, ring)
      /\ Capacity = size - 1 /\ Queued \in Seq(Nat) /\ Len(Queued) = n
      /\ got \in Seq(Nat) /\ sent = Len(got) + Len(Queued)
  BY Prepared
<1>2. wrOff' \in 0..(size - 1) /\ Ahead(wrOff', rdOff, size) = n + p
  BY <1>1, RoomAhead
<1>3. Queued' = Between(wrOff', rdOff, size, ring')
  <2>1. [i \in 1..((wrOff' - rdOff + size) % size) |-> ring'[(rdOff + i - 1) % size]]
          = Between(wrOff', rdOff, size, ring')
    <3> DEFINE w == wrOff'
               cells == ring'
    <3>1. w \in 0..(size - 1)
      BY <1>2
    <3> HIDE DEF w, cells
    <3>2. [i \in 1..((w - rdOff + size) % size) |-> cells[(rdOff + i - 1) % size]]
            = Between(w, rdOff, size, cells)
      BY ONLY <1>1, <3>1, QueuedIsBetween
    <3> QED BY <3>2 DEF w, cells
  <2> QED BY <2>1 DEF Queued
<1>4. Queued' = [i \in 1..(n + p) |-> ring'[Cell(rdOff, i - 1, size)]]
  BY <1>2, <1>3 DEF Between
<1>5. more \in Seq(Nat) /\ Len(more) = p
  <2>1. \A i \in 1..p : Len(got) + Len(Queued) + i \in Nat
    BY <1>1
  <2> QED BY <2>1
<1>6. Queued \o more = [i \in 1..(n + p) |-> IF i <= n THEN Queued[i] ELSE more[i - n]]
  <2> HIDE DEF n, more
  <2>1. n \in Nat /\ Len(Queued) = n /\ Len(more) = p
        /\ Queued \in Seq(Nat) /\ more \in Seq(Nat)
    BY <1>1, <1>5
  <2> DEFINE y == Queued \o more
  <2>2. y \in Seq(Nat) /\ Len(y) = n + p
    BY <2>1, ConcatProperties
  <2>3. \A i \in 1..(n + p) : y[i] = IF i <= n THEN Queued[i] ELSE more[i - n]
    BY <2>1, ConcatProperties
  <2>4. y = [i \in 1..(n + p) |-> y[i]]
    <3> HIDE DEF y
    <3> QED BY ONLY <2>2
  <2> HIDE DEF y
  <2>5. y = [i \in 1..(n + p) |-> IF i <= n THEN Queued[i] ELSE more[i - n]]
    BY <2>3, <2>4
  <2> QED BY <2>5 DEF y
<1>7. ASSUME NEW i \in 1..(n + p), i <= n
      PROVE  Queued[i] = ring'[Cell(rdOff, i - 1, size)]
  <2>1. i \in 1..n /\ i - 1 \in 0..(n - 1)
    BY <1>1, <1>7
  <2>2. Queued[i] = ring[Cell(rdOff, i - 1, size)]
    BY <1>1, <2>1 DEF Between
  <2> QED BY <2>1, <2>2
<1>8. ASSUME NEW i \in 1..(n + p), ~ i <= n
      PROVE  more[i - n] = ring'[Cell(rdOff, i - 1, size)]
  <2> DEFINE k == i - n - 1
  <2>1. i \in Int /\ i > n /\ i <= n + p /\ n \in Nat
    BY <1>1, <1>8
  <2>2. k \in 0..(p - 1) /\ i - n \in 1..p /\ i - n = k + 1 /\ i - 1 = n + k /\ k \in Nat
    BY ONLY <2>1, p \in Nat
  <2>3. Cell(wrOff, k, size) = Cell(rdOff, i - 1, size)
    <3> HIDE DEF k
    <3>1. n + k < size
      <4>1. n \in Nat /\ Ahead(wrOff, rdOff, size) + p < size /\ size \in Nat /\ k \in 0..(p - 1)
        BY <1>1, <2>2
      <4> QED BY ONLY <4>1
    <3>2. Cell(wrOff, k, size) = Cell(rdOff, n + k, size)
      <4>1. /\ size \in Nat /\ wrOff \in 0..(size - 1) /\ rdOff \in 0..(size - 1) /\ k \in Nat
        BY <1>1, <2>2
      <4> QED BY ONLY <4>1, <3>1 DEF Ahead, Cell
    <3> QED BY <2>2, <3>2
  <2>4. more[i - n] = Len(got) + Len(Queued) + (k + 1)
    BY <2>2
  <2>5. ring'[Cell(wrOff, k, size)] = sent + k + 1
    BY <2>2
  <2> QED BY <1>1, <2>2, <2>3, <2>4, <2>5
<1>9. Queued' = Queued \o more
  <2> HIDE DEF more
  <2> QED BY <1>4, <1>6, <1>7, <1>8
<1>10. Len(Queued) + p <= Capacity /\ Capacity' = Capacity
  BY <1>1 DEF Capacity
<1> QED BY <1>9, <1>10 DEF Channel!Put, Capacity

(* The offset of reading moves over n of the cells.                        *)
LEMMA QueueShrinks ==
  ASSUME RttInv, size # 0, UNCHANGED <<size, ring, wrOff>>,
         NEW n \in 1..Ahead(wrOff, rdOff, size), rdOff' = Cell(rdOff, n, size),
         got' = got \o [i \in 1..n |-> ring[Cell(rdOff, i - 1, size)]]
  PROVE  n \in 1..RttTotal /\ Channel!Take(n)
<1> DEFINE m == Ahead(wrOff, rdOff, size)
<1>1. /\ size \in Nat /\ size > 1 /\ wrOff \in 0..(size - 1) /\ rdOff \in 0..(size - 1)
      /\ m \in 0..(size - 1) /\ Queued = Between(wrOff, rdOff, size, ring)
      /\ Queued \in Seq(Nat) /\ Len(Queued) = m
      /\ got \in Seq(Nat) /\ sent = Len(got) + Len(Queued) /\ sent <= RttTotal
  BY Prepared
<1>2. /\ n \in Nat /\ n >= 1 /\ n <= m /\ rdOff' \in 0..(size - 1)
      /\ Ahead(wrOff, rdOff', size) = m - n
  BY <1>1 DEF Ahead, Cell
<1>3. n \in 1..RttTotal
  BY <1>1, <1>2, RttAssumption
<1>4. Queued' = Between(wrOff, rdOff', size, ring)
  <2>1. [i \in 1..((wrOff - rdOff' + size) % size) |-> ring[(rdOff' + i - 1) % size]]
          = Between(wrOff, rdOff', size, ring)
    <3> DEFINE r == rdOff'
    <3>1. r \in 0..(size - 1)
      BY <1>2
    <3> HIDE DEF r
    <3>2. [i \in 1..((wrOff - r + size) % size) |-> ring[(r + i - 1) % size]]
            = Between(wrOff, r, size, ring)
      <4>1. size \in Nat /\ size > 1 /\ wrOff \in 0..(size - 1)
        BY <1>1
      <4> QED BY ONLY <3>1, <4>1, QueuedIsBetween
    <3> QED BY <3>2 DEF r
  <2> QED BY <2>1 DEF Queued
<1>5. \A i \in 1..m : Queued[i] = ring[Cell(rdOff, i - 1, size)]
  BY <1>1 DEF Between
<1>6. Queued' = SubSeq(Queued, n + 1, Len(Queued))
  <2>1. Queued' = [i \in 1..(m - n) |-> ring[Cell(rdOff', i - 1, size)]]
    BY <1>2, <1>4 DEF Between
  <2>2. SubSeq(Queued, n + 1, Len(Queued)) = [i \in 1..(m - n) |-> Queued[n + i]]
    <3> HIDE DEF m
    <3>1. Len(Queued) = m /\ m \in Nat /\ m - (n + 1) + 1 = m - n
      BY <1>1, <1>2
    <3>2. \A i \in 1..(m - n) : i + (n + 1) - 1 = n + i
      BY <1>2, <3>1
    <3> QED BY <3>1, <3>2 DEF SubSeq
  <2>3. ASSUME NEW i \in 1..(m - n)
        PROVE  Queued[n + i] = ring[Cell(rdOff', i - 1, size)]
    <3>1. n + i \in 1..m /\ i \in Nat /\ i >= 1 /\ n + i <= m
      BY <1>1, <1>2
    <3>2. Cell(rdOff, (n + i) - 1, size) = Cell(rdOff', i - 1, size)
      <4> HIDE DEF m
      <4> QED BY <1>1, <1>2, <3>1 DEF Cell
    <3> QED BY <1>5, <3>1, <3>2
  <2> QED BY <2>1, <2>2, <2>3
<1>7. SubSeq(Queued, 1, n) = [i \in 1..n |-> ring[Cell(rdOff, i - 1, size)]]
  <2>1. SubSeq(Queued, 1, n) = [i \in 1..n |-> Queued[i]]
    <3>1. n - 1 + 1 = n /\ \A i \in 1..n : i + 1 - 1 = i
      BY <1>2
    <3> QED BY <3>1 DEF SubSeq
  <2>2. \A i \in 1..n : i \in 1..m
    BY <1>1, <1>2
  <2> QED BY <1>5, <2>1, <2>2
<1> QED BY <1>1, <1>2, <1>3, <1>6, <1>7 DEF Channel!Take

-----------------------------------------------------------------------------
(* The steps of the queue                                                  *)

(* Nothing happens to the queue.                                           *)
Unqueued == UNCHANGED <<Capacity, Queued, got>>

(* The channel becomes ready.                                              *)
LEMMA PrepareIsReady == ASSUME RttInv, Prepare PROVE Channel!Ready
<1>1. size = 0 /\ size' \in Nat /\ size' > 1 /\ wrOff' = 0 /\ rdOff' = 0 /\ got' = got
  BY RttAssumption DEF Prepare, RttInv, RttTypes
<1>2. Queued' = <<>>
  <2> DEFINE s == size'
  <2>1. s \in Nat /\ s > 1
    BY <1>1
  <2> HIDE DEF s
  <2>2. s \in Nat \ {0} /\ 0 \in 0..(s - 1)
    BY ONLY <2>1
  <2>3. (0 - 0 + s) % s = 0
    BY ONLY <2>2, AheadIsLeft DEF Ahead
  <2>4. Queued' = [i \in 1..((0 - 0 + s) % s) |-> ring'[(0 + i - 1) % s]]
    BY <1>1, <2>1 DEF Queued, s
  <2>5. Queued' = [i \in 1..0 |-> ring'[(0 + i - 1) % s]]
    BY <2>3, <2>4
  <2> QED BY <2>5
<1>3. Queued = <<>>
  BY <1>1 DEF Queued
<1>4. (IF size = 0 THEN 0 ELSE size - 1) = 0 /\ (IF size' = 0 THEN 0 ELSE size' - 1) > 0
  <2> DEFINE s == size'
  <2>1. s \in Nat /\ s > 1 /\ s # 0
    BY <1>1
  <2> HIDE DEF s
  <2>2. s - 1 > 0
    BY ONLY <2>1
  <2> QED BY <1>1, <2>1, <2>2 DEF s
<1> QED BY <1>1, <1>2, <1>3, <1>4 DEF Channel!Ready

(* The target puts one byte.                                               *)
LEMMA TargetPutsIsPut ==
  ASSUME RttInv, TargetPuts
  PROVE  1 \in 1..RttTotal /\ Channel!Put(1)
<1> DEFINE n == Ahead(wrOff, rdOff, size)
<1>1. /\ size \in Nat /\ size > 1 /\ wrOff \in 0..(size - 1) /\ rdOff \in 0..(size - 1)
      /\ n \in 0..(size - 1) /\ size # 0 /\ ring \in [0..(size - 1) -> Nat]
  <2>1. size # 0
    BY DEF TargetPuts
  <2> QED BY <2>1, Prepared DEF RttInv, RttTypes
<1>2. /\ UNCHANGED <<size, rdOff, got>> /\ ring' = [ring EXCEPT ![wrOff] = sent + 1]
      /\ (wrOff + 1) % size # rdOff /\ wrOff' = (wrOff + 1) % size /\ sent < RttTotal
  BY DEF TargetPuts
<1>3. (wrOff + 1) % size = IF wrOff + 1 < size THEN wrOff + 1 ELSE 0
  BY <1>1, NextCell
<1>4. wrOff' = Cell(wrOff, 1, size) /\ n + 1 < size
  <2>1. /\ size \in Nat /\ size > 1 /\ wrOff \in Nat /\ rdOff \in Nat
        /\ wrOff < size /\ rdOff < size
        /\ wrOff' # rdOff /\ wrOff' = IF wrOff + 1 < size THEN wrOff + 1 ELSE 0
    BY <1>1, <1>2, <1>3
  <2>2. wrOff' = Cell(wrOff, 1, size)
    BY ONLY <2>1 DEF Cell
  <2>3. n + 1 < size
    BY ONLY <2>1 DEF Ahead
  <2> QED BY <2>2, <2>3
<1>5. ASSUME NEW k \in 0..(n - 1)
      PROVE  ring'[Cell(rdOff, k, size)] = ring[Cell(rdOff, k, size)]
  <2>1. Cell(wrOff, 0, size) # Cell(rdOff, k, size) /\ Cell(rdOff, k, size) \in 0..(size - 1)
    <3>1. 0 \in 0..(1 - 1) /\ 1 \in Nat /\ size \in Nat \ {0}
      BY <1>1
    <3> QED BY ONLY <1>1, <1>4, <1>5, <3>1, OtherCells
  <2>2. Cell(wrOff, 0, size) = wrOff
    BY <1>1 DEF Cell
  <2> QED BY <1>1, <1>2, <2>1, <2>2
<1>6. ASSUME NEW k \in 0..(1 - 1)
      PROVE  ring'[Cell(wrOff, k, size)] = sent + k + 1
  <2>1. k = 0 /\ Cell(wrOff, k, size) = wrOff /\ sent + 1 = sent + k + 1
    <3>1. k = 0 /\ sent \in Nat
      BY <1>1 DEF RttInv, RttTypes
    <3> QED BY <1>1, <3>1 DEF Cell
  <2> QED BY <1>1, <1>2, <2>1
<1>7. 1 \in 1..RttTotal
  BY <1>2, RttAssumption DEF RttInv, RttTypes
<1>8. Channel!Put(1)
  <2> HIDE DEF n
  <2> QED BY <1>1, <1>2, <1>4, <1>5, <1>6, QueueGrows DEF n
<1> QED BY <1>7, <1>8

(* The host puts what it has stored, which may be nothing.                 *)
LEMMA AnnounceIsPut ==
  ASSUME RttInv, Announce
  PROVE  Unqueued \/ (put \in 1..RttTotal /\ Channel!Put(put))
<1> DEFINE n == Ahead(wrOff, rdOff, size)
<1>1. /\ size \in Nat /\ size > 1 /\ size # 0 /\ wrOff \in 0..(size - 1) /\ rdOff \in 0..(size - 1)
      /\ n \in 0..(size - 1) /\ rttPc = "announce"
  <2>1. rttPc = "announce" /\ size # 0
    BY DEF Announce, RttInv, RttTypes
  <2> QED BY <2>1, Prepared
<1>2. /\ UNCHANGED <<size, ring, rdOff, got>> /\ wrOff' = offs.wr /\ sent' = sent + put
  BY DEF Announce
<1>3. /\ put \in Nat /\ put <= RttTotal
  <2>1. put \in Nat /\ left \in Nat /\ sent \in Nat /\ sent + put + left <= RttTotal
    BY DEF RttInv, RttTypes
  <2>2. RttTotal \in Nat
    BY RttAssumption
  <2> QED BY ONLY <2>1, <2>2
<1>4. /\ wrOff' = Cell(wrOff, put, size) /\ n + put < size
      /\ \A k \in 0..(put - 1) : ring[Cell(wrOff, k, size)] = sent + k + 1
  <2>1. /\ n <= Ahead(wrOff, offs.rd, size) /\ Ahead(wrOff, offs.rd, size) + put < size
        /\ wrOff' = Cell(wrOff, put, size)
        /\ \A k \in 0..(put - 1) : ring[Cell(wrOff, k, size)] = sent + k + 1
    BY <1>1, <1>2 DEF RttInv, WriteOk
  <2>2. offs.rd \in Nat
    BY DEF RttInv, RttTypes
  <2>3. Ahead(wrOff, offs.rd, size) \in Int
    BY <1>1, <2>2 DEF Ahead
  <2> HIDE DEF n
  <2>4. n + put < size
    BY ONLY <1>1, <1>3, <2>1, <2>3
  <2> QED BY <2>1, <2>4
<1>5. CASE put = 0
  <2>1. wrOff' = wrOff
    BY <1>1, <1>4, <1>5 DEF Cell
  <2> QED BY <1>1, <1>2, <2>1, QueueStays DEF Unqueued
<1>6. CASE put # 0
  <2>1. put \in 1..RttTotal
    BY <1>3, <1>6
  <2>2. Channel!Put(put)
    <3> HIDE DEF n
    <3> QED BY <1>1, <1>2, <1>3, <1>4, QueueGrows DEF n
  <2> QED BY <2>1, <2>2
<1> QED BY <1>5, <1>6

(* The target takes one byte.                                              *)
LEMMA TargetTakesIsTake ==
  ASSUME RttInv, TargetTakes
  PROVE  \E n \in 1..RttTotal : Channel!Take(n)
<1> DEFINE m == Ahead(wrOff, rdOff, size)
<1>1. /\ size \in Nat /\ size > 1 /\ size # 0 /\ wrOff \in 0..(size - 1) /\ rdOff \in 0..(size - 1)
      /\ ring \in [0..(size - 1) -> Nat] /\ got \in Seq(Nat)
  <2>1. size # 0
    BY DEF TargetTakes, RttInv, RttTypes
  <2> QED BY <2>1, Prepared DEF RttInv, RttTypes
<1>2. /\ UNCHANGED <<size, ring, wrOff>> /\ rdOff # wrOff /\ got' = Append(got, ring[rdOff])
      /\ rdOff' = (rdOff + 1) % size
  BY DEF TargetTakes
<1>3. (rdOff + 1) % size = IF rdOff + 1 < size THEN rdOff + 1 ELSE 0
  BY <1>1, NextCell
<1>4. 1 \in 1..m /\ rdOff' = Cell(rdOff, 1, size)
  BY <1>1, <1>2, <1>3 DEF Ahead, Cell
<1>5. got' = got \o [i \in 1..1 |-> ring[Cell(rdOff, i - 1, size)]]
  <2>1. ring[Cell(rdOff, 1 - 1, size)] = ring[rdOff] /\ ring[rdOff] \in Nat
    BY <1>1 DEF Cell
  <2>2. [i \in 1..1 |-> ring[Cell(rdOff, i - 1, size)]] = <<ring[rdOff]>>
    BY <2>1
  <2>3. got \o <<ring[rdOff]>> = Append(got, ring[rdOff])
    BY <1>1, <2>1, AppendIsConcat
  <2> QED BY <1>2, <2>2, <2>3
<1>6. 1 \in 1..RttTotal /\ Channel!Take(1)
  <2> HIDE DEF m
  <2> QED BY <1>1, <1>2, <1>4, <1>5, QueueShrinks DEF m
<1> QED BY <1>6

(* The host takes what it has read.                                        *)
LEMMA ReleaseReadIsTake ==
  ASSUME RttInv, ReleaseRead
  PROVE  \E n \in 1..RttTotal : Channel!Take(n)
<1> DEFINE m == Ahead(wrOff, rdOff, size)
           n == Ahead(offs.wr, rdOff, size)
<1>1. /\ size \in Nat /\ size > 1 /\ size # 0 /\ wrOff \in 0..(size - 1) /\ rdOff \in 0..(size - 1)
      /\ m \in 0..(size - 1) /\ rttPc = "release"
  <2>1. rttPc = "release" /\ size # 0
    BY DEF ReleaseRead, RttInv, RttTypes
  <2> QED BY <2>1, Prepared
<1>2. /\ UNCHANGED <<size, ring, wrOff>> /\ rdOff' = offs.wr /\ got' = got \o data
  BY DEF ReleaseRead
<1>3. /\ offs.wr # rdOff /\ n <= m /\ data = Between(offs.wr, rdOff, size, ring)
  BY <1>1 DEF RttInv, ReadOk
<1>4. offs.wr \in 0..(size - 1)
  <2>1. offs.wr \in Nat /\ offs.wr < size
    BY <1>1 DEF RttInv, RttTypes
  <2> QED BY <1>1, <2>1
<1>5. n \in 1..m /\ rdOff' = Cell(rdOff, n, size)
  BY <1>1, <1>2, <1>3, <1>4 DEF Ahead, Cell
<1>6. got' = got \o [i \in 1..n |-> ring[Cell(rdOff, i - 1, size)]]
  BY <1>2, <1>3 DEF Between
<1>7. n \in 1..RttTotal /\ Channel!Take(n)
  <2> HIDE DEF m, n
  <2> QED BY <1>1, <1>2, <1>5, <1>6, QueueShrinks DEF m
<1> QED BY <1>7

(* What is stored is not yet in the queue.                                 *)
LEMMA StoreIsUnseen ==
  ASSUME RttInv, WriteTop \/ WriteBottom
  PROVE  Unqueued
<1>1. PICK n : Fits(n) /\ Store(n)
  BY WriteTopInv, WriteBottomInv
<1>2. UNCHANGED <<size, wrOff, rdOff, sent, got>> /\ rttPc \in {"top", "bottom"}
  BY DEF WriteTop, WriteBottom
<1>3. size # 0
  BY <1>2 DEF RttInv, RttTypes
<1>4. \A k \in 0..(Ahead(wrOff, rdOff, size) - 1) :
        ring'[Cell(rdOff, k, size)] = ring[Cell(rdOff, k, size)]
  BY <1>1, <1>2, StoreAdds
<1> QED BY <1>2, <1>3, <1>4, QueueStays DEF Unqueued

(* Every step is one of the queue, or nothing to it.                       *)
LEMMA StepsAreQueued ==
  ASSUME RttInv, [RttNext]_rttVars
  PROVE  [Channel!Next]_<<Capacity, Queued, got>>
<1>1. CASE UNCHANGED rttVars
  BY <1>1 DEF rttVars, rttMemory, Capacity, Queued
<1>2. CASE ReadOffsets \/ ReadFirst \/ ReadSecond \/ CallWrite \/ WriteOffsets
  <2>1. UNCHANGED <<size, ring, wrOff, rdOff, got>>
    BY <1>2 DEF ReadOffsets, ReadFirst, ReadSecond, CallWrite, WriteOffsets, rttMemory
  <2> QED BY <2>1 DEF Capacity, Queued
<1>3. CASE WriteTop \/ WriteBottom
  BY <1>3, StoreIsUnseen DEF Unqueued
<1>4. CASE Prepare
  BY <1>4, PrepareIsReady DEF Channel!Next
<1>5. CASE TargetPuts
  BY <1>5, TargetPutsIsPut DEF Channel!Next
<1>6. CASE Announce
  BY <1>6, AnnounceIsPut DEF Channel!Next, Unqueued
<1>7. CASE TargetTakes
  BY <1>7, TargetTakesIsTake DEF Channel!Next
<1>8. CASE ReleaseRead
  BY <1>8, ReleaseReadIsTake DEF Channel!Next
<1> QED BY <1>1, <1>2, <1>3, <1>4, <1>5, <1>6, <1>7, <1>8 DEF RttNext, RttStep

(* What lies between the offsets of a channel of RTT is a queue of one     *)
(* byte less than its ring has, for every size of ring and any bytes sent: *)
(* none is lost, repeated or overwritten before it was read, however the   *)
(* steps of read() or write() in the host and of the target mix.           *)
THEOREM RttIsQueueAlways == RttSpec => RttIsQueue
<1>1. RttInit => Channel!Init
  BY DEF RttInit, Channel!Init, Queued
<1>2. RttInv /\ [RttNext]_rttVars => [Channel!Next]_<<Capacity, Queued, got>>
  BY StepsAreQueued
<1>3. RttSpec => Channel!Init /\ [][Channel!Next]_<<Capacity, Queued, got>>
  BY <1>1, <1>2, RttInitInv, RttStepInv, PTL DEF RttSpec
<1> QED BY <1>3 DEF RttIsQueue, Channel!Spec, Capacity

(* The rest of the types, before there is a ring.                          *)
RestTypes == blocking \in BOOLEAN /\ (size = 0 => ring = <<>>)

(* No step but Prepare changes the ring while there is none.               *)
LEMMA RestTypesStep == RttInv /\ RestTypes /\ [RttNext]_rttVars => RestTypes'
<1> SUFFICES ASSUME RttInv, RestTypes, [RttNext]_rttVars PROVE RestTypes'
  OBVIOUS
<1>1. blocking' \in BOOLEAN
  <2>1. CASE CallWrite
    BY <2>1 DEF CallWrite, RestTypes
  <2>2. CASE ~CallWrite
    <3>1. blocking' = blocking
      BY <2>2 DEF RttNext, RttStep, Prepare, TargetPuts, TargetTakes, ReadOffsets, ReadFirst,
           ReadSecond, ReleaseRead, WriteOffsets, WriteTop, WriteBottom, Announce, rttVars, rttHost
    <3> QED BY <3>1 DEF RestTypes
  <2> QED BY <2>1, <2>2
<1>2. size' = 0 => size = 0 /\ ring' = ring
  <2>1. CASE Prepare
    BY <2>1, RttAssumption DEF Prepare
  <2>2. CASE TargetPuts
    BY <2>2 DEF TargetPuts
  <2>3. CASE WriteTop \/ WriteBottom
    BY <2>3 DEF WriteTop, WriteBottom, RttInv, RttTypes
  <2>4. CASE ~(Prepare \/ TargetPuts \/ WriteTop \/ WriteBottom)
    BY <2>4 DEF RttNext, RttStep, TargetTakes, ReadOffsets, ReadFirst, ReadSecond, ReleaseRead,
         CallWrite, WriteOffsets, Announce, rttVars, rttMemory
  <2> QED BY <2>1, <2>2, <2>3, <2>4
<1> QED BY <1>1, <1>2 DEF RestTypes

(* The offsets lie in the ring, and no more bytes are sent than there are. *)
THEOREM RttTypeCorrect == RttSpec => []RttTypeOK
<1>1. RttInv /\ RestTypes => RttTypeOK
  <2> SUFFICES ASSUME RttInv, RestTypes PROVE RttTypeOK
    OBVIOUS
  <2>1. \A off \in {wrOff, rdOff, offs.wr, offs.rd} : off = 0 \/ off \in 0..(size - 1)
    <3>1. size \in Nat
      BY RingSizeIsNat DEF RttInv, RttTypes
    <3>2. CASE size = 0
      BY <3>2 DEF RttInv, RttTypes
    <3>3. CASE size # 0
      BY <3>1, <3>3 DEF RttInv, RttTypes
    <3> QED BY <3>2, <3>3
  <2>2. sent \in 0..RttTotal /\ left \in 0..RttTotal /\ put \in 0..RttTotal
    <3>1. sent \in Nat /\ left \in Nat /\ put \in Nat /\ sent + put + left <= RttTotal
      BY DEF RttInv, RttTypes
    <3>2. RttTotal \in Nat
      BY RttAssumption
    <3> QED BY ONLY <3>1, <3>2
  <2>3. rttPc \in {"idle", "first", "second", "release", "offsets", "top", "bottom", "announce"}
    BY DEF RttInv, RttTypes, Sides
  <2>4. size \in RingSizes \cup {0} /\ DOMAIN ring = 0..(size - 1) /\ blocking \in BOOLEAN
    <3>1. size = 0 => DOMAIN ring = 0..(size - 1)
      BY DEF RestTypes
    <3> QED BY <3>1 DEF RttInv, RttTypes, RestTypes
  <2> QED BY <2>1, <2>2, <2>3, <2>4 DEF RttTypeOK
<1>2. RttInit => RestTypes
  BY DEF RttInit, RestTypes
<1> QED BY <1>1, <1>2, RttInitInv, RttStepInv, RestTypesStep, PTL DEF RttSpec
=============================================================================
