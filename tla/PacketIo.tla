------------------------------- MODULE PacketIo -------------------------------
(***************************************************************************)
(* Packets between gdb and one session of the GDB server: the packet I/O   *)
(* thread, which reads the socket, checks packets, acks them and finds     *)
(* acks and Ctrl-C between them, and the session's thread, which takes     *)
(* commands from its queue and sends the replies.                          *)
(*                                                                         *)
(* A packet is two items of the stream, so that a read may end inside it.  *)
(* It is named by the number of its command.  gdb follows its protocol:    *)
(* one command at a time, acked and answered before the next.  The streams *)
(* may damage packets, but lose nothing.                                   *)
(***************************************************************************)
EXTENDS Integers, SequencesExt

CONSTANTS Scripts,  \* sequences of commands of gdb: "read", "noack", "continue"
          MaxDamage \* bound: packets damaged on the way

ASSUME PacketAssumption ==
  /\ Scripts \subseteq Seq({"read", "noack", "continue"})
  /\ MaxDamage \in Nat

VARIABLES
  script,
  toServer, toGdb,  \* the two directions of the socket
  damage,
  \* GDBServerPacketIOThread
  ioPc,             \* "read", or the next step of _process_data
  buffer,           \* _buffer
  received,         \* _receive_queue
  interruptEvent, sendAcks, clearSendAcks, expectingAck, lastPacket,
  \* the session's thread
  sesPc,
  handled,          \* the commands taken so far (history)
  \* gdb
  gdbPc,            \* "idle", or waits for an "ack" or a "reply"
  gdbAcks,          \* it acks packets
  asked,            \* it has sent a Ctrl-C for this command
  accepted          \* the replies taken so far (history)

pioFlags   == <<interruptEvent, sendAcks, clearSendAcks, expectingAck>>
pioThread  == <<ioPc, buffer, received, pioFlags, lastPacket>>
pioSession == <<sesPc, handled>>
pioGdb     == <<gdbPc, gdbAcks, asked, accepted>>
pioVars    == <<script, toServer, toGdb, damage, pioThread, pioSession, pioGdb>>

AckByte   == [is |-> "ack"]
NackByte  == [is |-> "nack"]
CtrlCByte == [is |-> "ctrl-c"]
Packet(n, good) == <<[is |-> "body", n |-> n], [is |-> "sum", good |-> good]>>
StartsWith(stream, kind) == stream # <<>> /\ Head(stream).is = kind

PioInit ==
  /\ script \in Scripts
  /\ toServer = <<>> /\ toGdb = <<>> /\ damage = 0
  /\ ioPc = "read" /\ buffer = <<>> /\ received = <<>>
  /\ interruptEvent = FALSE /\ sendAcks = TRUE /\ clearSendAcks = FALSE
  /\ expectingAck = FALSE /\ lastPacket = 0
  /\ sesPc = "top" /\ handled = <<>>
  /\ gdbPc = "idle" /\ gdbAcks = TRUE /\ asked = FALSE /\ accepted = <<>>

(* Only streams that may damage packets are used with acks.                *)
Arrives(good) ==
  \/ good /\ UNCHANGED damage
  \/ ~good /\ gdbAcks /\ damage < MaxDamage /\ damage' = damage + 1

-----------------------------------------------------------------------------
(* gdb.                                                                    *)

(* The command gdb is at.                                                  *)
At == Len(accepted) + (IF gdbPc = "idle" THEN 0 ELSE 1)

SendCommand ==
  /\ gdbPc = "idle" /\ At < Len(script)
  /\ \E good \in BOOLEAN :
       Arrives(good) /\ toServer' = toServer \o Packet(At + 1, good)
  /\ gdbPc' = IF gdbAcks THEN "ack" ELSE "reply"
  /\ asked' = FALSE
  /\ UNCHANGED <<script, toGdb, pioThread, pioSession, gdbAcks, accepted>>

GdbTakesAck ==
  /\ gdbPc = "ack" /\ StartsWith(toGdb, "ack")
  /\ gdbPc' = "reply" /\ toGdb' = Tail(toGdb)
  /\ UNCHANGED <<script, toServer, damage, pioThread, pioSession, gdbAcks, asked, accepted>>

GdbTakesNack ==
  /\ gdbPc = "ack" /\ StartsWith(toGdb, "nack")
  /\ toGdb' = Tail(toGdb)
  /\ \E good \in BOOLEAN :
       Arrives(good) /\ toServer' = toServer \o Packet(At, good)
  /\ UNCHANGED <<script, pioThread, pioSession, pioGdb>>

(* After QStartNoAckMode gdb acks this reply and no other packet; acks it  *)
(* still gets are ignored.                                                 *)
GdbTakesReply ==
  /\ gdbPc = "reply" /\ StartsWith(toGdb, "body")
  /\ toGdb' = SubSeq(toGdb, 3, Len(toGdb))
  /\ IF toGdb[2].good
       THEN /\ toServer' = IF gdbAcks THEN Append(toServer, AckByte) ELSE toServer
            /\ accepted' = Append(accepted, toGdb[1].n) /\ gdbPc' = "idle"
            /\ gdbAcks' = (gdbAcks /\ script[At] # "noack")
       ELSE /\ toServer' = Append(toServer, NackByte)
            /\ UNCHANGED <<accepted, gdbPc, gdbAcks>>
  /\ UNCHANGED <<script, damage, pioThread, pioSession, asked>>

GdbIgnoresAck ==
  /\ gdbPc = "reply" /\ StartsWith(toGdb, "ack")
  /\ toGdb' = Tail(toGdb)
  /\ UNCHANGED <<script, toServer, damage, pioThread, pioSession, pioGdb>>

(* The user interrupts the core, again when a Ctrl-C has come to nothing.  *)
Underway ==
  \/ interruptEvent
  \/ \E item \in Range(toServer) \cup Range(buffer) : item.is = "ctrl-c"

SendCtrlC ==
  /\ gdbPc = "reply" /\ script[At] = "continue" /\ ~Underway
  /\ toServer' = Append(toServer, CtrlCByte) /\ asked' = TRUE
  /\ UNCHANGED <<script, toGdb, damage, pioThread, pioSession, gdbPc, gdbAcks, accepted>>

-----------------------------------------------------------------------------
(* The packet I/O thread: run().                                           *)

Read ==
  /\ ioPc = "read" /\ toServer # <<>>
  /\ \E n \in 1..Len(toServer) :
       /\ buffer' = buffer \o SubSeq(toServer, 1, n)
       /\ toServer' = SubSeq(toServer, n + 1, Len(toServer))
  /\ ioPc' = "ack"
  /\ UNCHANGED <<script, toGdb, damage, received, pioFlags, lastPacket, pioSession, pioGdb>>

(* The read times out, and what is in the buffer is looked at again.       *)
ReadTimesOut ==
  /\ ioPc = "read" /\ toServer = <<>> /\ buffer # <<>>
  /\ ioPc' = "ack"
  /\ UNCHANGED <<script, toServer, toGdb, damage, buffer, received, pioFlags, lastPacket,
                 pioSession, pioGdb>>

(* _check_expected_ack: whatever comes first, it is expected no more.      *)
(* Mutant: an ack is still expected until it comes, and a Ctrl-C with it   *)
(* is taken for garbage.                                                   *)
CheckAck_DropsOther ==
  /\ ioPc = "ack" /\ expectingAck /\ ~StartsWith(buffer, "nack")
  /\ buffer' = Tail(buffer)
  /\ expectingAck' = FALSE
  /\ sendAcks' = (sendAcks /\ ~clearSendAcks) /\ clearSendAcks' = FALSE
  /\ ioPc' = "ctrl-c"
  /\ UNCHANGED <<script, toServer, toGdb, damage, received, interruptEvent, lastPacket,
                 pioSession, pioGdb>>

CheckAck ==
  /\ ioPc = "ack" /\ expectingAck /\ ~StartsWith(buffer, "nack")
  /\ expectingAck' = FALSE
  /\ IF StartsWith(buffer, "ack")
       THEN /\ buffer' = Tail(buffer)
            /\ sendAcks' = (sendAcks /\ ~clearSendAcks) /\ clearSendAcks' = FALSE
       ELSE UNCHANGED <<buffer, sendAcks, clearSendAcks>>
  /\ ioPc' = "ctrl-c"
  /\ UNCHANGED <<script, toServer, toGdb, damage, received, interruptEvent, lastPacket,
                 pioSession, pioGdb>>

Resend ==
  /\ ioPc = "ack" /\ expectingAck /\ StartsWith(buffer, "nack")
  /\ buffer' = Tail(buffer)
  /\ \E good \in BOOLEAN :
       Arrives(good) /\ toGdb' = toGdb \o Packet(lastPacket, good)
  /\ expectingAck' = sendAcks
  /\ ioPc' = "ctrl-c"
  /\ UNCHANGED <<script, toServer, received, interruptEvent, sendAcks, clearSendAcks,
                 lastPacket, pioSession, pioGdb>>

NoAckExpected ==
  /\ ioPc = "ack" /\ ~expectingAck
  /\ ioPc' = "ctrl-c"
  /\ UNCHANGED <<script, toServer, toGdb, damage, buffer, received, pioFlags, lastPacket,
                 pioSession, pioGdb>>

(* Only at the start of the buffer.                                        *)
FindCtrlC ==
  /\ ioPc = "ctrl-c"
  /\ IF StartsWith(buffer, "ctrl-c")
       THEN buffer' = Tail(buffer) /\ interruptEvent' = TRUE
       ELSE UNCHANGED <<buffer, interruptEvent>>
  /\ ioPc' = "packet"
  /\ UNCHANGED <<script, toServer, toGdb, damage, received, sendAcks, clearSendAcks,
                 expectingAck, lastPacket, pioSession, pioGdb>>

Begin == SelectInSeq(buffer, LAMBDA item : item.is = "body")
End   == SelectInSeq(buffer, LAMBDA item : item.is = "sum")
After(i) == SubSeq(buffer, i + 1, Len(buffer))

(* Mutant: a damaged packet is passed on.                                  *)
FindPacket_AnySum ==
  /\ ioPc = "packet" /\ Begin # 0 /\ End # 0
  /\ buffer' = After(End)
  /\ received' = Append(received, buffer[Begin].n)
  /\ toGdb' = IF sendAcks THEN Append(toGdb, IF buffer[End].good THEN AckByte ELSE NackByte)
              ELSE toGdb
  /\ ioPc' = IF buffer' = <<>> THEN "read" ELSE "ack"
  /\ UNCHANGED <<script, toServer, damage, pioFlags, lastPacket, pioSession, pioGdb>>

(* What precedes the packet is dropped with it.                            *)
FindPacket ==
  /\ ioPc = "packet" /\ Begin # 0 /\ End # 0
  /\ buffer' = After(End)
  /\ received' = IF buffer[End].good THEN Append(received, buffer[Begin].n) ELSE received
  /\ toGdb' = IF sendAcks THEN Append(toGdb, IF buffer[End].good THEN AckByte ELSE NackByte)
              ELSE toGdb
  /\ ioPc' = IF buffer' = <<>> THEN "read" ELSE "ack"
  /\ UNCHANGED <<script, toServer, damage, pioFlags, lastPacket, pioSession, pioGdb>>

NoPacket ==
  /\ ioPc = "packet" /\ (Begin = 0 \/ End = 0)
  /\ ioPc' = "read"
  /\ UNCHANGED <<script, toServer, toGdb, damage, buffer, received, pioFlags, lastPacket,
                 pioSession, pioGdb>>

-----------------------------------------------------------------------------
(* The session's thread, as far as it uses packets.                        *)

(* A Ctrl-C found at the top of the loop is ignored.                       *)
LoopTop ==
  /\ sesPc = "top"
  /\ sesPc' = "receive" /\ interruptEvent' = FALSE
  /\ UNCHANGED <<script, toServer, toGdb, damage, ioPc, buffer, received, sendAcks,
                 clearSendAcks, expectingAck, lastPacket, handled, pioGdb>>

TakeCommand ==
  /\ sesPc = "receive" /\ received # <<>>
  /\ received' = Tail(received) /\ handled' = Append(handled, Head(received))
  /\ LET command == script[Head(received)]
     IN /\ sesPc' = IF command = "continue" THEN "running" ELSE "reply"
        /\ clearSendAcks' = (clearSendAcks \/ command = "noack")
  /\ UNCHANGED <<script, toServer, toGdb, damage, ioPc, buffer, interruptEvent, sendAcks,
                 expectingAck, lastPacket, pioGdb>>

StopOnCtrlC ==
  /\ sesPc = "running" /\ interruptEvent
  /\ sesPc' = "reply" /\ interruptEvent' = FALSE
  /\ UNCHANGED <<script, toServer, toGdb, damage, ioPc, buffer, received, sendAcks,
                 clearSendAcks, expectingAck, lastPacket, handled, pioGdb>>

(* The core stops by itself.                                               *)
CoreStopsItself ==
  /\ sesPc = "running" /\ sesPc' = "reply"
  /\ UNCHANGED <<script, toServer, toGdb, damage, pioThread, handled, pioGdb>>

(* send(): an ack is expected only once the packet is written.             *)
SendReply ==
  /\ sesPc = "reply"
  /\ lastPacket' = Last(handled)
  /\ \E good \in BOOLEAN :
       Arrives(good) /\ toGdb' = toGdb \o Packet(Last(handled), good)
  /\ sesPc' = "sent"
  /\ UNCHANGED <<script, toServer, ioPc, buffer, received, pioFlags, handled, pioGdb>>

ExpectAck ==
  /\ sesPc = "sent"
  /\ expectingAck' = (expectingAck \/ sendAcks)
  /\ sesPc' = "top"
  /\ UNCHANGED <<script, toServer, toGdb, damage, ioPc, buffer, received, interruptEvent,
                 sendAcks, clearSendAcks, lastPacket, handled, pioGdb>>

-----------------------------------------------------------------------------
GdbStep  == SendCommand \/ GdbTakesAck \/ GdbTakesNack \/ GdbTakesReply \/ GdbIgnoresAck
IoStep   == \/ Read \/ ReadTimesOut \/ CheckAck \/ Resend \/ NoAckExpected
            \/ FindCtrlC \/ FindPacket \/ NoPacket
SesStep  == LoopTop \/ TakeCommand \/ StopOnCtrlC \/ SendReply \/ ExpectAck
PioNext  == GdbStep \/ SendCtrlC \/ IoStep \/ SesStep \/ CoreStopsItself

(* The threads, gdb and its user go on; the core need not stop by itself.  *)
PioFairness ==
  /\ WF_pioVars(GdbStep) /\ WF_pioVars(SendCtrlC)
  /\ WF_pioVars(IoStep) /\ WF_pioVars(SesStep)

PioSpec == PioInit /\ [][PioNext]_pioVars /\ PioFairness

-----------------------------------------------------------------------------
(* Properties                                                              *)

PioTypeOK ==
  /\ ioPc \in {"read", "ack", "ctrl-c", "packet"}
  /\ sesPc \in {"top", "receive", "running", "reply", "sent"}
  /\ gdbPc \in {"idle", "ack", "reply"}
  /\ received \in Seq(Nat) /\ lastPacket \in 0..Len(script) /\ damage \in 0..MaxDamage
  /\ \A b \in {interruptEvent, sendAcks, clearSendAcks, expectingAck, gdbAcks, asked} :
       b \in BOOLEAN

(* Each command is handled once, and its reply is the one gdb takes for    *)
(* it, however packets are split, damaged and sent again, and whenever     *)
(* acks, turned off or not, are noticed.                                   *)
InStep ==
  /\ \A i \in DOMAIN handled : handled[i] = i
  /\ \A i \in DOMAIN accepted : accepted[i] = i

(* _check_expected_ack gives the ack up when a Ctrl-C comes first; if the  *)
(* packet was damaged, its nack then stays in the buffer for good.         *)
NackMissed ==
  asked /\ StartsWith(buffer, "nack") /\ ~expectingAck /\ sesPc # "sent"

(* Every command is answered, however its packet and its reply are split   *)
(* and damaged and a Ctrl-C is dropped because it comes before its         *)
(* continue is handled; except that a damaged stop reply which crosses a   *)
(* Ctrl-C is never sent again.                                             *)
PacketsAnswered == gdbPc # "idle" ~> gdbPc = "idle" \/ NackMissed
=============================================================================
