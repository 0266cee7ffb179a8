----------------------------- MODULE DapPipeline -----------------------------
(***************************************************************************)
(* The deferred transfers of a CMSIS-DAP probe: DAPAccessCMSISDAP packs    *)
(* register accesses into DAP_Transfer and DAP_TransferBlock packets,      *)
(* keeps several packets in flight, and matches the words of the replies   *)
(* to the _Transfer objects that wait for them.                            *)
(*                                                                         *)
(* Methods marked @locked run under an RLock; a method that exchanges      *)
(* packets takes one step per packet.  get_result() reads the queues       *)
(* without the lock, so its checks are steps of their own.  The probe      *)
(* executes packets in order; a reply waits in its buffer until it is      *)
(* read.  A word accessed in the target is named by the number of its      *)
(* access and its place in it.                                             *)
(***************************************************************************)
EXTENDS Integers, Sequences, FiniteSets, SequencesExt

CONSTANTS Threads,     \* threads that share the probe
          Reads,       \* read requests (an AP or DP register, one byte)
          Writes,      \* write requests
          NoReq,       \* no request in the command yet
          PacketCount, \* packets the probe can buffer
          MaxCount,    \* most transfers of a DAP_Transfer packet (255)
          Sessions,    \* what a behaviour may choose from, see below
          MaxCalls     \* bound: operations called

(* A session says which threads use the probe, the words of their accesses,*)
(* the bytes of a packet, the other operations, the faults that happen     *)
(* ("ack": a transfer fails in the target; "read", "write": the USB        *)
(* interface raises) and the bound on their number.                        *)
FaultKinds == {"ack", "read", "write"}

ASSUME PipelineAssumption ==
  /\ Reads \cap Writes = {} /\ NoReq \notin Reads \cup Writes \cup Threads
  /\ PacketCount \in Nat \ {0} /\ MaxCount \in Nat \ {0}
  /\ MaxCalls \in Nat
  /\ \A s \in Sessions :
       /\ s.threads \subseteq Threads /\ s.counts \subseteq Nat \ {0}
       /\ s.packetSize \in Nat /\ s.packetSize >= 9
       /\ s.faultKinds \subseteq FaultKinds /\ s.maxFaults \in Nat

VARIABLES session,      \* chosen at the start
          calls,        \* operations called, [kind, count]
          result,       \* of each: posted, pending, error or done, and words
          answer,       \* what its caller got
          transferList, \* _transfer_list, by number
          crntCmd,      \* _crnt_cmd
          toRead,       \* _commands_to_read
          responseBuf,  \* _command_response_buf
          deferred,     \* _deferred_transfer
          isOpen,       \* _is_open
          replies,      \* replies in the probe's buffer
          executed,     \* words accessed in the target (history)
          lock,         \* the thread that holds the RLock, or NoReq
          pc,           \* where each thread is
          job,          \* what it works on: [id, left, after]
          faults        \* of each kind so far

buffers == <<transferList, crntCmd, toRead, responseBuf>>
probe   == <<replies, executed>>
history == <<calls, result, answer>>
modes   == <<deferred, isOpen>>
vars    == <<session, calls, result, answer, transferList, crntCmd, toRead, responseBuf,
             deferred, isOpen, replies, executed, lock, pc, job, faults>>

Smaller(a, b) == IF a < b THEN a ELSE b
Larger(a, b)  == IF a > b THEN a ELSE b

-----------------------------------------------------------------------------
(* _Command                                                                *)

NewCommand(size) ==
  [size |-> size, rc |-> 0, wc |-> 0, block |-> TRUE, req |-> NoReq, data |-> <<>>]

IsEmpty(cmd) == cmd.data = <<>>

(* Mutant: reads that join a packet ignore the bytes of its writes.        *)
FreeTransfers_IgnoresWrites(cmd, block, isRead) ==
  IF block
    THEN IF isRead THEN (cmd.size - 4 - 4 * cmd.rc) \div 4
                   ELSE (cmd.size - 5 - 4 * cmd.wc) \div 4
    ELSE LET recv == cmd.size - 3 - 4 * cmd.rc
         IN IF isRead THEN recv \div 4
                      ELSE (cmd.size - 3 - cmd.rc - 5 * cmd.wc) \div 5

(* _get_free_transfers                                                     *)
FreeTransfers(cmd, block, isRead) ==
  IF block
    THEN IF isRead THEN (cmd.size - 4 - 4 * cmd.rc) \div 4
                   ELSE (cmd.size - 5 - 4 * cmd.wc) \div 4
    ELSE LET send == cmd.size - 3 - cmd.rc - 5 * cmd.wc
             recv == cmd.size - 3 - 4 * cmd.rc
         IN IF isRead THEN Smaller(send, recv \div 4) ELSE send \div 5

(* get_request_space: a block stays one only if the request is the same,   *)
(* and the count of a DAP_Transfer is one byte.                            *)
BlockAllowed(cmd, req) == cmd.block /\ (cmd.req = NoReq \/ req = cmd.req)

RequestSpace(cmd, count, req) ==
  LET block == BlockAllowed(cmd, req)
      size  == Smaller(count, FreeTransfers(cmd, block, req \in Reads))
      byte  == MaxCount - cmd.wc - cmd.rc
  IN Larger(IF block THEN size ELSE Smaller(size, byte), 0)

IsFull(cmd) == \/ FreeTransfers(cmd, cmd.block, TRUE) = 0
               \/ FreeTransfers(cmd, cmd.block, FALSE) = 0

(* Mutant: each part takes the first words of the access again.            *)
AddTo_FromStart(cmd, id, first, n, req) ==
  [size  |-> cmd.size,
   rc    |-> IF req \in Reads THEN cmd.rc + n ELSE cmd.rc,
   wc    |-> IF req \in Reads THEN cmd.wc ELSE cmd.wc + n,
   block |-> BlockAllowed(cmd, req),
   req   |-> IF cmd.req = NoReq THEN req ELSE cmd.req,
   data  |-> cmd.data \o [i \in 1..n |-> <<id, i>>]]

(* add: words first + 1 to first + n of an access join the packet.         *)
AddTo(cmd, id, first, n, req) ==
  [size  |-> cmd.size,
   rc    |-> IF req \in Reads THEN cmd.rc + n ELSE cmd.rc,
   wc    |-> IF req \in Reads THEN cmd.wc ELSE cmd.wc + n,
   block |-> BlockAllowed(cmd, req),
   req   |-> IF cmd.req = NoReq THEN req ELSE cmd.req,
   data  |-> cmd.data \o [i \in 1..n |-> <<id, first + i>>]]

(* The bytes of the encoded packet and of the reply.                       *)
EncodedSize(cmd) == IF cmd.block THEN 5 + 4 * cmd.wc ELSE 3 + cmd.rc + 5 * cmd.wc
ReplySize(cmd)   == (IF cmd.block THEN 4 ELSE 3) + 4 * cmd.rc

-----------------------------------------------------------------------------
(* What the target answers: a word for each that is read.                  *)
IsRead(word) == calls[word[1]].kind \in Reads
ReadWords(data) ==
  FlattenSeq([i \in DOMAIN data |-> IF IsRead(data[i]) THEN <<data[i]>> ELSE <<>>])

(* The words of an access after the first n, and those that the first n    *)
(* transfers wait for.                                                     *)
WordsAfter(id, n) == [i \in 1..(calls[id].count - n) |-> <<id, n + i>>]
Wanted(n) == FlattenSeq([i \in 1..n |-> WordsAfter(transferList[i], 0)])

Init ==
  /\ session \in Sessions
  /\ calls = <<>> /\ result = <<>> /\ answer = <<>>
  /\ transferList = <<>> /\ toRead = <<>> /\ responseBuf = <<>>
  /\ crntCmd = NewCommand(session.packetSize)
  /\ deferred \in BOOLEAN /\ isOpen = TRUE
  /\ replies = <<>> /\ executed = <<>>
  /\ lock = NoReq
  /\ pc = [t \in Threads |-> "idle"]
  /\ job = [t \in Threads |-> [id |-> 0, left |-> 0, after |-> "fill"]]
  /\ faults = [kind \in FaultKinds |-> 0]

NoWords(state) == [state |-> state, words |-> <<>>]
Goto(t, label) == pc' = [pc EXCEPT ![t] = label]

TotalFaults == FoldFunction(LAMBDA n, sum : n + sum, 0, faults)
Fail(kind) ==
  /\ kind \in session.faultKinds /\ TotalFaults < session.maxFaults
  /\ faults' = [faults EXCEPT ![kind] = @ + 1]

(* A thread returns from an operation, or goes on with get_result().       *)
Answer(id, what) == answer' = [answer EXCEPT ![id] = what]

(* Calling an operation.  The probe layer above uses an open probe only.   *)
Call(t, kind, count, outcome) ==
  /\ pc[t] = "idle" /\ Len(calls) < MaxCalls
  /\ calls' = Append(calls, [kind |-> kind, count |-> count])
  /\ result' = Append(result, NoWords(outcome))
  /\ answer' = Append(answer, "none")

(* _write(), for write_reg, read_reg and their repeated forms.  A deferred *)
(* read ("later") leaves a callback to the caller.                         *)
BeginWrite(t, req, count) ==
  /\ lock = NoReq /\ isOpen
  /\ Call(t, req, count, "posted")
  /\ lock' = t /\ Goto(t, "fill")
  /\ job' = [job EXCEPT ![t] = [id |-> Len(calls) + 1, left |-> count,
                                after |-> "idle"]]
  /\ UNCHANGED <<buffers, modes, probe, faults>>

BeginRead(t, req, count, now) ==
  /\ lock = NoReq /\ isOpen
  /\ Call(t, req, count, "pending")
  /\ transferList' = Append(transferList, Len(calls) + 1)
  /\ lock' = t /\ Goto(t, "fill")
  /\ job' = [job EXCEPT ![t] = [id |-> Len(calls) + 1, left |-> count,
                                after |-> IF now THEN "check" ELSE "idle"]]
  /\ UNCHANGED <<crntCmd, toRead, responseBuf, modes, probe, faults>>

(* Mutant: a packet is only sent when it is exactly full.                  *)
NoRoom_Never(space) == FALSE
NoRoom(space) == space = 0

(* One round of the loop in _write(): the part that fits joins the packet, *)
(* which is sent when it is full or nothing fits.                          *)
Fill(t) ==
  /\ pc[t] = "fill" /\ job[t].left > 0
  /\ LET call  == calls[job[t].id]
         space == RequestSpace(crntCmd, job[t].left, call.kind)
         cmd   == AddTo(crntCmd, job[t].id, call.count - job[t].left, space, call.kind)
     IN IF NoRoom(space)
          THEN Goto(t, "send") /\ UNCHANGED <<crntCmd, job>>
          ELSE /\ crntCmd' = cmd
               /\ job' = [job EXCEPT ![t].left = @ - space]
               /\ Goto(t, IF IsFull(cmd) THEN "send" ELSE "fill")
  /\ UNCHANGED <<history, transferList, toRead, responseBuf, modes, probe, lock, faults>>

(* The locked method returns, or the flush that it ends with begins.       *)
FillEnd(t) ==
  /\ pc[t] = "fill" /\ job[t].left = 0
  /\ IF deferred THEN Goto(t, job[t].after) /\ lock' = NoReq
                 ELSE Goto(t, "flush") /\ UNCHANGED lock
  /\ UNCHANGED <<history, buffers, modes, probe, job, faults>>

-----------------------------------------------------------------------------
(* Errors.  An exception leaves the locked method and the operation.       *)

Raise(t) ==
  /\ Goto(t, "idle")
  /\ lock' = NoReq
  /\ Answer(job[t].id, "error")
  /\ UNCHANGED <<calls, modes, job>>

(* _abort_all_transfers                                                    *)
Abort ==
  /\ result' = [r \in DOMAIN result |->
                  IF \E i \in DOMAIN transferList : transferList[i] = r
                    THEN NoWords("error") ELSE result[r]]
  /\ transferList' = <<>> /\ toRead' = <<>> /\ responseBuf' = <<>>
  /\ crntCmd' = NewCommand(session.packetSize)

(* Mutant: the replies of the other packets stay in the buffer.            *)
Drained_KeepsOthers(n) == SubSeq(replies, 2, Len(replies))

(* After a transfer error the replies of the other packets are read and    *)
(* ignored, unless reading one raises.                                     *)
Drained(n) == SubSeq(replies, n + 2, Len(replies))

(* A packet is executed up to a transfer that fails, if any.               *)
Execute(cmd, n) ==
  /\ executed' = executed \o SubSeq(cmd.data, 1, n)
  /\ replies' = Append(replies,
       [block |-> cmd.block, ok |-> n = Len(cmd.data), count |-> Len(cmd.data),
        words |-> ReadWords(SubSeq(cmd.data, 1, n))])

(* _read_packet, when the reply decodes: its words go to the transfers     *)
(* that wait for them, first come first served.                            *)
Decodes(cmd, reply) ==
  reply.block = cmd.block /\ reply.ok /\ reply.count = cmd.rc + cmd.wc

Needed(n) == Len(Wanted(n))

Buffered == responseBuf \o SubSeq(Head(replies).words, 1,
                                  Smaller(Head(toRead).rc, Len(Head(replies).words)))
Served == LET full == {n \in 0..Len(transferList) : Needed(n) <= Len(Buffered)}
          IN CHOOSE n \in full : \A m \in full : m <= n

(* Mutant: the words left over after the last complete transfer are lost.  *)
Rest_Dropped == <<>>
Rest == SubSeq(Buffered, Needed(Served) + 1, Len(Buffered))

ReadPacket ==
  /\ toRead # <<>> /\ replies # <<>>
  /\ Decodes(Head(toRead), Head(replies))
  /\ toRead' = Tail(toRead) /\ replies' = Tail(replies)
  /\ result' = [r \in DOMAIN result |->
       IF \E n \in 1..Served : transferList[n] = r
         THEN LET n == CHOOSE n \in 1..Served : transferList[n] = r
              IN [state |-> "done",
                  words |-> SubSeq(Buffered, Needed(n - 1) + 1, Needed(n))]
         ELSE result[r]]
  /\ transferList' = SubSeq(transferList, Served + 1, Len(transferList))
  /\ responseBuf' = Rest
  /\ UNCHANGED <<calls, answer, crntCmd, modes, executed, faults>>

(* ... when it does not decode, a TransferError.                           *)
ReadPacketBad ==
  /\ toRead # <<>> /\ replies # <<>>
  /\ ~Decodes(Head(toRead), Head(replies))
  /\ Abort
  /\ \/ replies' = Drained(Len(toRead) - 1) /\ UNCHANGED faults
     \/ \E n \in 0..(Len(toRead) - 2) : Fail("read") /\ replies' = Drained(n)
  /\ UNCHANGED executed

(* ... when reading raises: the reply is late, or never comes.             *)
ReadPacketRaises ==
  /\ toRead # <<>> /\ replies # <<>>
  /\ Fail("read") /\ replies' \in {replies, Tail(replies)}
  /\ Abort
  /\ UNCHANGED executed

(* _send_packet, once there is room in the probe.                          *)
SendPacket ==
  /\ \E n \in 0..Len(crntCmd.data) :
       /\ Execute(crntCmd, n)
       /\ IF n = Len(crntCmd.data) THEN UNCHANGED faults ELSE Fail("ack")
  /\ toRead' = Append(toRead, crntCmd)
  /\ crntCmd' = NewCommand(session.packetSize)
  /\ UNCHANGED <<history, transferList, responseBuf, modes>>

(* ... when the write raises, before or after the packet is out.           *)
SendPacketRaises ==
  /\ Fail("write")
  /\ UNCHANGED probe \/ Execute(crntCmd, Len(crntCmd.data))
  /\ Abort

-----------------------------------------------------------------------------
(* A thread that holds the lock sends the current packet: from _write()    *)
(* ("send") or from flush() ("flush"), which then reads all replies.       *)

Sending(t) == pc[t] \in {"send", "flush"} /\ ~IsEmpty(crntCmd)
AfterSend(t) == IF pc[t] = "send" THEN "fill" ELSE "drain"
NeedsRoom == Len(toRead) >= PacketCount

(* Mutant: the current packet is not sent by a flush.                      *)
SendNothing_Always(t) ==
  /\ pc[t] \in {"send", "flush"} /\ (pc[t] = "flush" \/ IsEmpty(crntCmd))
  /\ Goto(t, AfterSend(t))
  /\ UNCHANGED <<history, buffers, modes, probe, lock, job, faults>>

SendNothing(t) ==
  /\ pc[t] \in {"send", "flush"} /\ IsEmpty(crntCmd)
  /\ Goto(t, AfterSend(t))
  /\ UNCHANGED <<history, buffers, modes, probe, lock, job, faults>>

MakeRoom(t) ==
  /\ Sending(t) /\ NeedsRoom
  /\ \/ ReadPacket /\ UNCHANGED <<pc, lock, job>>
     \/ (ReadPacketBad \/ ReadPacketRaises) /\ Raise(t)

Send(t) ==
  /\ Sending(t) /\ ~NeedsRoom
  /\ \/ SendPacket /\ Goto(t, AfterSend(t)) /\ UNCHANGED <<lock, job>>
     \/ SendPacketRaises /\ Raise(t)

Drain(t) ==
  /\ pc[t] = "drain" /\ toRead # <<>>
  /\ \/ ReadPacket /\ UNCHANGED <<pc, lock, job>>
     \/ (ReadPacketBad \/ ReadPacketRaises) /\ Raise(t)

(* The end of flush().                                                     *)
DrainEnd(t) ==
  /\ pc[t] = "drain" /\ toRead = <<>>
  /\ Goto(t, job[t].after)
  /\ lock' = IF job[t].after \in {"exchange", "close"} THEN t ELSE NoReq
  /\ UNCHANGED <<history, buffers, modes, probe, job, faults>>

-----------------------------------------------------------------------------
(* get_result(), called by read_reg with now or by the callback later.     *)

Callback(t, id) ==
  /\ pc[t] = "idle" /\ calls[id].kind \in Reads /\ answer[id] = "none"
  /\ \A u \in Threads : pc[u] = "idle" \/ job[u].id # id
  /\ Goto(t, "check")
  /\ job' = [job EXCEPT ![t] = [id |-> id, left |-> 0, after |-> "check"]]
  /\ UNCHANGED <<history, buffers, modes, probe, lock, faults>>

HasResult(id) == result[id].state = "done"

(* The loop looks at the result and the queue ...                          *)
Check(t) ==
  /\ pc[t] = "check"
  /\ IF HasResult(job[t].id)
       THEN Answer(job[t].id, "value") /\ Goto(t, "idle")
       ELSE /\ Goto(t, IF toRead # <<>> THEN "read" ELSE "assert")
            /\ UNCHANGED answer
  /\ UNCHANGED <<calls, result, buffers, modes, probe, lock, job, faults>>

(* ... then, if the queue was empty, asserts that there is a packet to     *)
(* send and flushes, ...                                                   *)
CheckCurrent(t) ==
  /\ pc[t] = "assert"
  /\ IF IsEmpty(crntCmd)
       THEN Answer(job[t].id, "assertion") /\ Goto(t, "idle")
       ELSE Goto(t, "enter") /\ UNCHANGED answer
  /\ UNCHANGED <<calls, result, buffers, modes, probe, lock, job, faults>>

GetFlush(t) ==
  /\ pc[t] = "enter" /\ lock = NoReq
  /\ lock' = t /\ Goto(t, "flush")
  /\ UNCHANGED <<history, buffers, modes, probe, job, faults>>

(* ... else reads one packet.                                              *)
GetRead(t) ==
  /\ pc[t] = "read" /\ lock = NoReq
  /\ \/ /\ toRead = <<>>   \* popleft() from an empty deque
        /\ Answer(job[t].id, "index") /\ Goto(t, "idle")
        /\ UNCHANGED <<calls, result, buffers, modes, probe, lock, job, faults>>
     \/ ReadPacket /\ Goto(t, "check") /\ UNCHANGED <<lock, job>>
     \/ (ReadPacketBad \/ ReadPacketRaises) /\ Raise(t)

-----------------------------------------------------------------------------
(* The other operations: flush() and then, for most, an exchange of one    *)
(* command of its own (pins, clock, sequences, info, SWO, vendor).         *)

Begin(t, kind, after) ==
  /\ kind \in session.ops /\ lock = NoReq /\ isOpen
  /\ Call(t, kind, 0, "posted")
  /\ lock' = t /\ Goto(t, "flush")
  /\ job' = [job EXCEPT ![t] = [id |-> Len(calls) + 1, left |-> 0, after |-> after]]
  /\ UNCHANGED <<buffers, modes, probe, faults>>

Flush(t)  == Begin(t, "flush", "idle")
Direct(t) == Begin(t, "direct", "exchange")
Close(t)  == Begin(t, "close", "close")

(* set_deferred_transfer(False) flushes, and changes the mode unlocked.    *)
Undefer(t) == deferred /\ Begin(t, "undefer", "undefer")

Exchange(t) ==
  /\ pc[t] = "exchange"
  /\ Goto(t, "idle") /\ lock' = NoReq
  /\ IF replies = <<>>
       THEN Answer(job[t].id, "value") /\ UNCHANGED replies
       ELSE /\ Answer(job[t].id, "error")   \* the reply of another command
            /\ replies' = Append(Tail(replies),
                 [block |-> FALSE, ok |-> FALSE, count |-> 0, words |-> <<>>])
  /\ UNCHANGED <<calls, result, buffers, modes, executed, job, faults>>

(* The interface closes and drops what it has received.                    *)
CloseEnd(t) ==
  /\ pc[t] = "close"
  /\ Goto(t, "idle") /\ lock' = NoReq
  /\ isOpen' = FALSE /\ crntCmd' = NewCommand(0) /\ replies' = <<>>
  /\ Answer(job[t].id, "value")
  /\ UNCHANGED <<calls, result, transferList, toRead, responseBuf, deferred,
                 executed, job, faults>>

(* open() of a probe that has been open before.                            *)
Open(t) ==
  /\ lock = NoReq /\ ~isOpen
  /\ Call(t, "open", 0, "posted")
  /\ isOpen' = TRUE
  /\ transferList' = <<>> /\ toRead' = <<>> /\ responseBuf' = <<>>
  /\ crntCmd' = NewCommand(session.packetSize)
  /\ UNCHANGED <<deferred, probe, lock, pc, job, faults>>

UndeferEnd(t) ==
  /\ pc[t] = "undefer"
  /\ Goto(t, "idle")
  /\ deferred' = FALSE
  /\ Answer(job[t].id, "value")
  /\ UNCHANGED <<calls, result, buffers, isOpen, probe, lock, job, faults>>

Defer(t) ==
  /\ "undefer" \in session.ops /\ pc[t] = "idle" /\ ~deferred
  /\ deferred' = TRUE
  /\ UNCHANGED <<history, buffers, isOpen, probe, lock, pc, job, faults>>

-----------------------------------------------------------------------------
(* A thread goes on with the operation it is in.                           *)
Continue(t) ==
  /\ UNCHANGED session
  /\ \/ Fill(t) \/ FillEnd(t)
     \/ SendNothing(t) \/ MakeRoom(t) \/ Send(t) \/ Drain(t) \/ DrainEnd(t)
     \/ Check(t) \/ CheckCurrent(t) \/ GetFlush(t) \/ GetRead(t)
     \/ Exchange(t) \/ CloseEnd(t) \/ UndeferEnd(t)

Start(t) ==
  /\ UNCHANGED session
  /\ \/ \E req \in Writes, n \in session.counts : BeginWrite(t, req, n)
     \/ \E req \in Reads, n \in session.counts, now \in BOOLEAN :
          BeginRead(t, req, n, now)
     \/ \E id \in DOMAIN calls : Callback(t, id)
     \/ Flush(t) \/ Direct(t) \/ Close(t) \/ Open(t) \/ Undefer(t) \/ Defer(t)

Next == \E t \in session.threads : Continue(t) \/ Start(t)

Spec == Init /\ [][Next]_vars

(* A thread in an operation runs on.                                       *)
FairSpec == Spec /\ \A t \in Threads : WF_vars(Continue(t))

-----------------------------------------------------------------------------
(* Properties                                                              *)

Requests == Reads \cup Writes
Word     == (1..MaxCalls) \X Nat
Locked   == {"fill", "send", "flush", "drain", "exchange", "close"}
Labels   == Locked \cup {"idle", "check", "assert", "enter", "read", "undefer"}
Command  == [size : {0, session.packetSize}, rc : Nat, wc : Nat, block : BOOLEAN,
             req : Requests \cup {NoReq}, data : Seq(Word)]

(* The state has its types, and a thread is inside a locked method exactly *)
(* when it holds the lock.                                                 *)
TypeOK ==
  /\ calls \in Seq([kind : Requests \cup {"flush", "direct", "close", "open", "undefer"},
                    count : Nat])
  /\ Len(calls) <= MaxCalls
  /\ DOMAIN result = DOMAIN calls /\ DOMAIN answer = DOMAIN calls
  /\ transferList \in Seq(DOMAIN calls)
  /\ crntCmd \in Command /\ toRead \in Seq(Command)
  /\ responseBuf \in Seq(Word) /\ executed \in Seq(Word)
  /\ deferred \in BOOLEAN /\ isOpen \in BOOLEAN
  /\ replies \in Seq([block : BOOLEAN, ok : BOOLEAN, count : Nat, words : Seq(Word)])
  /\ lock \in Threads \cup {NoReq}
  /\ pc \in [Threads -> Labels]
  /\ \A t \in Threads : pc[t] \in Locked <=> lock = t
  /\ job \in [Threads -> [id : 0..MaxCalls, left : Nat,
                          after : Labels]]
  /\ faults \in [FaultKinds -> Nat]

(* A packet never outgrows the buffer it is encoded into, nor its reply    *)
(* the packet size, and the count of a DAP_Transfer fits its byte.         *)
PacketFits(cmd) ==
  IsEmpty(cmd) \/ /\ EncodedSize(cmd) <= cmd.size /\ ReplySize(cmd) <= cmd.size
                  /\ cmd.block \/ cmd.rc + cmd.wc <= MaxCount
PacketsFit == PacketFits(crntCmd) /\ \A i \in DOMAIN toRead : PacketFits(toRead[i])

(* The words still to be added by the thread inside _write().              *)
Unfilled ==
  LET busy == {t \in Threads : pc[t] \in {"fill", "send"} /\ calls[job[t].id].kind \in Reads}
  IN IF busy = {} THEN <<>>
     ELSE LET j == job[CHOOSE t \in busy : TRUE]
          IN WordsAfter(j.id, calls[j.id].count - j.left)

(* No fault of the USB interface, after which the replies still in flight  *)
(* are forgotten.                                                          *)
NoUsbFault == \A kind \in FaultKinds \ {"ack"} : faults[kind] = 0

(* The words that the waiting transfers lack are, in order, those in the   *)
(* response buffer, in the packets in flight, in the current packet and in *)
(* what _write() has still to add: no transfer waits for a word that will  *)
(* not come, and none will get the word of another.                        *)
Covered ==
  NoUsbFault => Wanted(Len(transferList))
    = responseBuf \o FlattenSeq([i \in DOMAIN toRead |-> ReadWords(toRead[i].data)])
        \o ReadWords(crntCmd.data) \o Unfilled

(* The target performs each access at most once and in the order of issue, *)
(* whatever packets fail.                                                  *)
InOrder ==
  \A i, j \in DOMAIN executed : i < j =>
    \/ executed[i][1] < executed[j][1]
    \/ executed[i][1] = executed[j][1] /\ executed[i][2] < executed[j][2]

NoFaults == \A kind \in FaultKinds : faults[kind] = 0

(* When a flush ends without error all accesses issued so far have been    *)
(* performed ("to guarantee that previous writes are complete").           *)
FlushCompletes ==
  \A t \in Threads : pc[t] = "drain" /\ toRead = <<>> /\ NoFaults =>
    \A id \in DOMAIN calls : \A i \in 1..calls[id].count :
      \E k \in DOMAIN executed : executed[k] = <<id, i>>

(* get_result() returns the words or raises what went wrong; its assertion *)
(* and the queue it reads from never fail.                                 *)
GetReturns == \A id \in DOMAIN answer : answer[id] \notin {"assertion", "index"}

(* Every operation called returns.                                         *)
EveryCallReturns == \A t \in Threads : pc[t] # "idle" ~> pc[t] = "idle"

(* The pipeline implements the transfer service.  Once a USB fault has     *)
(* happened, the reply to what was delivered can stay in the probe and     *)
(* answer a later packet: of what is answered then only the order and the  *)
(* outcome are judged, not the words.                                      *)
Judged(id) ==
  IF NoUsbFault \/ result[id].state # "done"
    THEN result[id]
    ELSE [result[id] EXCEPT !.words = WordsAfter(id, 0)]

Service == INSTANCE TransferService
  WITH length <- [i \in DOMAIN calls |-> calls[i].count],
       outstanding <- transferList,
       result <- [id \in DOMAIN result |-> Judged(id)]
ServiceSpec == Service!Spec
=============================================================================
