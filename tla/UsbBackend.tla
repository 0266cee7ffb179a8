------------------------------ MODULE UsbBackend ------------------------------
(***************************************************************************)
(* The USB interface of a CMSIS-DAP probe: the thread that uses the probe, *)
(* the receive thread, which reads one packet for each credit of a         *)
(* semaphore, and the queue between them.  "usb" is PyUSBv2 (and PyUSB),   *)
(* whose receive thread reads with a timeout and ends when it expires;     *)
(* "hid" is HidApiUSB, whose thread reads without one.                     *)
(*                                                                         *)
(* Commands are numbered, and an answer has the number of its command.     *)
(* The probe answers in order, when it likes or never.  A read() of "usb"  *)
(* waits as long as the receive thread does and starts later, so that the  *)
(* thread has given up when it times out.                                  *)
(***************************************************************************)
EXTENDS Integers, Sequences

CONSTANTS Backends, \* "usb", "hid"
          UsbWrites, \* bound: commands
          UsbOpens   \* bound: times the interface is opened

ASSUME UsbAssumption ==
  Backends \subseteq {"usb", "hid"} /\ UsbWrites \in Nat /\ UsbOpens \in Nat

VARIABLES
  backend,    \* chosen at the start
  usbOpen,    \* ~closed
  userPc,     \* "idle", "write", "read" or "join"
  unread,     \* the commands whose answers are to be read (_commands_to_read)
  credits,    \* read_sem
  stopEvent,  \* rx_stop_event, closed_event
  rxPc,       \* "none", "loop", "wait" for a credit, "read"
  rcvData,
  exited,     \* _read_thread_did_exit
  toProbe, fromProbe,
  written,    \* commands so far
  opens,
  answer,     \* of the last read(): the command it was for, and the one answered
  gaveUp      \* history: an answer that nobody waits for may come all the same

usbRx   == <<credits, stopEvent, rxPc, rcvData, exited>>
usbUser == <<usbOpen, userPc, unread, written, opens, answer, gaveUp>>
usbWire == <<toProbe, fromProbe>>
usbVars == <<backend, usbRx, usbUser, usbWire>>

UsbInit ==
  /\ backend \in Backends
  /\ usbOpen = FALSE /\ userPc = "idle" /\ unread = <<>>
  /\ credits = 0 /\ stopEvent = FALSE /\ rxPc = "none" /\ rcvData = <<>> /\ exited = FALSE
  /\ toProbe = <<>> /\ fromProbe = <<>>
  /\ written = 0 /\ opens = 0 /\ answer = [to |-> 0, got |-> 0] /\ gaveUp = FALSE

-----------------------------------------------------------------------------
(* The thread that uses the probe.                                         *)

(* start_rx() takes out the answers the probe has ready, and a new handle  *)
(* of a HID device has none; what the probe still works on comes later.    *)
Open ==
  /\ userPc = "idle" /\ ~usbOpen /\ opens < UsbOpens
  /\ usbOpen' = TRUE /\ opens' = opens + 1
  /\ answer' = [to |-> 0, got |-> 0] /\ gaveUp' = (toProbe # <<>>)
  /\ fromProbe' = <<>> /\ rxPc' = "loop"
  /\ UNCHANGED <<backend, userPc, unread, written, credits, stopEvent, rcvData, exited,
                 toProbe>>

BeginUsbWrite ==
  /\ userPc = "idle" /\ usbOpen /\ written < UsbWrites
  /\ credits' = credits + 1 /\ userPc' = "write"
  /\ UNCHANGED <<backend, usbOpen, unread, written, opens, answer, gaveUp, stopEvent, rxPc,
                 rcvData, exited, usbWire>>

EndUsbWrite ==
  /\ userPc = "write"
  /\ written' = written + 1
  /\ toProbe' = Append(toProbe, written') /\ unread' = Append(unread, written')
  /\ userPc' = "idle"
  /\ UNCHANGED <<backend, usbOpen, opens, answer, gaveUp, usbRx, fromProbe>>

(* The write raises, having delivered the packet or not (the zero-length   *)
(* packet after it may be what times out): _abort_all_transfers() forgets  *)
(* what is outstanding.                                                    *)
UsbWriteFails ==
  /\ userPc = "write"
  /\ written' = written + 1
  /\ toProbe' \in {toProbe, Append(toProbe, written')}
  /\ unread' = <<>> /\ gaveUp' = (gaveUp \/ unread # <<>> \/ toProbe' # toProbe)
  /\ userPc' = "idle"
  /\ UNCHANGED <<backend, usbOpen, opens, answer, usbRx, fromProbe>>

BeginUsbRead ==
  /\ userPc = "idle" /\ usbOpen /\ unread # <<>>
  /\ IF exited THEN unread' = <<>> /\ UNCHANGED userPc
     ELSE userPc' = "read" /\ UNCHANGED unread
  /\ UNCHANGED <<backend, usbOpen, written, opens, answer, gaveUp, usbRx, usbWire>>

UsbRead ==
  /\ userPc = "read" /\ rcvData # <<>>
  /\ rcvData' = Tail(rcvData) /\ unread' = Tail(unread)
  /\ answer' = [to |-> Head(unread), got |-> Head(rcvData)]
  /\ userPc' = "idle"
  /\ UNCHANGED <<backend, usbOpen, written, opens, gaveUp, credits, stopEvent, rxPc, exited,
                 usbWire>>

UsbReadTimesOut ==
  /\ userPc = "read" /\ rcvData = <<>> /\ (backend = "usb" => rxPc = "none")
  /\ unread' = <<>> /\ gaveUp' = (gaveUp \/ rxPc # "none")
  /\ userPc' = "idle"
  /\ UNCHANGED <<backend, usbOpen, written, opens, answer, usbRx, usbWire>>

(* Mutant: the receive thread is not woken.                                *)
CloseUsb_NotWoken ==
  /\ userPc = "idle" /\ usbOpen /\ unread = <<>>
  /\ usbOpen' = FALSE /\ stopEvent' = TRUE /\ userPc' = "join"
  /\ UNCHANGED <<backend, unread, written, opens, answer, gaveUp, credits, rxPc, rcvData,
                 exited, usbWire>>

(* DAPAccessCMSISDAP.close() flushes first.                                *)
CloseUsb ==
  /\ userPc = "idle" /\ usbOpen /\ unread = <<>>
  /\ usbOpen' = FALSE /\ stopEvent' = TRUE /\ credits' = credits + 1
  /\ userPc' = "join"
  /\ UNCHANGED <<backend, unread, written, opens, answer, gaveUp, rxPc, rcvData, exited,
                 usbWire>>

(* Mutant: what was received stays in the queue.                           *)
RxJoined_KeepsQueue ==
  /\ userPc = "join" /\ rxPc = "none"
  /\ stopEvent' = FALSE /\ exited' = FALSE
  /\ credits' = IF backend = "hid" THEN 0 ELSE credits
  /\ userPc' = "idle"
  /\ UNCHANGED <<backend, usbOpen, unread, written, opens, answer, gaveUp, rxPc, rcvData,
                 usbWire>>

(* The queue is made anew, the semaphore only by HidApiUSB.                *)
RxJoined ==
  /\ userPc = "join" /\ rxPc = "none"
  /\ stopEvent' = FALSE /\ rcvData' = <<>> /\ exited' = FALSE
  /\ credits' = IF backend = "hid" THEN 0 ELSE credits
  /\ userPc' = "idle"
  /\ UNCHANGED <<backend, usbOpen, unread, written, opens, answer, gaveUp, rxPc, usbWire>>

-----------------------------------------------------------------------------
(* The receive thread: rx_task().                                          *)

RxExits == rxPc' = "none" /\ exited' = TRUE

RxLoop ==
  /\ rxPc = "loop"
  /\ IF stopEvent THEN RxExits ELSE rxPc' = "wait" /\ UNCHANGED exited
  /\ UNCHANGED <<backend, usbUser, credits, stopEvent, rcvData, usbWire>>

RxAcquires ==
  /\ rxPc = "wait" /\ credits > 0
  /\ credits' = credits - 1
  /\ rxPc' = IF stopEvent THEN "loop" ELSE "read"
  /\ UNCHANGED <<backend, usbUser, stopEvent, rcvData, exited, usbWire>>

RxReads ==
  /\ rxPc = "read" /\ fromProbe # <<>>
  /\ rcvData' = Append(rcvData, Head(fromProbe)) /\ fromProbe' = Tail(fromProbe)
  /\ rxPc' = "loop"
  /\ UNCHANGED <<backend, usbUser, credits, stopEvent, exited, toProbe>>

RxTimesOut ==
  /\ rxPc = "read" /\ fromProbe = <<>> /\ backend = "usb"
  /\ RxExits
  /\ UNCHANGED <<backend, usbUser, credits, stopEvent, rcvData, usbWire>>

ProbeAnswers ==
  /\ toProbe # <<>>
  /\ fromProbe' = Append(fromProbe, Head(toProbe)) /\ toProbe' = Tail(toProbe)
  /\ UNCHANGED <<backend, usbUser, usbRx>>

-----------------------------------------------------------------------------
UsbCall == EndUsbWrite \/ UsbWriteFails \/ UsbRead \/ UsbReadTimesOut \/ RxJoined
RxStep  == RxLoop \/ RxAcquires \/ RxReads \/ RxTimesOut
UsbNext == \/ Open \/ BeginUsbWrite \/ BeginUsbRead \/ CloseUsb \/ UsbCall
           \/ RxStep \/ ProbeAnswers

(* Calls and the receive thread go on; the probe need not answer.          *)
UsbFairness == WF_usbVars(UsbCall) /\ WF_usbVars(RxStep)

UsbSpec == UsbInit /\ [][UsbNext]_usbVars /\ UsbFairness

-----------------------------------------------------------------------------
(* Properties                                                              *)

UsbTypeOK ==
  /\ userPc \in {"idle", "write", "read", "join"} /\ rxPc \in {"none", "loop", "wait", "read"}
  /\ usbOpen \in BOOLEAN /\ stopEvent \in BOOLEAN /\ exited \in BOOLEAN
  /\ credits \in 0..(UsbWrites + UsbOpens) /\ written \in 0..UsbWrites
  /\ \A s \in {unread, rcvData, toProbe, fromProbe} : s \in Seq(1..UsbWrites)

(* What read() returns is the answer to the oldest command that has not    *)
(* been answered, also when answers came late or timed out, when a write   *)
(* failed that had delivered nothing, or when answers were left over that  *)
(* had come before the interface was opened again.  Excepted is the rest   *)
(* of an opening in which an answer that nobody waits for can still come:  *)
(* of a command given up while the receive thread goes on or whose write   *)
(* raised after delivery, or that the probe still worked on at open().     *)
AnswersMatch == ~gaveUp => answer.to = answer.got

(* close() returns, wherever the receive thread is and whether it has died *)
(* or not; except that a HID read the probe does not answer never ends.    *)
CloseReturns ==
  userPc = "join"
    ~> userPc # "join" \/ (backend = "hid" /\ rxPc = "read" /\ fromProbe = <<>>)
=============================================================================
