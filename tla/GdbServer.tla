------------------------------ MODULE GdbServer ------------------------------
(***************************************************************************)
(* The GDB server of one core: the server thread that accepts connections, *)
(* one session thread per connected gdb, the two locks they share, and the *)
(* core they run and halt.                                                 *)
(*                                                                         *)
(* Every command is handled under the server's lock, except that a         *)
(* `continue' gives it up while it waits for the core to stop.  The target *)
(* is also halted by the server thread, for a gdb that connects, and       *)
(* resumed by a session thread, when its gdb was the last one, and neither *)
(* takes that lock.  All-stop mode only.                                   *)
(***************************************************************************)
EXTENDS Naturals

CONSTANTS Client,      \* gdbs; each connects once
          Uses,        \* commands the gdbs use
          Persist,     \* values of the session option persist
          Semihosting, \* session option enable_semihosting
          Overlap,     \* a gdb may attach while another one is leaving
          Drops,       \* a connection may be lost while the gdb's program runs
          Stops,       \* whoever runs the server may stop it
          FaultKinds,  \* see HaltFails, PollFails, PollError, ReleaseFails
          MaxFaults,   \* bound: target accesses that fail
          NoOne        \* holder of a free lock

ASSUME ServerAssumption ==
  /\ NoOne \notin Client
  /\ Uses \subseteq {"read", "!", "s", "D", "k", "R", "c"} /\ Persist \subseteq BOOLEAN
  /\ Semihosting \in BOOLEAN /\ Overlap \in BOOLEAN /\ Drops \in BOOLEAN
  /\ Stops \in BOOLEAN
  /\ FaultKinds \subseteq {"halt", "interrupt", "poll", "error", "release"}
  /\ MaxFaults \in Nat

VARIABLES
  \* GDBServer
  sessions,  \* client_sessions
  shutdown,  \* shutdown_event
  persist,   \* session option persist
  srv,       \* where the server thread is
  cur,       \* the client it is busy with
  todo,      \* sessions it still has to stop
  lock,      \* holder of lock (between two steps: only of a nested detach)
  slock,     \* holder of client_sessions_lock
  owner,     \* _semihosting_client
  \* GDBClientSession
  pc,        \* where the session thread is
  attached,  \* is_attached_to_target
  extended,  \* is_extended_remote
  stopping,  \* the session's own shutdown_event
  retrying,  \* sessions whose fault_retry_timeout runs
  \* the connection
  conn,      \* "none", "open", "closed" by gdb, "ended" by the server
  interrupt, \* interrupt_event: a Ctrl-C has been read
  cmd,       \* the command gdb waits for; "stopped": its stop reply is under way
  \* the core
  core,      \* "running", "halted" by the debugger, "trapped", "semihost"
  lost,      \* the target could not be stopped, or released, when it was to be
  faults

server  == <<shutdown, persist, srv, cur, todo>>
locks   == <<lock, slock, owner>>
flags   == <<attached, extended, stopping>>
session == <<pc, flags, retrying>>
link    == <<conn, interrupt, cmd>>
target  == <<core, lost, faults>>
vars    == <<sessions, server, locks, session, link, target>>

Plain    == {"read", "!", "s", "D", "k", "R"}
Commands == Plain \cup {"c"}
InResume == {"wait", "semi", "handled", "report", "failed"}
Detaching == {"mark", "release", "decide"}

Init ==
  /\ sessions = {} /\ shutdown = FALSE /\ persist \in Persist
  /\ srv = "accept" /\ cur = NoOne /\ todo = {}
  /\ lock = NoOne /\ slock = NoOne /\ owner = NoOne
  /\ pc = [c \in Client |-> "off"]
  /\ attached = [c \in Client |-> FALSE] /\ extended = attached /\ stopping = attached
  /\ retrying = {}
  /\ conn = [c \in Client |-> "none"] /\ interrupt = attached
  /\ cmd = [c \in Client |-> "none"]
  /\ core \in {"running", "halted"} /\ lost = FALSE /\ faults = 0

Goto(c, label) == pc' = [pc EXCEPT ![c] = label]
Halted  == IF core = "running" THEN "halted" ELSE core
Fault(kind) == kind \in FaultKinds /\ faults < MaxFaults /\ faults' = faults + 1

(* A gdb on its way out, and one whose session is about to attach.         *)
Leaving(c) ==
  /\ pc[c] \notin {"off", "done"}
  /\ \/ pc[c] \in Detaching \cup {"leave"} \/ stopping[c]
     \/ conn[c] = "closed" \/ cmd[c] \in {"D", "k"}
Arriving(c) ==
  (c = cur /\ srv \in {"append", "halt", "start", "drop"}) \/ pc[c] = "attach" \/ cmd[c] = "R"

-----------------------------------------------------------------------------
(* The gdbs and the core.                                                  *)

Send(c, command) ==
  /\ conn[c] = "open" /\ cmd[c] = "none" /\ pc[c] \in {"loop", "receive"} /\ ~stopping[c]
  /\ command \in {"s", "c"} => attached[c]
  /\ command = "R" => Overlap \/ \A d \in Client : ~Leaving(d)
  /\ command \in {"D", "k"} => Overlap \/ \A d \in Client : ~Arriving(d)
  /\ cmd' = [cmd EXCEPT ![c] = command]
  /\ UNCHANGED <<sessions, server, locks, session, conn, interrupt, target>>

CtrlC(c) ==
  /\ conn[c] = "open" /\ cmd[c] \in {"c", "stopped"} /\ ~interrupt[c]
  /\ interrupt' = [interrupt EXCEPT ![c] = TRUE]
  /\ UNCHANGED <<sessions, server, locks, session, conn, cmd, target>>

Deliver(c) ==
  /\ cmd[c] = "stopped"
  /\ cmd' = [cmd EXCEPT ![c] = "none"]
  /\ UNCHANGED <<sessions, server, locks, session, conn, interrupt, target>>

(* gdb disconnects or its connection breaks: while a command is handled is *)
(* as good as after it.                                                    *)
Close(c) ==
  /\ conn[c] = "open" /\ pc[c] \notin {"off", "leave"}
  /\ cmd[c] \in {"none", "stopped"} \/ (cmd[c] = "c" /\ Drops)
  /\ Overlap \/ \A d \in Client : ~Arriving(d)
  /\ conn' = [conn EXCEPT ![c] = "closed"]
  /\ UNCHANGED <<sessions, server, locks, session, interrupt, cmd, target>>

(* A breakpoint, or a semihosting request.                                 *)
CoreStops ==
  /\ core = "running"
  /\ core' \in {"trapped"} \cup (IF Semihosting THEN {"semihost"} ELSE {})
  /\ UNCHANGED <<sessions, server, locks, session, link, lost, faults>>

-----------------------------------------------------------------------------
(* The server thread.                                                      *)

AfterClient == srv' = IF shutdown THEN "cleanup" ELSE "accept"

Accept(c) ==
  /\ srv = "accept" /\ conn[c] = "none"
  /\ Overlap \/ \A d \in Client : ~Leaving(d)
  /\ conn' = [conn EXCEPT ![c] = "open"]
  /\ cur' = c /\ srv' = "append"
  /\ UNCHANGED <<sessions, shutdown, persist, todo, locks, session, interrupt, cmd, target>>

AppendSession ==
  /\ srv = "append" /\ slock = NoOne
  /\ sessions' = sessions \cup {cur}
  /\ srv' = "halt"
  /\ UNCHANGED <<shutdown, persist, cur, todo, locks, session, link, target>>

(* Mutant: the target is left as it is.                                    *)
HaltTarget_Not ==
  /\ srv = "halt"
  /\ srv' = "start"
  /\ UNCHANGED <<sessions, shutdown, persist, cur, todo, locks, session, link, target>>

HaltTarget ==
  /\ srv = "halt"
  /\ core' = Halted
  /\ srv' = "start"
  /\ UNCHANGED <<sessions, shutdown, persist, cur, todo, locks, session, link, lost, faults>>

HaltFails ==
  /\ srv = "halt" /\ Fault("halt")
  /\ srv' = "drop"
  /\ UNCHANGED <<sessions, shutdown, persist, cur, todo, locks, session, link, core, lost>>

StartClient ==
  /\ srv = "start"
  /\ Goto(cur, "attach")
  /\ AfterClient /\ cur' = NoOne
  /\ UNCHANGED <<sessions, shutdown, persist, todo, locks, flags, retrying, link, target>>

DropClient ==
  /\ srv = "drop" /\ slock = NoOne
  /\ conn' = [conn EXCEPT ![cur] = "ended"]
  /\ sessions' = sessions \ {cur}
  /\ AfterClient /\ cur' = NoOne
  /\ UNCHANGED <<shutdown, persist, todo, locks, session, interrupt, cmd, target>>

(* accept() times out and the loop sees that the server is to stop.        *)
StopAccepting ==
  /\ srv = "accept" /\ shutdown
  /\ srv' = "cleanup"
  /\ UNCHANGED <<sessions, shutdown, persist, cur, todo, locks, session, link, target>>

Snapshot ==
  /\ srv = "cleanup" /\ slock = NoOne
  /\ todo' = sessions /\ srv' = "stopping"
  /\ UNCHANGED <<sessions, shutdown, persist, cur, locks, session, link, target>>

StopClient(c) ==
  /\ srv = "stopping" /\ c \in todo
  /\ stopping' = [stopping EXCEPT ![c] = pc[c] \notin Detaching \cup {"done"}]
  /\ cur' = c /\ srv' = "join"
  /\ UNCHANGED <<sessions, shutdown, persist, todo, locks, pc, attached, extended, retrying, link, target>>

(* join() returns when the thread is over or after a second.               *)
Joined ==
  /\ srv = "join" /\ slock = NoOne
  /\ sessions' = sessions \ {cur} /\ todo' = todo \ {cur}
  /\ srv' = "stopping" /\ cur' = NoOne
  /\ UNCHANGED <<shutdown, persist, locks, session, link, target>>

ServerEnds ==
  /\ srv = "stopping" /\ todo = {}
  /\ srv' = "stopped"
  /\ UNCHANGED <<sessions, shutdown, persist, cur, todo, locks, session, link, target>>

(* stop(), called by whoever runs the server.                              *)
Stop ==
  /\ Stops /\ ~shutdown /\ shutdown' = TRUE
  /\ UNCHANGED <<sessions, persist, srv, cur, todo, locks, session, link, target>>

ServerStep ==
  \/ AppendSession \/ HaltTarget \/ StartClient \/ DropClient
  \/ StopAccepting \/ Snapshot \/ (\E c \in Client : StopClient(c)) \/ Joined \/ ServerEnds

-----------------------------------------------------------------------------
(* A session thread: GDBClientSession.run.                                 *)

Attach(c) ==
  /\ pc[c] = "attach"
  /\ attached' = [attached EXCEPT ![c] = TRUE]
  /\ stopping' = [stopping EXCEPT ![c] = FALSE]
  /\ Goto(c, "loop")
  /\ UNCHANGED <<sessions, server, locks, extended, retrying, link, target>>

(* The top of the loop; a Ctrl-C found here is ignored.                    *)
Loop(c) ==
  /\ pc[c] = "loop"
  /\ IF stopping[c] \/ shutdown
       THEN Goto(c, "leave") /\ UNCHANGED interrupt
       ELSE Goto(c, "receive") /\ interrupt' = [interrupt EXCEPT ![c] = FALSE]
  /\ UNCHANGED <<sessions, server, locks, flags, retrying, conn, cmd, target>>

(* receive() blocks for a packet or the end of the connection, and for     *)
(* nothing else.                                                           *)
Receive(c) ==
  /\ pc[c] = "receive"
  /\ \/ /\ cmd[c] \in Commands
        /\ Goto(c, IF shutdown THEN "leave" ELSE "got")
     \/ conn[c] = "closed" /\ Goto(c, "leave")
  /\ UNCHANGED <<sessions, server, locks, flags, retrying, link, target>>

(* cleanup(): the socket is closed.  (What the session knew of its gdb is  *)
(* of no more use and is forgotten, to have fewer states.)                 *)
Cleanup(c) ==
  /\ pc[c] = "leave"
  /\ conn' = [conn EXCEPT ![c] = "ended"] /\ cmd' = [cmd EXCEPT ![c] = "none"]
  /\ interrupt' = [interrupt EXCEPT ![c] = FALSE]
  /\ extended' = [extended EXCEPT ![c] = FALSE] /\ stopping' = [stopping EXCEPT ![c] = FALSE]
  /\ Goto(c, "mark")
  /\ UNCHANGED <<sessions, server, locks, attached, retrying, target>>

-----------------------------------------------------------------------------
(* notify_client_detached, at the end of the thread or, with the server's  *)
(* lock held, for a detach in extended mode.                               *)

(* Mutants: the session is kept; it still counts as attached itself.       *)
Remaining_Keeps(c) == sessions
StillAttached_Itself(c) == \E d \in sessions : attached[d]

(* The list once it has been called for c: without c if c's connection is  *)
(* closed.                                                                 *)
Remaining(c) == IF conn[c] = "ended" THEN sessions \ {c} ELSE sessions
StillAttached(c) == \E d \in Remaining(c) : d # c /\ attached[d]

Mark(c) ==
  /\ pc[c] = "mark" /\ slock = NoOne
  /\ slock' = c
  /\ attached' = [attached EXCEPT ![c] = FALSE]
  /\ owner' = IF owner = c THEN NoOne ELSE owner
  /\ sessions' = Remaining(c)
  /\ Goto(c, IF StillAttached(c) THEN "decide" ELSE "release")
  /\ UNCHANGED <<server, lock, extended, stopping, retrying, link, target>>

Release(c) ==
  /\ pc[c] = "release"
  /\ core' = "running"
  /\ Goto(c, "decide")
  /\ UNCHANGED <<sessions, server, locks, flags, retrying, link, lost, faults>>

(* Mutant: the server's lock stays taken.                                  *)
Detached_KeepsLock(c) ==
  /\ slock' = NoOne /\ UNCHANGED lock
  /\ IF lock = c
       THEN cmd' = [cmd EXCEPT ![c] = "none"] /\ Goto(c, "loop")
       ELSE UNCHANGED cmd /\ Goto(c, "done")

(* A detach in extended mode is answered.                                  *)
Detached(c) ==
  /\ slock' = NoOne
  /\ IF lock = c
       THEN lock' = NoOne /\ cmd' = [cmd EXCEPT ![c] = "none"] /\ Goto(c, "loop")
       ELSE UNCHANGED <<lock, cmd>> /\ Goto(c, "done")

(* An error of the first get_state() or of resume() is logged; one of the  *)
(* second get_state() skips the rest.  The core may run again all the same.*)
ReleaseFails(c) ==
  /\ pc[c] = "release" /\ Fault("release")
  /\ core' \in {core, "running"} /\ lost' = (lost \/ core' # "running")
  /\ \/ Goto(c, "decide") /\ UNCHANGED <<lock, slock, cmd>>
     \/ Detached(c)
  /\ UNCHANGED <<sessions, server, owner, flags, retrying, conn, interrupt>>

Decide(c) ==
  /\ pc[c] = "decide"
  /\ shutdown' = (shutdown \/ (sessions = {} /\ ~persist))
  /\ Detached(c)
  /\ UNCHANGED <<sessions, persist, srv, cur, todo, owner, flags, retrying, conn, interrupt, target>>

-----------------------------------------------------------------------------
(* handle_message.                                                         *)

Reply(c, answer) == cmd' = [cmd EXCEPT ![c] = answer] /\ Goto(c, "loop")

Handle(c, command) ==
  pc[c] = "got" /\ cmd[c] = command /\ lock = NoOne /\ UNCHANGED <<lock, slock>>

(* Commands that leave the core as it is.                                  *)
Inspect(c) ==
  /\ Handle(c, "read") /\ Reply(c, "none")
  /\ UNCHANGED <<sessions, server, owner, flags, retrying, conn, interrupt, target>>

ExtendedRemote(c) ==
  /\ Handle(c, "!") /\ Reply(c, "none")
  /\ extended' = [extended EXCEPT ![c] = TRUE]
  /\ UNCHANGED <<sessions, server, owner, attached, stopping, retrying, conn, interrupt, target>>

(* A core that runs is not stepped.  A Ctrl-C or the timeout ends the wait *)
(* for the step: unless the interrupt mask is then restored, with C_HALT,  *)
(* the core is left to run until the instruction ends.                     *)
StepCore(c) ==
  /\ Handle(c, "s") /\ Reply(c, "none")
  /\ interrupt' = [interrupt EXCEPT ![c] = FALSE]
  /\ core' \in (IF core = "running" THEN {core} ELSE {"halted", "running"})
  /\ lost' = (lost \/ (core' # core /\ core' = "running"))
  /\ UNCHANGED <<sessions, server, owner, flags, retrying, conn, faults>>

Detach(c) ==
  /\ pc[c] = "got" /\ cmd[c] = "D" /\ lock = NoOne
  /\ IF extended[c]
       THEN lock' = c /\ Goto(c, "mark") /\ UNCHANGED <<stopping, cmd>>
       ELSE UNCHANGED lock /\ Reply(c, "none") /\ stopping' = [stopping EXCEPT ![c] = TRUE]
  /\ UNCHANGED <<sessions, server, slock, owner, attached, extended, retrying, conn, interrupt, target>>

Kill(c) ==
  /\ Handle(c, "k") /\ Reply(c, "none")
  /\ stopping' = [stopping EXCEPT ![c] = @ \/ ~extended[c]]
  /\ UNCHANGED <<sessions, server, owner, attached, extended, retrying, conn, interrupt, target>>

Restart(c) ==
  /\ Handle(c, "R") /\ Reply(c, "none")
  /\ attached' = [attached EXCEPT ![c] = TRUE]
  /\ core' = "halted"
  /\ UNCHANGED <<sessions, server, owner, extended, stopping, retrying, conn, interrupt, lost, faults>>

-----------------------------------------------------------------------------
(* resume(): the core runs until a Ctrl-C or until it is found stopped.    *)

(* The loop's condition, tested with the lock held.                        *)
Again(c) ==
  IF shutdown THEN Reply(c, "none") /\ interrupt' = [interrupt EXCEPT ![c] = FALSE]
              ELSE Goto(c, "wait") /\ UNCHANGED <<interrupt, cmd>>

Continue(c) ==
  /\ Handle(c, "c")
  /\ core' = "running"
  /\ Again(c)
  /\ UNCHANGED <<sessions, server, owner, flags, retrying, conn, lost, faults>>

ReportStop(c) == Reply(c, "stopped") /\ retrying' = retrying \ {c}

(* Mutant: the event is cleared when the wait ends, before the lock is     *)
(* taken and the state read.                                               *)
Interrupted_Polls(c) ==
  /\ pc[c] = "wait" /\ interrupt[c] /\ lock = NoOne
  /\ interrupt' = [interrupt EXCEPT ![c] = FALSE]
  /\ UNCHANGED <<sessions, server, locks, session, conn, cmd, target>>

Interrupted(c) ==
  /\ pc[c] = "wait" /\ interrupt[c] /\ lock = NoOne
  /\ interrupt' = [interrupt EXCEPT ![c] = FALSE]
  /\ \/ core' = Halted /\ UNCHANGED <<lost, faults>>
     \/ Fault("interrupt") /\ lost' = TRUE /\ UNCHANGED core
  /\ ReportStop(c)
  /\ UNCHANGED <<sessions, server, locks, flags, conn>>

(* get_state() after the wait timed out.                                   *)
Poll(c) ==
  /\ pc[c] = "wait" /\ lock = NoOne
  /\ IF core = "running"
       THEN /\ shutdown \/ c \in retrying
            /\ Again(c) /\ retrying' = retrying \ {c} /\ UNCHANGED owner
       ELSE /\ UNCHANGED interrupt
            /\ IF Semihosting /\ owner = NoOne
                 THEN owner' = c /\ Goto(c, "semi") /\ UNCHANGED cmd
                      /\ retrying' = retrying \ {c}
                 ELSE ReportStop(c) /\ UNCHANGED owner
  /\ UNCHANGED <<sessions, server, lock, slock, flags, conn, target>>

(* A TransferError, of a semihosting request too, starts the timeout, or   *)
(* starts it again, right before the loop tests it, so it never expires.   *)
PollFails(c) ==
  /\ pc[c] \in {"wait", "semi"} /\ lock = NoOne /\ Fault("poll")
  /\ retrying' = retrying \cup {c}
  /\ owner' = IF owner = c THEN NoOne ELSE owner
  /\ Goto(c, "wait")
  /\ UNCHANGED <<sessions, server, lock, slock, flags, link, core, lost>>

(* Any other error: halt and report.                                       *)
PollError(c) ==
  /\ pc[c] = "wait" /\ lock = NoOne /\ Fault("error")
  /\ core' = Halted
  /\ ReportStop(c)
  /\ UNCHANGED <<sessions, server, locks, flags, conn, interrupt, lost>>

(* check_and_handle_semihost_request, without the server's lock; registers *)
(* of a core that runs cannot be read.                                     *)
Semihost(c) ==
  /\ pc[c] = "semi"
  /\ Goto(c, CASE core = "semihost" -> "handled"
               [] core = "running" -> "failed" [] OTHER -> "report")
  /\ UNCHANGED <<sessions, server, locks, flags, retrying, link, target>>

SemihostDone(c) ==
  /\ pc[c] \in {"handled", "report", "failed"} /\ lock = NoOne
  /\ owner' = NoOne
  /\ CASE pc[c] = "handled" -> core' = "running" /\ Again(c) /\ UNCHANGED retrying
       [] pc[c] = "failed"  -> core' = Halted /\ ReportStop(c) /\ UNCHANGED interrupt
       [] OTHER -> ReportStop(c) /\ UNCHANGED <<interrupt, core>>
  /\ UNCHANGED <<sessions, server, lock, slock, flags, conn, lost, faults>>

-----------------------------------------------------------------------------
(* Steps of a session thread that take no lock, and steps that take one.   *)
Runs(c) == Attach(c) \/ Loop(c) \/ Receive(c) \/ Cleanup(c) \/ Release(c) \/ Decide(c) \/ Semihost(c)
Locks(c) ==
  \/ Mark(c) \/ Inspect(c) \/ ExtendedRemote(c) \/ StepCore(c) \/ Detach(c) \/ Kill(c)
  \/ Restart(c) \/ Continue(c) \/ Poll(c) \/ SemihostDone(c)

Next ==
  \/ \E c \in Client :
       \/ \E command \in Uses : Send(c, command)
       \/ CtrlC(c) \/ Deliver(c) \/ Close(c) \/ Accept(c)
       \/ Runs(c) \/ Locks(c) \/ Interrupted(c)
       \/ ReleaseFails(c) \/ PollFails(c) \/ PollError(c)
  \/ CoreStops \/ ServerStep \/ HaltFails \/ Stop

(* A waiter holds neither lock for the 10 ms between two polls, nor a gdb  *)
(* for the time of its next command, so a thread that waits gets it.       *)
Fairness ==
  /\ WF_vars(ServerStep)
  /\ SF_vars(AppendSession \/ DropClient \/ Snapshot \/ Joined)
  /\ \A c \in Client :
       /\ WF_vars(Runs(c)) /\ WF_vars(Deliver(c))
       /\ SF_vars(Locks(c)) /\ SF_vars(Interrupted(c))

Spec == Init /\ [][Next]_vars /\ Fairness

-----------------------------------------------------------------------------
(* Properties                                                              *)

Label == {"off", "attach", "loop", "receive", "got", "leave", "done"}
           \cup InResume \cup Detaching

(* The state has its types; a lock is held only where it is to be, and the *)
(* semihosting client is handling a request.                               *)
TypeOK ==
  /\ sessions \subseteq Client /\ todo \subseteq Client
  /\ srv \in {"accept", "append", "halt", "start", "drop", "cleanup", "stopping", "join", "stopped"}
  /\ pc \in [Client -> Label] /\ cmd \in [Client -> Commands \cup {"none", "stopped"}]
  /\ conn \in [Client -> {"none", "open", "closed", "ended"}]
  /\ \A f \in {attached, extended, stopping, interrupt} : f \in [Client -> BOOLEAN]
  /\ core \in {"running", "halted", "trapped", "semihost"}
  /\ lock # NoOne => pc[lock] \in Detaching
  /\ slock # NoOne => pc[slock] \in {"release", "decide"}
  /\ owner # NoOne => pc[owner] \in {"semi", "handled", "report", "failed"}
  /\ faults \in 0..MaxFaults

(* "Make sure the target is halted. Otherwise gdb gets easily confused.":  *)
(* while gdbs are attached and none of them has let its program run, the   *)
(* core is halted, whichever of them connected, detached or restarted.     *)
AllStoppedIsHalted ==
  (\E c \in Client : attached[c]) /\ (\A c \in Client : pc[c] \notin InResume)
    /\ ~shutdown /\ ~lost
  => core # "running"

(* When every session that was served is over, the core is not left as the *)
(* server halted it: the last one to go resumes it, if it can.             *)
ReleasedAtEnd ==
  (\E c \in Client : pc[c] = "done") /\ (\A c \in Client : pc[c] \in {"off", "done"})
    /\ srv \in {"accept", "stopped"} /\ ~lost
  => core # "halted"

(* A Ctrl-C ends a continue, whatever other gdbs do meanwhile.             *)
InterruptStops ==
  \A c \in Client : pc[c] = "wait" /\ interrupt[c] ~> pc[c] \notin InResume

(* A command is answered, or the connection is closed: no session waits    *)
(* for ever for a lock.                                                    *)
EveryCommandAnswered ==
  \A c \in Client : cmd[c] \in Plain /\ pc[c] = "got" ~> cmd[c] \notin Plain

(* Unless told to persist, the server exits when its gdbs have gone.       *)
ServerExits ==
  (\A c \in Client : conn[c] # "open") /\ (\E c \in Client : conn[c] = "closed")
    /\ ~persist /\ faults = 0
  ~> srv = "stopped" \/ \E c \in Client : conn[c] = "open"
=============================================================================
