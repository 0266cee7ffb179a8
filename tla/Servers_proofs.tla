---------------------------- MODULE Servers_proofs ----------------------------
(***************************************************************************)
(* Proofs about the two servers: GdbServer and RemoteProbe.                *)
(***************************************************************************)
EXTENDS GdbServer, RemoteProbe, FiniteSetTheorems, TLAPS

-----------------------------------------------------------------------------
(***************************************************************************)
(* The types of the GDB server, ReleasedAtEnd, and AllStoppedIsHalted for  *)
(* gdbs that do not attach while another one leaves: for any number of gdbs*)
(* and of faults.                                                          *)
(*                                                                         *)
(* The inductive invariant follows a session from its socket to its end:   *)
(* where its thread is says whether it is attached, among the sessions,    *)
(* still connected, and which locks it may hold.  Then a core that runs    *)
(* while gdbs are attached runs for one that waits for it (HaltInv), and a *)
(* core that is halted is halted for one that has yet to leave (EndInv).   *)
(***************************************************************************)

Links == {"none", "open", "closed", "ended"}

(* The types, without what TypeOK says of the locks.                       *)
GdbTypes ==
  /\ sessions \subseteq Client /\ todo \subseteq Client
  /\ srv \in {"accept", "append", "halt", "start", "drop", "cleanup", "stopping", "join", "stopped"}
  /\ pc \in [Client -> Label] /\ cmd \in [Client -> Commands \cup {"none", "stopped"}]
  /\ conn \in [Client -> Links]
  /\ attached \in [Client -> BOOLEAN] /\ extended \in [Client -> BOOLEAN]
  /\ stopping \in [Client -> BOOLEAN] /\ interrupt \in [Client -> BOOLEAN]
  /\ core \in {"running", "halted", "trapped", "semihost"}
  /\ faults \in 0..MaxFaults

(* The types at the beginning.                                             *)
LEMMA TypesHold == Init => GdbTypes
  BY ServerAssumption DEF Init, GdbTypes, Label, Commands, Links, Detaching, InResume

(* The server thread and the session it is about to start or to drop.      *)
ServerInv ==
  /\ srv \in {"append", "halt", "start", "drop"} =>
       cur \in Client /\ pc[cur] = "off" /\ conn[cur] = "open"
  /\ srv \in {"halt", "start", "drop"} => cur \in sessions
  /\ srv = "join" => cur \in Client
  /\ srv \in {"cleanup", "stopping", "join", "stopped"} => shutdown

(* Every step keeps them.                                                  *)
LEMMA TypesKept == ASSUME GdbTypes, ServerInv, [Next]_vars PROVE GdbTypes'
<1> USE ServerAssumption
    DEF GdbTypes, Label, Detaching, InResume, Links, Commands, Plain, Goto, server, locks, flags,
        session, link, target
<1>1. ASSUME NEW c \in Client, NEW command \in Uses, Send(c, command) PROVE GdbTypes'
  BY <1>1 DEF Send
<1>2. ASSUME NEW c \in Client, CtrlC(c) \/ Deliver(c) \/ Close(c) \/ Accept(c) PROVE GdbTypes'
  <2>1. CASE CtrlC(c)
    BY <2>1 DEF CtrlC
  <2>2. CASE Deliver(c)
    BY <2>2 DEF Deliver
  <2>3. CASE Close(c) \/ Accept(c)
    BY <2>3 DEF Close, Accept
  <2> QED BY <1>2, <2>1, <2>2, <2>3
<1>3. ASSUME NEW c \in Client, Runs(c) PROVE GdbTypes'
  <2>1. CASE Attach(c) \/ Loop(c) \/ Receive(c)
    <3>1. CASE Attach(c)
      BY <3>1 DEF Attach
    <3>2. CASE Loop(c)
      <4>1. CASE stopping[c] \/ shutdown
        BY <3>2, <4>1 DEF Loop
      <4>2. CASE ~(stopping[c] \/ shutdown)
        BY <3>2, <4>2 DEF Loop
      <4> QED BY <4>1, <4>2
    <3>3. CASE Receive(c)
      BY <3>3 DEF Receive
    <3> QED BY <2>1, <3>1, <3>2, <3>3
  <2>2. CASE Cleanup(c)
    BY <2>2 DEF Cleanup
  <2>3. CASE Release(c) \/ Decide(c)
    BY <2>3 DEF Release, Decide, Detached
  <2>4. CASE Semihost(c)
    BY <2>4 DEF Semihost
  <2> QED BY <1>3, <2>1, <2>2, <2>3, <2>4 DEF Runs
<1>4. ASSUME NEW c \in Client, Locks(c) PROVE GdbTypes'
  <2>1. CASE Mark(c)
    BY <2>1 DEF Mark, Remaining
  <2>2. CASE Inspect(c) \/ ExtendedRemote(c) \/ StepCore(c)
    <3>1. CASE Inspect(c)
      BY <3>1 DEF Inspect, Handle, Reply
    <3>2. CASE ExtendedRemote(c)
      BY <3>2 DEF ExtendedRemote, Handle, Reply
    <3>3. CASE StepCore(c)
      BY <3>3 DEF StepCore, Handle, Reply
    <3> QED BY <2>2, <3>1, <3>2, <3>3
  <2>3. CASE Detach(c) \/ Kill(c) \/ Restart(c)
    <3>1. CASE Detach(c)
      BY <3>1 DEF Detach, Reply
    <3>2. CASE Kill(c)
      BY <3>2 DEF Kill, Handle, Reply
    <3>3. CASE Restart(c)
      BY <3>3 DEF Restart, Handle, Reply
    <3> QED BY <2>3, <3>1, <3>2, <3>3
  <2>4. CASE Continue(c)
    <3>1. CASE shutdown
      <4>1. /\ pc' = [pc EXCEPT ![c] = "loop"] /\ cmd' = [cmd EXCEPT ![c] = "none"]
            /\ interrupt' = [interrupt EXCEPT ![c] = FALSE] /\ core' = "running"
            /\ UNCHANGED <<sessions, server, flags, conn, faults>>
        BY <2>4, <3>1 DEF Continue, Handle, Again, Reply
      <4>2. pc' \in [Client -> Label] /\ cmd' \in [Client -> Commands \cup {"none", "stopped"}]
        BY <4>1
      <4> QED BY <4>1, <4>2
    <3>2. CASE ~shutdown
      BY <2>4, <3>2 DEF Continue, Handle, Again
    <3> QED BY <3>1, <3>2
  <2>5. CASE Poll(c)
    <3>1. CASE core = "running" /\ shutdown
      <4>1. /\ pc' = [pc EXCEPT ![c] = "loop"] /\ cmd' = [cmd EXCEPT ![c] = "none"]
            /\ interrupt' = [interrupt EXCEPT ![c] = FALSE]
            /\ UNCHANGED <<sessions, server, flags, conn, target>>
        BY <2>5, <3>1 DEF Poll, Again, Reply
      <4>2. pc' \in [Client -> Label] /\ cmd' \in [Client -> Commands \cup {"none", "stopped"}]
        BY <4>1
      <4> QED BY <4>1, <4>2
    <3>2. CASE core = "running" /\ ~shutdown
      BY <2>5, <3>2 DEF Poll, Again
    <3>3. CASE core # "running"
      BY <2>5, <3>3 DEF Poll, ReportStop, Reply
    <3> QED BY <3>1, <3>2, <3>3
  <2>6. CASE SemihostDone(c)
    <3>1. CASE pc[c] = "handled"
      BY <2>6, <3>1 DEF SemihostDone, Again, Reply
    <3>2. CASE pc[c] = "failed"
      BY <2>6, <3>2 DEF SemihostDone, ReportStop, Reply, Halted
    <3>3. CASE pc[c] = "report"
      BY <2>6, <3>3 DEF SemihostDone, ReportStop, Reply
    <3> QED BY <2>6, <3>1, <3>2, <3>3 DEF SemihostDone
  <2> QED BY <1>4, <2>1, <2>2, <2>3, <2>4, <2>5, <2>6 DEF Locks
<1>5. ASSUME NEW c \in Client, Interrupted(c) PROVE GdbTypes'
  BY <1>5 DEF Interrupted, Fault, Halted, ReportStop, Reply
<1>6. ASSUME NEW c \in Client, ReleaseFails(c) \/ PollFails(c) \/ PollError(c) PROVE GdbTypes'
  BY <1>6 DEF ReleaseFails, PollFails, PollError, Fault, Halted, ReportStop, Reply, Detached
<1>7. CASE ServerStep
  <2>1. CASE \/ AppendSession \/ HaltTarget \/ StartClient \/ DropClient
             \/ StopAccepting \/ Snapshot \/ Joined \/ ServerEnds
    <3>1. CASE AppendSession
      BY <3>1 DEF AppendSession, ServerInv
    <3>2. CASE HaltTarget
      BY <3>2 DEF HaltTarget, Halted
    <3>3. CASE StartClient \/ DropClient
      BY <3>3 DEF StartClient, DropClient, AfterClient
    <3>4. CASE StopAccepting \/ Snapshot \/ Joined \/ ServerEnds
      BY <3>4 DEF StopAccepting, Snapshot, Joined, ServerEnds
    <3> QED BY <2>1, <3>1, <3>2, <3>3, <3>4
  <2>2. ASSUME NEW c \in Client, StopClient(c) PROVE GdbTypes'
    BY <2>2 DEF StopClient
  <2> QED BY <1>7, <2>1, <2>2 DEF ServerStep
<1>8. CASE CoreStops \/ HaltFails \/ Stop
  BY <1>8 DEF CoreStops, HaltFails, Stop, Fault
<1>9. CASE UNCHANGED vars
  BY <1>9 DEF vars
<1> QED BY <1>1, <1>2, <1>3, <1>4, <1>5, <1>6, <1>7, <1>8, <1>9 DEF Next

(* Who holds a lock is where it is to be held.                             *)
LockInv ==
  /\ lock # NoOne => lock \in Client /\ pc[lock] \in Detaching
  /\ slock # NoOne => slock \in Client /\ pc[slock] \in {"release", "decide"}
  /\ owner # NoOne => owner \in Client /\ pc[owner] \in {"semi", "handled", "report", "failed"}

(* Sessions that have started and not yet been counted out.                *)
Alive(c) == pc[c] \notin {"off", "done", "release", "decide"}

SessionInv ==
  \A c \in Client :
    /\ conn[c] = "none" => pc[c] = "off"
    /\ pc[c] = "off" => conn[c] # "closed" /\ cmd[c] = "none" /\ (stopping[c] => shutdown)
    /\ conn[c] = "ended" => pc[c] \in Detaching \cup {"off", "done"}
    /\ pc[c] \in Detaching => (lock = c <=> conn[c] # "ended")
    /\ attached[c] => Alive(c)
    /\ ~shutdown /\ (Alive(c) \/ lock = c) => c \in sessions

(* Nothing is connected at the beginning.                                  *)
LEMMA SessionHolds == Init => ServerInv /\ SessionInv
  BY ServerAssumption DEF Init, ServerInv, SessionInv, Detaching, Alive

(* Every step keeps what a session is where its thread is.                 *)
LEMMA SessionKept ==
  ASSUME GdbTypes, ServerInv, LockInv, SessionInv, [Next]_vars
  PROVE  ServerInv' /\ SessionInv'
<1> USE ServerAssumption
    DEF GdbTypes, ServerInv, SessionInv, Detaching, Goto, Alive, server, locks, flags, session,
        link, target
<1>1. ASSUME NEW c \in Client, NEW command \in Uses, Send(c, command)
      PROVE ServerInv' /\ SessionInv'
  BY <1>1 DEF Send
<1>2. ASSUME NEW c \in Client, CtrlC(c) \/ Deliver(c) \/ Close(c) \/ Accept(c)
      PROVE ServerInv' /\ SessionInv'
  <2>1. CASE CtrlC(c) \/ Deliver(c)
    BY <1>2, <2>1 DEF CtrlC, Deliver
  <2>2. CASE Close(c)
    BY <2>2 DEF Close
  <2>3. CASE Accept(c)
    BY <2>3 DEF Accept
  <2> QED BY <1>2, <2>1, <2>2, <2>3
<1>3. ASSUME NEW c \in Client, Runs(c) PROVE ServerInv' /\ SessionInv'
  <2>1. CASE Attach(c) \/ Loop(c) \/ Receive(c)
    BY <2>1 DEF Attach, Loop, Receive
  <2>2. CASE Cleanup(c)
    <3>1. ServerInv'
      BY <2>2 DEF Cleanup
    <3>2. lock # c
      BY <2>2 DEF Cleanup, LockInv
    <3>3. SessionInv'
      BY <2>2, <3>2 DEF Cleanup
    <3> QED BY <3>1, <3>3
  <2>3. CASE Release(c)
    BY <2>3 DEF Release
  <2>4. CASE Decide(c)
    <3>1. ServerInv'
      BY <2>4 DEF Decide, Detached
    <3>2. CASE lock = c
      <4>1. /\ lock' = NoOne /\ pc' = [pc EXCEPT ![c] = "loop"] /\ cmd' = [cmd EXCEPT ![c] = "none"]
            /\ shutdown => shutdown'
            /\ UNCHANGED <<sessions, attached, stopping, conn>>
        BY <2>4, <3>2 DEF Decide, Detached
      <4>2. SessionInv'
        BY <3>2, <4>1, ServerAssumption DEF LockInv
      <4> QED BY <3>1, <4>2
    <3>3. CASE lock # c
      <4>1. /\ pc[c] = "decide" /\ pc' = [pc EXCEPT ![c] = "done"]
            /\ shutdown => shutdown'
            /\ UNCHANGED <<sessions, lock, cmd, attached, stopping, conn>>
        BY <2>4, <3>3 DEF Decide, Detached
      <4>2. SessionInv'
        <5>1. ASSUME NEW b \in Client \ {c} PROVE pc'[b] = pc[b]
          BY <4>1
        <5>2. pc'[c] = "done" /\ conn[c] = "ended" /\ ~attached[c]
          BY <3>3, <4>1 DEF LockInv
        <5> QED BY <3>3, <4>1, <5>1, <5>2
      <4> QED BY <3>1, <4>2
    <3> QED BY <3>2, <3>3
  <2>5. CASE Semihost(c)
    BY <2>5 DEF Semihost
  <2> QED BY <1>3, <2>1, <2>2, <2>3, <2>4, <2>5 DEF Runs
<1>4. ASSUME NEW c \in Client, Locks(c) PROVE ServerInv' /\ SessionInv'
  <2>1. CASE Mark(c)
    BY <2>1 DEF Mark, Remaining
  <2>2. CASE Inspect(c) \/ ExtendedRemote(c) \/ StepCore(c)
    BY <2>2 DEF Inspect, ExtendedRemote, StepCore, Handle, Reply
  <2>3. CASE Detach(c) \/ Kill(c) \/ Restart(c)
    BY <2>3 DEF Detach, Kill, Restart, Handle, Reply
  <2>4. CASE Continue(c)
    BY <2>4 DEF Continue, Handle, Again, Reply
  <2>5. CASE Poll(c)
    BY <2>5 DEF Poll, Again, ReportStop, Reply
  <2>6. CASE SemihostDone(c)
    BY <2>6 DEF SemihostDone, Again, ReportStop, Reply, Halted
  <2> QED BY <1>4, <2>1, <2>2, <2>3, <2>4, <2>5, <2>6 DEF Locks
<1>5. ASSUME NEW c \in Client, Interrupted(c) PROVE ServerInv' /\ SessionInv'
  BY <1>5 DEF Interrupted, Fault, Halted, ReportStop, Reply
<1>6. ASSUME NEW c \in Client, ReleaseFails(c) \/ PollFails(c) \/ PollError(c)
      PROVE ServerInv' /\ SessionInv'
  BY <1>6 DEF ReleaseFails, PollFails, PollError, Fault, Halted, ReportStop, Reply, Detached
<1>7. CASE ServerStep
  <2>1. CASE AppendSession \/ HaltTarget \/ StopAccepting \/ Snapshot \/ ServerEnds
    BY <2>1 DEF AppendSession, HaltTarget, StopAccepting, Snapshot, ServerEnds
  <2>2. CASE StartClient
    BY <2>2 DEF StartClient, AfterClient
  <2>3. CASE DropClient
    <3>1. ServerInv'
      BY <2>3 DEF DropClient, AfterClient
    <3>2. SessionInv'
      BY <2>3 DEF DropClient, LockInv
    <3> QED BY <3>1, <3>2
  <2>4. CASE Joined
    BY <2>4 DEF Joined
  <2>5. ASSUME NEW c \in Client, StopClient(c) PROVE ServerInv' /\ SessionInv'
    BY <2>5 DEF StopClient
  <2> QED BY <1>7, <2>1, <2>2, <2>3, <2>4, <2>5 DEF ServerStep
<1>8. CASE CoreStops \/ HaltFails \/ Stop
  BY <1>8 DEF CoreStops, HaltFails, Stop, Fault
<1>9. CASE UNCHANGED vars
  BY <1>9 DEF vars
<1> QED BY <1>1, <1>2, <1>3, <1>4, <1>5, <1>6, <1>7, <1>8, <1>9 DEF Next

(* The locks are free at the beginning.                                    *)
LEMMA LockHolds == Init => LockInv
  BY DEF Init, LockInv

(* Every step keeps the locks where they are to be held.                   *)
LEMMA LockKept ==
  ASSUME GdbTypes, ServerInv, LockInv, SessionInv, [Next]_vars
  PROVE  LockInv'
<1> USE ServerAssumption
    DEF GdbTypes, ServerInv, SessionInv, LockInv, Detaching, Goto, server, locks, flags, session,
        link, target
<1>1. ASSUME NEW c \in Client, NEW command \in Uses, Send(c, command) PROVE LockInv'
  BY <1>1 DEF Send
<1>2. ASSUME NEW c \in Client, CtrlC(c) \/ Deliver(c) \/ Close(c) \/ Accept(c)
      PROVE LockInv'
  BY <1>2 DEF CtrlC, Deliver, Close, Accept
<1>3. ASSUME NEW c \in Client, Runs(c) PROVE LockInv'
  <2>1. CASE Attach(c) \/ Loop(c) \/ Receive(c)
    BY <2>1 DEF Attach, Loop, Receive
  <2>2. CASE Cleanup(c)
    BY <2>2 DEF Cleanup
  <2>3. CASE Release(c) \/ Decide(c)
    BY <2>3 DEF Release, Decide, Detached
  <2>4. CASE Semihost(c)
    BY <2>4 DEF Semihost
  <2> QED BY <1>3, <2>1, <2>2, <2>3, <2>4 DEF Runs
<1>4. ASSUME NEW c \in Client, Locks(c) PROVE LockInv'
  <2>1. CASE Mark(c)
    BY <2>1 DEF Mark, Remaining
  <2>2. CASE Inspect(c) \/ ExtendedRemote(c) \/ StepCore(c)
    BY <2>2 DEF Inspect, ExtendedRemote, StepCore, Handle, Reply
  <2>3. CASE Detach(c) \/ Kill(c) \/ Restart(c)
    BY <2>3 DEF Detach, Kill, Restart, Handle, Reply
  <2>4. CASE Continue(c)
    BY <2>4 DEF Continue, Handle, Again, Reply
  <2>5. CASE Poll(c)
    BY <2>5 DEF Poll, Again, ReportStop, Reply
  <2>6. CASE SemihostDone(c)
    BY <2>6 DEF SemihostDone, Again, ReportStop, Reply, Halted
  <2> QED BY <1>4, <2>1, <2>2, <2>3, <2>4, <2>5, <2>6 DEF Locks
<1>5. ASSUME NEW c \in Client, Interrupted(c) PROVE LockInv'
  BY <1>5 DEF Interrupted, Fault, Halted, ReportStop, Reply
<1>6. ASSUME NEW c \in Client, ReleaseFails(c) \/ PollFails(c) \/ PollError(c)
      PROVE LockInv'
  BY <1>6 DEF ReleaseFails, PollFails, PollError, Fault, Halted, ReportStop, Reply, Detached
<1>7. CASE ServerStep
  <2>1. CASE AppendSession \/ HaltTarget \/ StopAccepting \/ Snapshot \/ ServerEnds
    BY <2>1 DEF AppendSession, HaltTarget, StopAccepting, Snapshot, ServerEnds
  <2>2. CASE StartClient
    BY <2>2 DEF StartClient, AfterClient
  <2>3. CASE DropClient
    BY <2>3 DEF DropClient, AfterClient
  <2>4. CASE Joined
    BY <2>4 DEF Joined
  <2>5. ASSUME NEW c \in Client, StopClient(c) PROVE LockInv'
    BY <2>5 DEF StopClient
  <2> QED BY <1>7, <2>1, <2>2, <2>3, <2>4, <2>5 DEF ServerStep
<1>8. CASE CoreStops \/ HaltFails \/ Stop
  BY <1>8 DEF CoreStops, HaltFails, Stop, Fault
<1>9. CASE UNCHANGED vars
  BY <1>9 DEF vars
<1> QED BY <1>1, <1>2, <1>3, <1>4, <1>5, <1>6, <1>7, <1>8, <1>9 DEF Next

(* While a gdb arrives, and they are kept apart, none leaves.              *)
OverlapInv == ~shutdown => \A c, d \in Client : ~(Arriving(c) /\ Leaving(d))

(* No gdb arrives or leaves at the beginning.                              *)
LEMMA OverlapHolds == Init => OverlapInv
  BY DEF Init, OverlapInv, Arriving, Leaving

(* Every step keeps them apart, if the gdbs do.                            *)
LEMMA OverlapKept ==
  ASSUME ~Overlap, GdbTypes, ServerInv, SessionInv, OverlapInv, [Next]_vars
  PROVE  OverlapInv'
<1> USE ServerAssumption
    DEF GdbTypes, ServerInv, SessionInv, OverlapInv, Arriving, Leaving, Detaching, Goto, server,
        locks, flags, session, link, target
<1>1. ASSUME NEW c \in Client, NEW command \in Uses, Send(c, command) PROVE OverlapInv'
  BY <1>1 DEF Send
<1>2. ASSUME NEW c \in Client, CtrlC(c) \/ Deliver(c) \/ Close(c) \/ Accept(c)
      PROVE OverlapInv'
  BY <1>2 DEF CtrlC, Deliver, Close, Accept
<1>3. ASSUME NEW c \in Client, Runs(c) PROVE OverlapInv'
  <2>1. CASE Attach(c) \/ Loop(c) \/ Receive(c)
    BY <2>1 DEF Attach, Loop, Receive
  <2>2. CASE Cleanup(c)
    BY <2>2 DEF Cleanup
  <2>3. CASE Release(c) \/ Decide(c)
    <3>1. CASE Release(c)
      BY <3>1 DEF Release
    <3>2. CASE Decide(c)
      <4>1. pc[c] = "decide" /\ (shutdown => shutdown')
        BY <3>2 DEF Decide
      <4>2. UNCHANGED <<srv, cur, conn, stopping>>
        BY <3>2 DEF Decide
      <4>3. \/ pc' = [pc EXCEPT ![c] = "loop"] /\ cmd' = [cmd EXCEPT ![c] = "none"]
            \/ pc' = [pc EXCEPT ![c] = "done"] /\ cmd' = cmd
        BY <3>2 DEF Decide, Detached
      <4>4. \A d \in Client : Arriving(d)' => Arriving(d)
        BY <4>1, <4>2, <4>3
      <4>5. \A d \in Client : Leaving(d)' => Leaving(d)
        BY <4>1, <4>2, <4>3
      <4> QED BY <4>1, <4>4, <4>5 DEF OverlapInv
    <3> QED BY <2>3, <3>1, <3>2
  <2>4. CASE Semihost(c)
    BY <2>4 DEF Semihost
  <2> QED BY <1>3, <2>1, <2>2, <2>3, <2>4 DEF Runs
<1>4. ASSUME NEW c \in Client, Locks(c) PROVE OverlapInv'
  <2>1. CASE Mark(c)
    BY <2>1 DEF Mark, Remaining
  <2>2. CASE Inspect(c) \/ ExtendedRemote(c) \/ StepCore(c)
    BY <2>2 DEF Inspect, ExtendedRemote, StepCore, Handle, Reply
  <2>3. CASE Detach(c) \/ Kill(c) \/ Restart(c)
    BY <2>3 DEF Detach, Kill, Restart, Handle, Reply
  <2>4. CASE Continue(c)
    BY <2>4 DEF Continue, Handle, Again, Reply
  <2>5. CASE Poll(c)
    BY <2>5 DEF Poll, Again, ReportStop, Reply
  <2>6. CASE SemihostDone(c)
    BY <2>6 DEF SemihostDone, Again, ReportStop, Reply, Halted
  <2> QED BY <1>4, <2>1, <2>2, <2>3, <2>4, <2>5, <2>6 DEF Locks
<1>5. ASSUME NEW c \in Client, Interrupted(c) PROVE OverlapInv'
  BY <1>5 DEF Interrupted, Fault, Halted, ReportStop, Reply
<1>6. ASSUME NEW c \in Client, ReleaseFails(c) \/ PollFails(c) \/ PollError(c)
      PROVE OverlapInv'
  BY <1>6 DEF ReleaseFails, PollFails, PollError, Fault, Halted, ReportStop, Reply, Detached
<1>7. CASE ServerStep
  <2>1. CASE AppendSession \/ HaltTarget \/ StopAccepting \/ Snapshot \/ ServerEnds
    BY <2>1 DEF AppendSession, HaltTarget, StopAccepting, Snapshot, ServerEnds
  <2>2. CASE StartClient
    BY <2>2 DEF StartClient, AfterClient
  <2>3. CASE DropClient
    BY <2>3 DEF DropClient, AfterClient
  <2>4. CASE Joined
    BY <2>4 DEF Joined
  <2>5. ASSUME NEW c \in Client, StopClient(c) PROVE OverlapInv'
    BY <2>5 DEF StopClient
  <2> QED BY <1>7, <2>1, <2>2, <2>3, <2>4, <2>5 DEF ServerStep
<1>8. CASE CoreStops \/ HaltFails \/ Stop
  BY <1>8 DEF CoreStops, HaltFails, Stop, Fault
<1>9. CASE UNCHANGED vars
  BY <1>9 DEF vars
<1> QED BY <1>1, <1>2, <1>3, <1>4, <1>5, <1>6, <1>7, <1>8, <1>9 DEF Next

(* While gdbs are attached, or about to be, only one that waits for its    *)
(* program lets the core run; and what resumes it is alone.                *)
HaltInv ==
  ~shutdown =>
    /\ \A c \in Client : pc[c] = "release" => \A d \in Client : ~attached[d]
    /\ /\ core = "running" /\ ~lost
       /\ srv = "start" \/ \E c \in Client : attached[c] \/ pc[c] = "attach"
       => \E c \in Client : pc[c] = "wait"

(* No gdb is attached at the beginning.                                    *)
LEMMA HaltHolds == Init => HaltInv
  BY DEF Init, HaltInv

(* Every step keeps what lets the core run, if gdbs do not attach while    *)
(* one leaves.                                                             *)
LEMMA HaltKept ==
  ASSUME ~Overlap, GdbTypes, ServerInv, LockInv, SessionInv, OverlapInv, HaltInv, [Next]_vars
  PROVE  HaltInv'
<1> USE DEF GdbTypes, HaltInv, Goto, server, locks, flags, session, link, target
<1>1. ASSUME NEW c \in Client, NEW command \in Uses, Send(c, command) PROVE HaltInv'
  BY <1>1 DEF Send
<1>2. ASSUME NEW c \in Client, CtrlC(c) \/ Deliver(c) \/ Close(c) \/ Accept(c)
      PROVE HaltInv'
  BY <1>2 DEF CtrlC, Deliver, Close, Accept
<1>3. ASSUME NEW c \in Client, Runs(c) PROVE HaltInv'
  <2>1. CASE Attach(c)
    <3>1. ~shutdown => \A d \in Client : pc[d] # "release"
      BY <2>1 DEF Attach, OverlapInv, Arriving, Leaving, Detaching
    <3> QED BY <2>1, <3>1 DEF Attach
  <2>2. CASE Loop(c) \/ Receive(c)
    BY <2>2 DEF Loop, Receive
  <2>3. CASE Cleanup(c)
    BY <2>3 DEF Cleanup
  <2>4. CASE Release(c)
    <3>1. ~shutdown => srv # "start" /\ \A d \in Client : pc[d] # "attach" /\ ~attached[d]
      BY <2>4 DEF Release, OverlapInv, Arriving, Leaving, Detaching, ServerInv
    <3> QED BY <2>4, <3>1 DEF Release
  <2>5. CASE Decide(c)
    BY <2>5 DEF Decide, Detached
  <2>6. CASE Semihost(c)
    BY <2>6 DEF Semihost
  <2> QED BY <1>3, <2>1, <2>2, <2>3, <2>4, <2>5, <2>6 DEF Runs
<1>4. ASSUME NEW c \in Client, Locks(c) PROVE HaltInv'
  <2>1. CASE Mark(c)
    <3>1. ~shutdown /\ ~StillAttached(c) => \A d \in Client : d # c => ~attached[d]
      BY DEF SessionInv, StillAttached, Remaining, Alive
    <3> QED BY <2>1, <3>1 DEF Mark
  <2>2. CASE Inspect(c) \/ ExtendedRemote(c) \/ StepCore(c)
    <3>1. CASE StepCore(c)
      <4>1. core' = "running" /\ ~lost' => core = "running" /\ ~lost
        BY <3>1 DEF StepCore
      <4> QED BY <3>1, <4>1 DEF StepCore, Handle, Reply
    <3> QED BY <2>2, <3>1 DEF Inspect, ExtendedRemote, Handle, Reply
  <2>3. CASE Detach(c) \/ Kill(c)
    BY <2>3 DEF Detach, Kill, Handle, Reply
  <2>4. CASE Restart(c)
    <3>1. ~shutdown => \A d \in Client : pc[d] # "release"
      BY <2>4 DEF Restart, Handle, OverlapInv, Arriving, Leaving, Detaching
    <3> QED BY <2>4, <3>1 DEF Restart, Handle, Reply
  <2>5. CASE Continue(c)
    BY <2>5 DEF Continue, Handle, Again, Reply
  <2>6. CASE Poll(c)
    BY <2>6 DEF Poll, Again, ReportStop, Reply
  <2>7. CASE SemihostDone(c)
    BY <2>7 DEF SemihostDone, Again, ReportStop, Reply, Halted
  <2> QED BY <1>4, <2>1, <2>2, <2>3, <2>4, <2>5, <2>6, <2>7 DEF Locks
<1>5. ASSUME NEW c \in Client, Interrupted(c) PROVE HaltInv'
  BY <1>5 DEF Interrupted, Fault, Halted, ReportStop, Reply
<1>6. ASSUME NEW c \in Client, ReleaseFails(c) \/ PollFails(c) \/ PollError(c)
      PROVE HaltInv'
  <2>1. CASE ReleaseFails(c)
    <3>1. ~shutdown => srv # "start" /\ \A d \in Client : pc[d] # "attach" /\ ~attached[d]
      BY <2>1 DEF ReleaseFails, OverlapInv, Arriving, Leaving, Detaching, ServerInv
    <3>2. UNCHANGED <<attached, shutdown, srv>>
      BY <2>1 DEF ReleaseFails
    <3>3. \A d \in Client : pc'[d] \in {"attach", "release"} => pc'[d] = pc[d]
      BY <2>1 DEF ReleaseFails, Detached
    <3> QED BY <3>1, <3>2, <3>3
  <2> QED BY <1>6, <2>1 DEF PollFails, PollError, Fault, Halted, ReportStop, Reply
<1>7. CASE ServerStep
  <2>1. CASE AppendSession \/ HaltTarget \/ StopAccepting \/ Snapshot \/ ServerEnds
    BY <2>1 DEF AppendSession, HaltTarget, StopAccepting, Snapshot, ServerEnds, Halted
  <2>2. CASE StartClient
    BY <2>2 DEF StartClient, AfterClient, ServerInv
  <2>3. CASE DropClient
    BY <2>3 DEF DropClient, AfterClient
  <2>4. CASE Joined
    BY <2>4 DEF Joined
  <2>5. ASSUME NEW c \in Client, StopClient(c) PROVE HaltInv'
    BY <2>5 DEF StopClient
  <2> QED BY <1>7, <2>1, <2>2, <2>3, <2>4, <2>5 DEF ServerStep
<1>8. CASE CoreStops \/ HaltFails \/ Stop
  BY <1>8 DEF CoreStops, HaltFails, Stop, Fault
<1>9. CASE UNCHANGED vars
  BY <1>9 DEF vars
<1> QED BY <1>1, <1>2, <1>3, <1>4, <1>5, <1>6, <1>7, <1>8, <1>9 DEF Next

(* A core that is halted is halted for a session that has yet to count     *)
(* itself out, or that is about to start.                                  *)
EndInv ==
  core = "halted" /\ ~lost =>
    \/ \A c \in Client : pc[c] = "off"
    \/ srv = "start"
    \/ \E c \in Client : Alive(c) \/ pc[c] = "release" \/ (pc[c] = "decide" /\ lock = c)

(* No session is over at the beginning.                                    *)
LEMMA EndHolds == Init => EndInv
  BY DEF Init, EndInv

(* Every step keeps whom the core is halted for.                           *)
LEMMA EndKept ==
  ASSUME GdbTypes, ServerInv, LockInv, SessionInv, EndInv, [Next]_vars
  PROVE  EndInv'
<1> USE DEF GdbTypes, EndInv, Alive, Goto, server, locks, flags, session, link, target
<1>1. ASSUME NEW c \in Client, NEW command \in Uses, Send(c, command) PROVE EndInv'
  BY <1>1 DEF Send
<1>2. ASSUME NEW c \in Client, CtrlC(c) \/ Deliver(c) \/ Close(c) \/ Accept(c)
      PROVE EndInv'
  BY <1>2 DEF CtrlC, Deliver, Close, Accept
<1>3. ASSUME NEW c \in Client, Runs(c) PROVE EndInv'
  <2>1. CASE Attach(c) \/ Loop(c) \/ Receive(c)
    BY <2>1 DEF Attach, Loop, Receive
  <2>2. CASE Cleanup(c)
    BY <2>2 DEF Cleanup
  <2>3. CASE Release(c)
    BY <2>3 DEF Release
  <2>4. CASE Decide(c)
    BY <2>4 DEF Decide, Detached
  <2>5. CASE Semihost(c)
    BY <2>5 DEF Semihost
  <2> QED BY <1>3, <2>1, <2>2, <2>3, <2>4, <2>5 DEF Runs
<1>4. ASSUME NEW c \in Client, Locks(c) PROVE EndInv'
  <2>1. CASE Mark(c)
    <3>1. StillAttached(c) => \E d \in Client : d # c /\ Alive(d)
      BY DEF SessionInv, StillAttached, Remaining
    <3> QED BY <2>1, <3>1 DEF Mark
  <2>2. CASE Inspect(c) \/ ExtendedRemote(c) \/ StepCore(c)
    BY <2>2 DEF Inspect, ExtendedRemote, StepCore, Handle, Reply
  <2>3. CASE Detach(c) \/ Kill(c) \/ Restart(c)
    BY <2>3 DEF Detach, Kill, Restart, Handle, Reply
  <2>4. CASE Continue(c)
    BY <2>4 DEF Continue, Handle, Again, Reply
  <2>5. CASE Poll(c)
    BY <2>5 DEF Poll, Again, ReportStop, Reply
  <2>6. CASE SemihostDone(c)
    BY <2>6 DEF SemihostDone, Again, ReportStop, Reply, Halted
  <2> QED BY <1>4, <2>1, <2>2, <2>3, <2>4, <2>5, <2>6 DEF Locks
<1>5. ASSUME NEW c \in Client, Interrupted(c) PROVE EndInv'
  BY <1>5 DEF Interrupted, Fault, Halted, ReportStop, Reply
<1>6. ASSUME NEW c \in Client, ReleaseFails(c) \/ PollFails(c) \/ PollError(c)
      PROVE EndInv'
  BY <1>6 DEF ReleaseFails, PollFails, PollError, Fault, Halted, ReportStop, Reply, Detached
<1>7. CASE ServerStep
  <2>1. CASE AppendSession \/ HaltTarget \/ StopAccepting \/ Snapshot \/ ServerEnds
    BY <2>1 DEF AppendSession, HaltTarget, StopAccepting, Snapshot, ServerEnds
  <2>2. CASE StartClient
    BY <2>2 DEF StartClient, AfterClient, ServerInv
  <2>3. CASE DropClient
    BY <2>3 DEF DropClient, AfterClient
  <2>4. CASE Joined
    BY <2>4 DEF Joined
  <2>5. ASSUME NEW c \in Client, StopClient(c) PROVE EndInv'
    BY <2>5 DEF StopClient
  <2> QED BY <1>7, <2>1, <2>2, <2>3, <2>4, <2>5 DEF ServerStep
<1>8. CASE CoreStops \/ HaltFails \/ Stop
  BY <1>8 DEF CoreStops, HaltFails, Stop, Fault
<1>9. CASE UNCHANGED vars
  BY <1>9 DEF vars
<1> QED BY <1>1, <1>2, <1>3, <1>4, <1>5, <1>6, <1>7, <1>8, <1>9 DEF Next

GdbInv == GdbTypes /\ ServerInv /\ LockInv /\ SessionInv /\ EndInv

(* What needs no assumption about the gdbs holds at any time.              *)
LEMMA GdbInvAlways == Spec => []GdbInv
<1>1. Init => GdbInv
  BY TypesHold, SessionHolds, LockHolds, EndHolds DEF GdbInv
<1>2. GdbInv /\ [Next]_vars => GdbInv'
  BY TypesKept, SessionKept, LockKept, EndKept DEF GdbInv
<1> QED BY <1>1, <1>2, PTL DEF Spec

(* Every variable keeps its type, and each of the three locks is held only *)
(* by a session that is where the code holds it: for any number of gdbs,   *)
(* commands, faults and stops.                                             *)
THEOREM GdbTypeCorrect == Spec => []TypeOK
<1>1. GdbInv => TypeOK
  BY DEF GdbInv, GdbTypes, LockInv, TypeOK, Links
<1> QED BY <1>1, GdbInvAlways, PTL

(* When every session that was served is over, the core is not left as the *)
(* server halted it: also when gdbs attach while others leave, the server  *)
(* is stopped at any point and its join times out.                         *)
THEOREM ReleasedAtEndAlways == Spec => []ReleasedAtEnd
<1>1. GdbInv => ReleasedAtEnd
  BY DEF GdbInv, EndInv, ReleasedAtEnd, Alive
<1> QED BY <1>1, GdbInvAlways, PTL

(* While gdbs are attached and none has let its program run, the core is   *)
(* halted, if no gdb attaches while another one leaves (see the run        *)
(* gdb_attach_race for what happens if one does).                          *)
THEOREM AllStoppedIsHaltedAlways == ASSUME ~Overlap PROVE Spec => []AllStoppedIsHalted
<1>1. Init => OverlapInv /\ HaltInv
  BY OverlapHolds, HaltHolds
<1>2. GdbInv /\ OverlapInv /\ HaltInv /\ [Next]_vars => OverlapInv' /\ HaltInv'
  BY OverlapKept, HaltKept DEF GdbInv
<1>3. HaltInv => AllStoppedIsHalted
  BY DEF HaltInv, AllStoppedIsHalted, InResume
<1> QED BY <1>1, <1>2, <1>3, GdbInvAlways, PTL DEF Spec

-----------------------------------------------------------------------------
(***************************************************************************)
(* Type correctness of RemoteProbe and the exclusion its clients rely on,  *)
(* for every number of clients and threads and every nesting of locks.     *)
(*                                                                         *)
(* The count of a client stands for the locks its threads hold: it is the  *)
(* number of pairs of a thread and one of its locks.  While it is not 0    *)
(* the client's handler owns the probe's lock, and between the last        *)
(* unlock() and the server's answer nobody holds one.                      *)
(*                                                                         *)
(* The counts of the proxy stand in the same way for sets of clients, from *)
(* the handler's answer to open() or connect() to its answer to close() or *)
(* disconnect(); a client that is lost is in the count but not in the set. *)
(***************************************************************************)

Held(c) == {l \in RpThread \X (1..MaxHeld) : Home[l[1]] = c /\ l[2] <= held[l[1]]}

(* A thread takes a lock it has room for, and uses or gives back one it    *)
(* has.                                                                    *)
MethodsFit ==
  \A t \in RpThread :
    /\ method[t] = "lock" => held[t] < MaxHeld
    /\ method[t] = "access" => held[t] > 0
    /\ method[t] = "unlock" /\ counting[Home[t]] # t => held[t] > 0

(* Who counts or requests is in a method of this client; lock() and        *)
(* unlock() request while they count.                                      *)
HoldersFit ==
  \A c \in RpClient, t \in RpThread :
    /\ counting[c] = t => Home[t] = c /\ method[t] \in {"lock", "unlock"}
    /\ requesting[c] = t => /\ Home[t] = c /\ method[t] # "none"
                            /\ wire[c] \in {method[t], "ok", "error"}
                            /\ method[t] \in {"lock", "unlock"} => counting[c] = t

(* The connection is free between requests, unless its client was lost,    *)
(* whose threads do nothing any more.                                      *)
ConnectionFits ==
  \A c \in RpClient :
    /\ stage[c] # "lost" /\ requesting[c] = Nobody => wire[c] = "none"
    /\ stage[c] = "lost" => /\ requesting[c] = Nobody /\ counting[c] = Nobody
                            /\ lockCount[c] = 0
                            /\ \A t \in RpThread : Home[t] = c => method[t] = "none" /\ held[t] = 0
    /\ c \in inside => wire[c] \in Proxied

(* The count is the number of locks its threads have.                      *)
CountFits == \A c \in RpClient : IsFiniteSet(Held(c)) /\ lockCount[c] = Cardinality(Held(c))

(* The handler owns the probe's lock from its answer to the first lock()   *)
(* to its answer to the last unlock().                                     *)
OwnerFits ==
  /\ \A c \in RpClient :
       /\ lockCount[c] > 0 => probeLock = c
       /\ wire[c] \in {"access", "unlock"} => probeLock = c
       /\ wire[c] = "unlock" => lockCount[c] = 0
       /\ wire[c] = "unlock" /\ stage[c] # "lost"
            => requesting[c] \in RpThread /\ method[requesting[c]] = "unlock"
  /\ \A t \in RpThread :
       LET c == Home[t]
       IN /\ method[t] = "lock" /\ requesting[c] = t
               => wire[c] = "lock" \/ (wire[c] = "ok" /\ probeLock = c)
          /\ method[t] = "unlock" /\ counting[c] = t
               => /\ lockCount[c] = 0
                  /\ probeLock = c \/ (requesting[c] = t /\ wire[c] = "ok")

RpInv == RpTypeOK /\ MethodsFit /\ HoldersFit /\ ConnectionFits /\ CountFits /\ OwnerFits

-----------------------------------------------------------------------------
(* Counting                                                                *)

LEMMA HomeIsClient == \A t \in RpThread : Home[t] \in RpClient
  BY DEF RpClient

(* One more lock of a thread is one more pair.                             *)
LEMMA LockAdds ==
  ASSUME RpTypeOK, CountFits, NEW t \in RpThread, held[t] < MaxHeld,
         held' = [held EXCEPT ![t] = @ + 1],
         lockCount' = [lockCount EXCEPT ![Home[t]] = @ + 1]
  PROVE  CountFits'
<1>1. held[t] \in 0..MaxHeld /\ MaxHeld \in Nat
  BY RemoteAssumption DEF RpTypeOK
<1>2. ASSUME NEW c \in RpClient, c # Home[t]
      PROVE  Held(c)' = Held(c) /\ lockCount'[c] = lockCount[c]
  BY <1>2 DEF RpTypeOK, Held
<1>3. /\ Held(Home[t])' = Held(Home[t]) \cup {<<t, held[t] + 1>>}
      /\ <<t, held[t] + 1>> \notin Held(Home[t])
  BY <1>1 DEF RpTypeOK, Held
<1>4. IsFiniteSet(Held(Home[t])')
      /\ Cardinality(Held(Home[t])') = Cardinality(Held(Home[t])) + 1
  <2> DEFINE S == Held(Home[t])
             x == <<t, held[t] + 1>>
  <2>1. IsFiniteSet(S)
    BY HomeIsClient DEF CountFits
  <2>2. x \notin S
    BY <1>3
  <2> HIDE DEF S, x
  <2>3. IsFiniteSet(S \cup {x}) /\ Cardinality(S \cup {x}) = Cardinality(S) + 1
    BY <2>1, <2>2, FS_AddElement
  <2> QED
    BY <1>3, <2>3 DEF S, x
<1>5. lockCount'[Home[t]] = lockCount[Home[t]] + 1
  BY HomeIsClient DEF RpTypeOK
<1> QED
  BY <1>2, <1>4, <1>5, HomeIsClient DEF CountFits

(* One lock less of a thread is one pair less.                             *)
LEMMA UnlockRemoves ==
  ASSUME RpTypeOK, CountFits, NEW t \in RpThread, held[t] > 0,
         held' = [held EXCEPT ![t] = @ - 1],
         lockCount' = [lockCount EXCEPT ![Home[t]] = @ - 1]
  PROVE  CountFits'
<1>1. held[t] \in 0..MaxHeld /\ MaxHeld \in Nat
  BY RemoteAssumption DEF RpTypeOK
<1>2. ASSUME NEW c \in RpClient, c # Home[t]
      PROVE  Held(c)' = Held(c) /\ lockCount'[c] = lockCount[c]
  BY <1>2 DEF RpTypeOK, Held
<1>3. /\ Held(Home[t])' = Held(Home[t]) \ {<<t, held[t]>>}
      /\ <<t, held[t]>> \in Held(Home[t])
  BY <1>1 DEF RpTypeOK, Held
<1>4. IsFiniteSet(Held(Home[t])')
      /\ Cardinality(Held(Home[t])') = Cardinality(Held(Home[t])) - 1
  <2> DEFINE S == Held(Home[t])
             x == <<t, held[t]>>
  <2>1. IsFiniteSet(S)
    BY HomeIsClient DEF CountFits
  <2>2. x \in S
    BY <1>3
  <2> HIDE DEF S, x
  <2>3. IsFiniteSet(S \ {x}) /\ Cardinality(S \ {x}) = Cardinality(S) - 1
    BY <2>1, <2>2, FS_RemoveElement
  <2> QED
    BY <1>3, <2>3 DEF S, x
<1>5. lockCount'[Home[t]] = lockCount[Home[t]] - 1
  BY HomeIsClient DEF RpTypeOK
<1> QED
  BY <1>2, <1>4, <1>5, HomeIsClient DEF CountFits

(* Where a thread has a lock the count is not 0.                           *)
LEMMA HeldIsCounted ==
  ASSUME RpTypeOK, CountFits, NEW t \in RpThread, held[t] > 0
  PROVE  lockCount[Home[t]] > 0
<1>1. <<t, 1>> \in Held(Home[t])
  BY RemoteAssumption DEF RpTypeOK, Held
<1>2. Cardinality(Held(Home[t])) # 0
  BY <1>1, HomeIsClient, FS_EmptySet DEF CountFits
<1> QED
  BY <1>2, HomeIsClient DEF RpTypeOK, CountFits

(* The counts agree as long as neither changes.                            *)
LEMMA CountKept ==
  ASSUME CountFits, UNCHANGED <<held, lockCount>>
  PROVE  CountFits'
BY DEF CountFits, Held

(* Who may access has the lock of the server.                              *)
LEMMA InvImpliesExclusive ==
  ASSUME RpInv
  PROVE  LockIsExclusive
BY HeldIsCounted, HomeIsClient DEF RpInv, OwnerFits, LockIsExclusive

-----------------------------------------------------------------------------
(* The threads of the clients                                              *)

LEMMA CallStep ==
  ASSUME RpInv, NEW t \in RpThread, NEW m \in Methods, Call(t, m)
  PROVE  RpInv'
<1>1. RpTypeOK'
  BY DEF RpInv, RpTypeOK, Call, rpLocal, rpProxy
<1>2. MethodsFit' /\ HoldersFit' /\ ConnectionFits'
  BY HomeIsClient DEF RpInv, RpTypeOK, MethodsFit, HoldersFit, ConnectionFits, Call, InUse, rpLocal, rpProxy
<1>3. CountFits'
  BY CountKept DEF RpInv, Call, rpLocal
<1>4. OwnerFits'
  BY HomeIsClient DEF RpInv, RpTypeOK, HoldersFit, OwnerFits, Call, rpLocal, rpProxy
<1> QED
  BY <1>1, <1>2, <1>3, <1>4 DEF RpInv

LEMMA LockStep ==
  ASSUME RpInv, NEW t \in RpThread, Lock(t)
  PROVE  RpInv'
<1>1. RpTypeOK'
  BY HomeIsClient, RemoteAssumption DEF RpInv, RpTypeOK, MethodsFit, Lock, rpProxy
<1>2. MethodsFit'
  BY HomeIsClient, RemoteAssumption DEF RpInv, RpTypeOK, MethodsFit, Lock
<1>3. HoldersFit'
  BY HomeIsClient, RemoteAssumption DEF RpInv, RpTypeOK, HoldersFit, Lock
<1>4. ConnectionFits'
  BY HomeIsClient, RemoteAssumption DEF RpInv, RpTypeOK, ConnectionFits, Lock, rpProxy
<1>5. CountFits'
  BY CountKept, LockAdds DEF RpInv, MethodsFit, Lock
<1>6. OwnerFits'
  BY HomeIsClient, RemoteAssumption DEF RpInv, RpTypeOK, HoldersFit, OwnerFits, Lock
<1> QED
  BY <1>1, <1>2, <1>3, <1>4, <1>5, <1>6 DEF RpInv

LEMMA UnlockStep ==
  ASSUME RpInv, NEW t \in RpThread, Unlock(t)
  PROVE  RpInv'
<1>0. held[t] > 0 /\ lockCount[Home[t]] > 0
  BY HeldIsCounted, RemoteAssumption DEF RpInv, MethodsFit, Unlock
<1>1. RpTypeOK'
  <2>1. held[t] - 1 \in 0..MaxHeld /\ lockCount[Home[t]] - 1 \in Nat
    BY <1>0, HomeIsClient, RemoteAssumption DEF RpInv, RpTypeOK
  <2>2. held' \in [RpThread -> 0..MaxHeld] /\ lockCount' \in [RpClient -> Nat]
    BY <2>1 DEF RpInv, RpTypeOK, Unlock
  <2>3. /\ method' \in [RpThread -> Methods \cup {"none"}]
        /\ counting' \in [RpClient -> RpThread \cup {Nobody}]
    BY DEF RpInv, RpTypeOK, Unlock
  <2> QED
    BY <2>2, <2>3 DEF RpInv, RpTypeOK, Unlock, rpProxy
<1>2. MethodsFit'
  BY <1>0, HomeIsClient, RemoteAssumption DEF RpInv, RpTypeOK, MethodsFit, Unlock
<1>3. HoldersFit'
  BY HomeIsClient, RemoteAssumption DEF RpInv, RpTypeOK, HoldersFit, Unlock
<1>4. ConnectionFits'
  BY <1>0, HomeIsClient, RemoteAssumption DEF RpInv, RpTypeOK, ConnectionFits, Unlock, rpProxy
<1>5. CountFits'
  BY <1>0, UnlockRemoves DEF RpInv, Unlock
<1>6. OwnerFits'
  BY <1>0, HomeIsClient, RemoteAssumption DEF RpInv, RpTypeOK, HoldersFit, OwnerFits, Unlock
<1> QED
  BY <1>1, <1>2, <1>3, <1>4, <1>5, <1>6 DEF RpInv

LEMMA RequestStep ==
  ASSUME RpInv, NEW t \in RpThread, Request(t)
  PROVE  RpInv'
<1>0. wire[Home[t]] = "none" /\ Home[t] \in RpClient
  BY HomeIsClient DEF RpInv, ConnectionFits, Request
<1>1. RpTypeOK'
  BY <1>0 DEF RpInv, RpTypeOK, Request, rpLocal, rpProxy
<1>2. MethodsFit' /\ HoldersFit'
  BY <1>0, RemoteAssumption DEF RpInv, RpTypeOK, MethodsFit, HoldersFit, Request, rpLocal
<1>3. ConnectionFits'
  BY <1>0, RemoteAssumption DEF RpInv, RpTypeOK, ConnectionFits, Request, rpLocal, rpProxy, Proxied
<1>4. CountFits'
  BY CountKept DEF RpInv, Request, rpLocal
<1>5. OwnerFits'
  BY <1>0, HomeIsClient, HeldIsCounted, RemoteAssumption
     DEF RpInv, RpTypeOK, MethodsFit, HoldersFit, OwnerFits, Request, rpLocal
<1> QED
  BY <1>1, <1>2, <1>3, <1>4, <1>5 DEF RpInv

LEMMA ReturnStep ==
  ASSUME RpInv, NEW t \in RpThread, Return(t)
  PROVE  RpInv'
<1>0. /\ Home[t] \in RpClient /\ stage[Home[t]] # "lost"
      /\ StageAfter(Home[t], method[t], wire[Home[t]] = "ok")
           \in {"off", "failed", "open", "connected"}
      /\ Nobody \notin RpThread
  BY HomeIsClient, RemoteAssumption DEF RpInv, RpTypeOK, ConnectionFits, Return, StageAfter
<1>1. RpTypeOK'
  <2>1. held' \in [RpThread -> 0..MaxHeld] /\ lockCount' \in [RpClient -> Nat]
    BY <1>0, RemoteAssumption DEF RpInv, RpTypeOK, MethodsFit, Return
  <2>2. stage' \in [RpClient -> {"off", "failed", "open", "connected", "lost"}]
    BY <1>0 DEF RpInv, RpTypeOK, Return
  <2>3. /\ method' \in [RpThread -> Methods \cup {"none"}]
        /\ wire' \in [RpClient -> Methods \cup {"none", "ok", "error"}]
        /\ counting' \in [RpClient -> RpThread \cup {Nobody}]
        /\ requesting' \in [RpClient -> RpThread \cup {Nobody}]
    BY DEF RpInv, RpTypeOK, Return
  <2> QED
    BY <2>1, <2>2, <2>3 DEF RpInv, RpTypeOK, Return, rpProxy
<1>2. MethodsFit'
  BY <1>0, HomeIsClient DEF RpInv, RpTypeOK, MethodsFit, HoldersFit, Return
<1>3. HoldersFit'
  BY <1>0, HomeIsClient DEF RpInv, RpTypeOK, HoldersFit, Return
<1>4. ConnectionFits'
  BY <1>0, HomeIsClient DEF RpInv, RpTypeOK, ConnectionFits, Return, rpProxy, Proxied
<1>5. CountFits'
  BY CountKept, LockAdds DEF RpInv, MethodsFit, Return
<1>6. OwnerFits'
  BY <1>0, HomeIsClient DEF RpInv, RpTypeOK, HoldersFit, ConnectionFits, OwnerFits, Return
<1> QED
  BY <1>1, <1>2, <1>3, <1>4, <1>5, <1>6 DEF RpInv

LEMMA LoseStep ==
  ASSUME RpInv, NEW c \in RpClient, Lose(c)
  PROVE  RpInv'
<1>1. RpTypeOK'
  BY RemoteAssumption DEF RpInv, RpTypeOK, Lose, rpProxy
<1>2. MethodsFit' /\ HoldersFit'
  BY HomeIsClient, RemoteAssumption DEF RpInv, RpTypeOK, MethodsFit, HoldersFit, Lose
<1>3. ConnectionFits'
  BY RemoteAssumption DEF RpInv, RpTypeOK, ConnectionFits, Lose, rpProxy
<1>4. CountFits'
  <2>1. Held(c)' = {}
    BY DEF Held, Lose
  <2>2. ASSUME NEW d \in RpClient, d # c
        PROVE  Held(d)' = Held(d) /\ lockCount'[d] = lockCount[d]
    BY <2>2 DEF RpInv, RpTypeOK, Held, Lose
  <2>3. lockCount'[c] = 0
    BY DEF RpInv, RpTypeOK, Lose
  <2> QED
    BY <2>1, <2>2, <2>3, FS_EmptySet DEF RpInv, CountFits
<1>5. OwnerFits'
  BY HomeIsClient, RemoteAssumption DEF RpInv, RpTypeOK, HoldersFit, OwnerFits, Lose, rpProxy
<1> QED
  BY <1>1, <1>2, <1>3, <1>4, <1>5 DEF RpInv

-----------------------------------------------------------------------------
(* The handlers of their connections                                       *)

(* An answer to anything but lock() and unlock() changes no lock.          *)
LEMMA AnswerStep ==
  ASSUME RpInv, NEW c \in RpClient, NEW answer \in {"ok", "error"},
         wire[c] \in Proxied \cup {"access"}, Answer(c, answer),
         inside' \subseteq inside \ {c}, UNCHANGED <<rpClient, probeLock>>,
         RpTypeOK'
  PROVE  RpInv'
<1>1. MethodsFit' /\ HoldersFit'
  BY HomeIsClient DEF RpInv, RpTypeOK, MethodsFit, HoldersFit, Answer, rpClient, rpLocal, Proxied
<1>2. ConnectionFits'
  BY DEF RpInv, RpTypeOK, ConnectionFits, Answer, rpClient, rpLocal, Proxied
<1>3. CountFits'
  BY CountKept DEF RpInv, rpClient, rpLocal
<1>4. OwnerFits'
  BY HomeIsClient DEF RpInv, RpTypeOK, HoldersFit, OwnerFits, Answer, rpClient, rpLocal, Proxied
<1> QED
  BY <1>1, <1>2, <1>3, <1>4 DEF RpInv

LEMMA ServeAccessStep ==
  ASSUME RpInv, NEW c \in RpClient, ServeAccess(c)
  PROVE  RpInv'
<1>1. RpTypeOK'
  BY DEF RpInv, RpTypeOK, ServeAccess, Answer, rpClient, rpLocal, rpProxy
<1>2. c \notin inside
  BY DEF RpInv, ConnectionFits, ServeAccess, Proxied
<1> QED
  BY <1>1, <1>2, AnswerStep DEF ServeAccess, rpProxy

LEMMA ServeLockStep ==
  ASSUME RpInv, NEW c \in RpClient, ServeLock(c)
  PROVE  RpInv'
<1>1. RpTypeOK'
  BY DEF RpInv, RpTypeOK, ServeLock, Answer, rpClient, rpLocal, rpProxy
<1>2. MethodsFit' /\ HoldersFit'
  BY HomeIsClient DEF RpInv, RpTypeOK, MethodsFit, HoldersFit, ServeLock, Answer, rpClient, rpLocal
<1>3. ConnectionFits'
  BY DEF RpInv, RpTypeOK, ConnectionFits, ServeLock, Answer, rpClient, rpLocal, rpProxy, Proxied
<1>4. CountFits'
  BY CountKept DEF RpInv, ServeLock, rpClient, rpLocal
<1>5. OwnerFits'
  BY HomeIsClient, RemoteAssumption
     DEF RpInv, RpTypeOK, HoldersFit, OwnerFits, ServeLock, Answer, rpClient, rpLocal
<1> QED
  BY <1>1, <1>2, <1>3, <1>4, <1>5 DEF RpInv

LEMMA ServeUnlockStep ==
  ASSUME RpInv, NEW c \in RpClient, ServeUnlock(c)
  PROVE  RpInv'
<1>1. RpTypeOK'
  BY DEF RpInv, RpTypeOK, ServeUnlock, Answer, rpClient, rpLocal, rpProxy
<1>2. MethodsFit' /\ HoldersFit'
  BY HomeIsClient DEF RpInv, RpTypeOK, MethodsFit, HoldersFit, ServeUnlock, Answer, rpClient, rpLocal
<1>3. ConnectionFits'
  BY DEF RpInv, RpTypeOK, ConnectionFits, ServeUnlock, Answer, rpClient, rpLocal, rpProxy, Proxied
<1>4. CountFits'
  BY CountKept DEF RpInv, ServeUnlock, rpClient, rpLocal
<1>5. OwnerFits'
  BY HomeIsClient, RemoteAssumption
     DEF RpInv, RpTypeOK, HoldersFit, ConnectionFits, OwnerFits, ServeUnlock, Answer, rpClient, rpLocal
<1> QED
  BY <1>1, <1>2, <1>3, <1>4, <1>5 DEF RpInv

LEMMA EnterStep ==
  ASSUME RpInv, NEW c \in RpClient, Enter(c)
  PROVE  RpInv'
<1>1. RpTypeOK'
  BY DEF RpInv, RpTypeOK, Enter, UseProbe, rpClient, rpLocal
<1>2. MethodsFit' /\ HoldersFit' /\ ConnectionFits'
  BY DEF RpInv, MethodsFit, HoldersFit, ConnectionFits, Enter, rpClient, rpLocal
<1>3. CountFits' /\ OwnerFits'
  BY CountKept DEF RpInv, OwnerFits, Enter, rpClient, rpLocal
<1> QED
  BY <1>1, <1>2, <1>3 DEF RpInv

LEMMA CountStep ==
  ASSUME RpInv, NEW c \in RpClient, Count(c)
  PROVE  RpInv'
<1>1. wire[c] \in Proxied
  BY DEF RpInv, ConnectionFits, Count
<1>2. RpTypeOK'
  BY DEF RpInv, RpTypeOK, Count, Answer, rpClient, rpLocal
<1> QED
  BY <1>1, <1>2, AnswerStep DEF Count

LEMMA RefuseStep ==
  ASSUME RpInv, NEW c \in RpClient, Refuse(c)
  PROVE  RpInv'
<1>1. wire[c] \in Proxied /\ c \notin inside
  BY DEF Refuse, Proxied
<1>2. RpTypeOK'
  BY DEF RpInv, RpTypeOK, Refuse, Answer, rpClient, rpLocal
<1> QED
  BY <1>1, <1>2, AnswerStep DEF Refuse

-----------------------------------------------------------------------------
(* The theorems                                                            *)

LEMMA InvInit ==
  ASSUME RpInit
  PROVE  RpInv
<1>1. RpTypeOK
  BY RemoteAssumption DEF RpInit, RpTypeOK
<1>2. MethodsFit /\ HoldersFit /\ ConnectionFits
  BY HomeIsClient, RemoteAssumption DEF RpInit, MethodsFit, HoldersFit, ConnectionFits
<1>3. \A c \in RpClient : Held(c) = {}
  BY DEF RpInit, Held
<1>4. CountFits
  BY <1>3, FS_EmptySet DEF RpInit, CountFits
<1>5. OwnerFits
  BY HomeIsClient, RemoteAssumption DEF RpInit, OwnerFits
<1> QED
  BY <1>1, <1>2, <1>4, <1>5 DEF RpInv

LEMMA InvStep ==
  ASSUME RpInv, [RpNext]_rpVars
  PROVE  RpInv'
<1>1. CASE UNCHANGED rpVars
  <2>1. RpTypeOK' /\ MethodsFit' /\ HoldersFit' /\ ConnectionFits' /\ OwnerFits'
    BY <1>1 DEF RpInv, RpTypeOK, MethodsFit, HoldersFit, ConnectionFits, OwnerFits,
                rpVars, rpClient, rpLocal, rpProxy
  <2>2. CountFits'
    BY <1>1, CountKept DEF RpInv, rpVars, rpClient, rpLocal
  <2> QED
    BY <2>1, <2>2 DEF RpInv
<1>2. ASSUME NEW t \in RpThread,
             \/ \E m \in Methods : Call(t, m)
             \/ Lock(t) \/ Unlock(t) \/ Request(t) \/ Return(t)
      PROVE  RpInv'
  BY <1>2, CallStep, LockStep, UnlockStep, RequestStep, ReturnStep
<1>3. ASSUME NEW c \in RpClient,
             \/ Lose(c) \/ ServeAccess(c) \/ ServeLock(c) \/ ServeUnlock(c)
             \/ Enter(c) \/ Count(c) \/ Refuse(c)
      PROVE  RpInv'
  BY <1>3, LoseStep, ServeAccessStep, ServeLockStep, ServeUnlockStep, EnterStep, CountStep, RefuseStep
<1> QED
  BY <1>1, <1>2, <1>3 DEF RpNext

(* The variables of clients, connections and server keep their types: a    *)
(* count of locks is never negative, and no thread holds more than it may. *)
THEOREM RemoteTypeCorrect == RpSpec => []RpTypeOK
<1>1. RpInit => RpInv
  BY InvInit
<1>2. RpInv /\ [RpNext]_rpVars => RpInv'
  BY InvStep
<1>3. RpInv => RpTypeOK
  BY DEF RpInv
<1> QED
  BY <1>1, <1>2, <1>3, PTL DEF RpSpec

(* One client at a time uses the shared probe, whatever the threads of the *)
(* clients lock, nest, wait for or lose.                                   *)
THEOREM RemoteLockIsExclusive == RpSpec => []LockIsExclusive
<1>1. RpInit => RpInv
  BY InvInit
<1>2. RpInv /\ [RpNext]_rpVars => RpInv'
  BY InvStep
<1>3. RpInv => LockIsExclusive
  BY InvImpliesExclusive
<1> QED
  BY <1>1, <1>2, <1>3, PTL DEF RpSpec

-----------------------------------------------------------------------------
(* The clients the proxy has counted                                       *)

(* The server has answered a client's method, which has not returned.      *)
Done(c, m) == requesting[c] \in RpThread /\ method[requesting[c]] = m /\ wire[c] = "ok"

(* Clients the proxy counts, or counted and lost, as open and as connected *)
(* ones: from the answer to the one method to the answer to the other.  A  *)
(* lost client is among them while its handler is to count it off.         *)
Opened == {c \in RpClient : \/ stage[c] \in {"open", "connected"} /\ ~Done(c, "close")
                            \/ stage[c] = "off" /\ Done(c, "open")
                            \/ stage[c] = "lost" /\ wire[c] = "close"}

Linked == {c \in RpClient : \/ stage[c] = "connected" /\ ~Done(c, "disconnect")
                            \/ stage[c] = "open" /\ Done(c, "connect")
                            \/ stage[c] = "lost" /\ wire[c] = "disconnect"}

(* One thread of a client is in a method that opens or closes, in the      *)
(* stage the method is for.                                                *)
StagesFit ==
  /\ \A t \in RpThread :
       /\ method[t] = "open" => stage[Home[t]] = "off"
       /\ method[t] = "close" => stage[Home[t]] \in {"failed", "open"}
       /\ method[t] = "connect" => stage[Home[t]] = "open"
       /\ method[t] = "disconnect" => stage[Home[t]] = "connected"
  /\ \A t, u \in RpThread :
       Home[t] = Home[u] /\ method[t] \in Proxied /\ method[u] \in Proxied => t = u
  /\ losses \in Nat /\ (losses = 0 => \A c \in RpClient : stage[c] # "lost")

(* In a tidy server one handler is inside, and no open() failed.           *)
OneInside ==
  /\ \A c, d \in inside : c = d
  /\ \A c \in RpClient :
       /\ stage[c] # "failed"
       /\ wire[c] = "error" /\ requesting[c] \in RpThread => method[requesting[c]] = "connect"

(* A count stands for a set of clients, and for those that are lost.       *)
Stands(count, clients) ==
  /\ IsFiniteSet(clients)
  /\ count >= Cardinality(clients)
  /\ losses = 0 => count = Cardinality(clients)

Within(m) == \E c \in inside : wire[c] = m

(* The probe is used as the count has it, or will with the handler inside. *)
ProbeFits ==
  /\ probe = "open" <=> Within("open") \/ openCount > 1 \/ (openCount = 1 /\ ~Within("close"))
  /\ protocol # "none" <=> \/ Within("connect") \/ connectCount > 1
                           \/ connectCount = 1 /\ ~Within("disconnect")

TidyFits == OneInside /\ Stands(openCount, Opened) /\ Stands(connectCount, Linked) /\ ProbeFits

TidyInv == RpInv /\ StagesFit /\ (tidy => TidyFits)

(* A server nobody has used is tidy.                                       *)
LEMMA TidyInit ==
  ASSUME RpInit
  PROVE  TidyInv
<1>1. RpInv
  BY InvInit
<1>2. StagesFit
  BY HomeIsClient DEF RpInit, StagesFit, Proxied
<1>3. OneInside /\ ProbeFits
  BY DEF RpInit, OneInside, ProbeFits, Within
<1>4. Opened = {} /\ Linked = {}
  BY RemoteAssumption DEF RpInit, Opened, Linked, Done
<1>5. Stands(openCount, Opened) /\ Stands(connectCount, Linked)
  BY <1>4, FS_EmptySet DEF RpInit, Stands
<1> QED
  BY <1>1, <1>2, <1>3, <1>5 DEF TidyInv, TidyFits

(* Steps that neither count a client nor stop to count one.                *)
LEMMA CountsKept ==
  ASSUME TidyInv, RpInv', StagesFit', UNCHANGED <<rpProxy, losses>>,
         \A c \in inside : wire'[c] = wire[c],
         tidy => OneInside' /\ Opened' = Opened /\ Linked' = Linked
  PROVE  TidyInv'
<1>1. SUFFICES ASSUME tidy
               PROVE  TidyFits'
  BY DEF TidyInv, rpProxy
<1>2. Stands(openCount, Opened)' /\ Stands(connectCount, Linked)'
  BY <1>1 DEF TidyInv, TidyFits, Stands, rpProxy
<1>3. ProbeFits'
  BY <1>1 DEF TidyInv, TidyFits, ProbeFits, Within, rpProxy
<1> QED
  BY <1>1, <1>2, <1>3 DEF TidyFits

(* A method that begins has not been asked for.                            *)
LEMMA CallTidy ==
  ASSUME TidyInv, NEW t \in RpThread, NEW m \in Methods, Call(t, m)
  PROVE  TidyInv'
<1>1. RpInv'
  BY CallStep DEF TidyInv
<1>2. StagesFit'
  BY HomeIsClient DEF TidyInv, RpInv, RpTypeOK, StagesFit, Call, InUse, Sole, Proxied, Methods, rpLocal
<1>3. \A c \in RpClient, n \in Methods : Done(c, n)' = Done(c, n)
  BY DEF TidyInv, RpInv, RpTypeOK, HoldersFit, Done, Call, rpLocal
<1>4. Opened' = Opened /\ Linked' = Linked
  BY <1>3 DEF Opened, Linked, Call, Methods, Proxied, rpLocal
<1>5. tidy => OneInside'
  BY DEF TidyInv, TidyFits, RpInv, RpTypeOK, HoldersFit, OneInside, Call, rpLocal, rpProxy
<1> QED
  BY <1>1, <1>2, <1>4, <1>5, CountsKept DEF Call

(* A count of locks has nothing to do with who is counted.                 *)
LEMMA LockTidy ==
  ASSUME TidyInv, NEW t \in RpThread, Lock(t) \/ Unlock(t)
  PROVE  TidyInv'
<1>1. RpInv'
  BY LockStep, UnlockStep DEF TidyInv
<1>2. /\ method[t] \notin Proxied
      /\ \A u \in RpThread : u # t => method'[u] = method[u]
      /\ method'[t] \in {method[t], "none"}
      /\ requesting[Home[t]] # t
      /\ UNCHANGED <<stage, requesting, wire, rpProxy, losses>>
  BY HomeIsClient, RemoteAssumption
     DEF TidyInv, RpInv, RpTypeOK, HoldersFit, Lock, Unlock, Proxied
<1>3. StagesFit'
  BY <1>2, HomeIsClient DEF TidyInv, StagesFit, Proxied
<1>4. \A c \in RpClient, n \in Methods : Done(c, n)' = Done(c, n)
  BY <1>2 DEF TidyInv, RpInv, RpTypeOK, HoldersFit, Done
<1>5. Opened' = Opened /\ Linked' = Linked
  BY <1>2, <1>4 DEF Opened, Linked, Methods, Proxied
<1>6. tidy => OneInside'
  BY <1>2 DEF TidyInv, TidyFits, RpInv, RpTypeOK, HoldersFit, OneInside, rpProxy
<1> QED
  BY <1>1, <1>2, <1>3, <1>5, <1>6, CountsKept

(* A request on the connection is not counted before a handler is inside.  *)
LEMMA RequestTidy ==
  ASSUME TidyInv, NEW t \in RpThread, Request(t)
  PROVE  TidyInv'
<1>1. RpInv'
  BY RequestStep DEF TidyInv
<1>2. /\ Home[t] \in RpClient /\ wire[Home[t]] = "none" /\ Home[t] \notin inside
      /\ stage[Home[t]] # "lost" /\ method[t] \in Methods
      /\ requesting[Home[t]] \notin RpThread
  BY HomeIsClient, RemoteAssumption DEF TidyInv, RpInv, RpTypeOK, ConnectionFits, Request, Proxied
<1>3. StagesFit'
  BY DEF TidyInv, StagesFit, Request
<1>4. \A c \in RpClient, n \in Methods : Done(c, n)' = Done(c, n)
  BY <1>2 DEF TidyInv, RpInv, RpTypeOK, Done, Request, Methods, Proxied
<1>5. Opened' = Opened /\ Linked' = Linked
  BY <1>2, <1>4 DEF TidyInv, RpInv, RpTypeOK, Opened, Linked, Request, Methods, Proxied
<1>6. tidy => OneInside'
  BY <1>2 DEF TidyInv, TidyFits, RpInv, RpTypeOK, OneInside, Request, Methods, Proxied, rpProxy
<1>7. \A c \in inside : wire'[c] = wire[c]
  BY <1>2 DEF TidyInv, RpInv, RpTypeOK, Request
<1> QED
  BY <1>1, <1>3, <1>5, <1>6, <1>7, CountsKept DEF Request

(* The client goes to the stage it was counted in, or not counted any      *)
(* more, when its request was answered.                                    *)
LEMMA ReturnTidy ==
  ASSUME TidyInv, NEW t \in RpThread, Return(t)
  PROVE  TidyInv'
<1> DEFINE h == Home[t]
<1>1. RpInv'
  BY ReturnStep DEF TidyInv
<1>2. /\ h \in RpClient /\ h \notin inside /\ stage[h] # "lost"
      /\ method[t] \in Methods /\ requesting[h] = t /\ wire[h] \in {"ok", "error"}
      /\ Nobody \notin RpThread
  BY HomeIsClient, RemoteAssumption
     DEF TidyInv, RpInv, RpTypeOK, HoldersFit, ConnectionFits, Return, Proxied
<1>3. /\ stage' = [stage EXCEPT ![h] = StageAfter(h, method[t], wire[h] = "ok")]
      /\ method' = [method EXCEPT ![t] = "none"]
      /\ wire' = [wire EXCEPT ![h] = "none"] /\ requesting' = [requesting EXCEPT ![h] = Nobody]
      /\ UNCHANGED <<rpProxy, losses>>
  BY DEF Return
<1>4. StagesFit'
  BY <1>2, <1>3, HomeIsClient DEF TidyInv, RpInv, RpTypeOK, StagesFit, StageAfter, Methods, Proxied
<1>5. \A c \in RpClient, n \in Methods :
        /\ c # h => (Done(c, n)' <=> Done(c, n)) /\ stage'[c] = stage[c] /\ wire'[c] = wire[c]
        /\ c = h => ~Done(c, n)' /\ (Done(c, n) <=> n = method[t] /\ wire[c] = "ok")
  BY <1>2, <1>3 DEF TidyInv, RpInv, RpTypeOK, HoldersFit, Done
<1>6. ASSUME tidy
      PROVE  OneInside'
  <2>1. StageAfter(h, method[t], wire[h] = "ok") # "failed"
    BY <1>2, <1>6 DEF TidyInv, TidyFits, OneInside, StageAfter, Methods, Proxied
  <2>2. \A c \in RpClient : stage'[c] # "failed"
    BY <1>2, <1>3, <1>6, <2>1 DEF TidyInv, TidyFits, RpInv, RpTypeOK, OneInside
  <2>3. ASSUME NEW c \in RpClient, wire'[c] = "error", requesting'[c] \in RpThread
        PROVE  method'[requesting'[c]] = "connect"
    <3>1. c # h /\ wire[c] = "error" /\ requesting'[c] = requesting[c] /\ requesting[c] # t
      BY <1>2, <1>3, <2>3 DEF TidyInv, RpInv, RpTypeOK, HoldersFit
    <3> QED
      BY <1>3, <1>6, <2>3, <3>1 DEF TidyInv, TidyFits, OneInside, RpInv, RpTypeOK
  <2> QED
    BY <1>3, <1>6, <2>2, <2>3 DEF TidyInv, TidyFits, OneInside, rpProxy
<1>7. ASSUME tidy
      PROVE  Opened' = Opened /\ Linked' = Linked
  <2>1. ASSUME NEW c \in RpClient, c # h
        PROVE  (c \in Opened' <=> c \in Opened) /\ (c \in Linked' <=> c \in Linked)
    BY <2>1, <1>5 DEF Opened, Linked, Methods, Proxied
  <2>2. stage'[h] = StageAfter(h, method[t], wire[h] = "ok") /\ wire'[h] = "none"
    BY <1>2, <1>3 DEF TidyInv, RpInv, RpTypeOK
  <2>3. /\ method[t] = "open" => stage[h] = "off" /\ wire[h] = "ok"
        /\ method[t] = "close" => stage[h] = "open"
        /\ method[t] = "connect" => stage[h] = "open"
        /\ method[t] = "disconnect" => stage[h] = "connected"
        /\ stage[h] \in {"off", "open", "connected"}
    BY <1>2, <1>7 DEF TidyInv, TidyFits, RpInv, RpTypeOK, StagesFit, OneInside
  <2>4. method[t] \in {"close", "disconnect"} => wire[h] = "ok"
    BY <1>2, <1>7 DEF TidyInv, TidyFits, OneInside
  <2>5. (h \in Opened' <=> h \in Opened) /\ (h \in Linked' <=> h \in Linked)
    BY <1>2, <1>5, <2>2, <2>3, <2>4 DEF Opened, Linked, StageAfter, Methods, Proxied
  <2> QED
    BY <2>1, <2>5 DEF Opened, Linked
<1>8. \A c \in inside : wire'[c] = wire[c]
  BY <1>2, <1>3 DEF TidyInv, RpInv, RpTypeOK
<1> QED
  BY <1>1, <1>3, <1>4, <1>6, <1>7, <1>8, CountsKept

(* A lost client counts on: the clients the count stands for are the same  *)
(* or one less.                                                            *)
LEMMA LoseTidy ==
  ASSUME TidyInv, NEW c \in RpClient, Lose(c)
  PROVE  TidyInv'
<1>1. RpInv'
  BY LoseStep DEF TidyInv
<1>2. StagesFit'
  BY HomeIsClient DEF TidyInv, RpInv, RpTypeOK, StagesFit, Lose, Methods, Proxied
<1>3. SUFFICES ASSUME tidy
               PROVE  TidyFits'
  BY <1>1, <1>2 DEF TidyInv, Lose, rpProxy
<1>4. OneInside'
  BY <1>3, RemoteAssumption DEF TidyInv, TidyFits, RpInv, RpTypeOK, HoldersFit, OneInside, Lose, rpProxy
<1>5. ProbeFits'
  BY <1>3 DEF TidyInv, TidyFits, ProbeFits, Within, Lose, rpProxy
<1>6. \A d \in RpClient, n \in Methods :
        /\ d # c => (Done(d, n)' <=> Done(d, n)) /\ stage'[d] = stage[d]
        /\ d = c => stage'[d] = "lost"
  BY RemoteAssumption DEF TidyInv, RpInv, RpTypeOK, HoldersFit, Done, Lose
<1>7. /\ wire[c] = "close" => stage[c] = "open" /\ ~Done(c, "close")
      /\ wire[c] = "disconnect" => stage[c] = "connected" /\ ~Done(c, "disconnect")
  BY <1>3 DEF TidyInv, TidyFits, RpInv, RpTypeOK, StagesFit, ConnectionFits, HoldersFit, OneInside,
              Done, Lose
<1>8. Opened' \subseteq Opened /\ Linked' \subseteq Linked
  BY <1>6, <1>7 DEF Opened, Linked, Lose, Methods, Proxied
<1>9. losses' # 0
  BY DEF TidyInv, StagesFit, Lose
<1>10. Stands(openCount, Opened)' /\ Stands(connectCount, Linked)'
  <2>1. IsFiniteSet(Opened') /\ Cardinality(Opened') <= Cardinality(Opened)
    BY <1>3, <1>8, FS_Subset DEF TidyInv, TidyFits, Stands
  <2>2. IsFiniteSet(Linked') /\ Cardinality(Linked') <= Cardinality(Linked)
    BY <1>3, <1>8, FS_Subset DEF TidyInv, TidyFits, Stands
  <2>3. /\ Cardinality(Opened) \in Nat /\ Cardinality(Linked) \in Nat
        /\ Cardinality(Opened') \in Nat /\ Cardinality(Linked') \in Nat
    BY <1>3, <2>1, <2>2, FS_CardinalityType DEF TidyInv, TidyFits, Stands
  <2>4. openCount' >= Cardinality(Opened') /\ connectCount' >= Cardinality(Linked')
    BY <1>3, <2>1, <2>2, <2>3 DEF TidyInv, TidyFits, RpInv, RpTypeOK, Stands, Lose, rpProxy
  <2> QED
    BY <1>9, <2>1, <2>2, <2>4 DEF Stands
<1> QED
  BY <1>4, <1>5, <1>10 DEF TidyFits

(* An answer to another method than those that are counted.                *)
LEMMA ServeTidy ==
  ASSUME TidyInv, NEW c \in RpClient, ServeAccess(c) \/ ServeLock(c) \/ ServeUnlock(c)
  PROVE  TidyInv'
<1>1. RpInv'
  BY ServeAccessStep, ServeLockStep, ServeUnlockStep DEF TidyInv
<1>2. /\ wire[c] \in {"access", "lock", "unlock"} /\ wire' = [wire EXCEPT ![c] = "ok"]
      /\ UNCHANGED <<rpClient, rpProxy, losses>>
  BY DEF ServeAccess, ServeLock, ServeUnlock, Answer
<1>3. StagesFit'
  BY <1>2 DEF TidyInv, StagesFit, rpClient
<1>4. \A d \in RpClient, n \in Proxied : Done(d, n)' <=> Done(d, n)
  BY <1>2 DEF TidyInv, RpInv, RpTypeOK, HoldersFit, Done, Proxied, rpClient
<1>5. Opened' = Opened /\ Linked' = Linked
  BY <1>2, <1>4 DEF TidyInv, RpInv, RpTypeOK, Opened, Linked, Proxied, rpClient
<1>6. tidy => OneInside'
  BY <1>2 DEF TidyInv, TidyFits, RpInv, RpTypeOK, OneInside, rpClient, rpProxy
<1>7. \A d \in inside : wire'[d] = wire[d]
  BY <1>2 DEF TidyInv, RpInv, RpTypeOK, ConnectionFits, Proxied
<1> QED
  BY <1>1, <1>2, <1>3, <1>5, <1>6, <1>7, CountsKept

(* The handler that goes in does with the probe what its count will say.   *)
LEMMA EnterTidy ==
  ASSUME TidyInv, NEW c \in RpClient, Enter(c)
  PROVE  TidyInv'
<1>1. RpInv'
  BY EnterStep DEF TidyInv
<1>2. StagesFit'
  BY DEF TidyInv, StagesFit, Enter, rpClient
<1>3. SUFFICES ASSUME tidy, inside = {}
               PROVE  TidyFits'
  BY <1>1, <1>2 DEF TidyInv, Enter
<1>4. OneInside'
  BY <1>3 DEF TidyInv, TidyFits, OneInside, Enter, rpClient
<1>5. \A d \in RpClient, n \in Methods : Done(d, n)' <=> Done(d, n)
  BY DEF Done, Enter, rpClient
<1>6. Opened' = Opened /\ Linked' = Linked
  BY <1>5 DEF Opened, Linked, Enter, rpClient, Methods, Proxied
<1>7. Stands(openCount, Opened)' /\ Stands(connectCount, Linked)'
  BY <1>3, <1>6 DEF TidyInv, TidyFits, Stands, Enter
<1>8. ProbeFits'
  <2>1. /\ wire[c] = "close" => c \in Opened
        /\ wire[c] = "disconnect" => c \in Linked
    BY <1>3 DEF TidyInv, TidyFits, RpInv, RpTypeOK, StagesFit, ConnectionFits, HoldersFit, OneInside,
                Opened, Linked, Done
  <2>2. /\ openCount \in Nat /\ connectCount \in Nat
        /\ wire[c] = "close" => openCount > 0
        /\ wire[c] = "disconnect" => connectCount > 0
    <3>1. Cardinality(Opened) \in Nat /\ Cardinality(Linked) \in Nat
      BY <1>3, FS_CardinalityType DEF TidyInv, TidyFits, Stands
    <3>2. /\ wire[c] = "close" => Cardinality(Opened) # 0
          /\ wire[c] = "disconnect" => Cardinality(Linked) # 0
      BY <1>3, <2>1, FS_EmptySet DEF TidyInv, TidyFits, Stands
    <3> QED
      BY <1>3, <3>1, <3>2 DEF TidyInv, TidyFits, RpInv, RpTypeOK, Stands
  <2>3. /\ \A m \in Proxied : Within(m)' <=> m = wire[c]
        /\ \A m \in Proxied : ~Within(m)
        /\ wire[c] \in Proxied
    BY <1>3 DEF Within, Enter
  <2>4. /\ probe = "open" <=> openCount > 0
        /\ protocol # "none" <=> connectCount > 0
        /\ UNCHANGED <<openCount, connectCount>>
        /\ UseProbe(wire[c]) \/ (NotFirstOrLast(wire[c]) /\ UNCHANGED <<probe, protocol>>)
    BY <1>3, <2>2, <2>3 DEF TidyInv, TidyFits, ProbeFits, Proxied, Enter
  <2>5. CASE wire[c] = "open"
    BY <2>2, <2>3, <2>4, <2>5 DEF ProbeFits, UseProbe, NotFirstOrLast, Proxied
  <2>6. CASE wire[c] = "close"
    BY <2>2, <2>3, <2>4, <2>6 DEF ProbeFits, UseProbe, NotFirstOrLast, Proxied
  <2>7. CASE wire[c] = "connect"
    BY <2>2, <2>3, <2>4, <2>7, RemoteAssumption DEF ProbeFits, UseProbe, NotFirstOrLast, Proxied
  <2>8. CASE wire[c] = "disconnect"
    BY <2>2, <2>3, <2>4, <2>8 DEF ProbeFits, UseProbe, NotFirstOrLast, Proxied
  <2> QED
    BY <2>3, <2>5, <2>6, <2>7, <2>8 DEF Proxied
<1> QED
  BY <1>4, <1>7, <1>8 DEF TidyFits

(* One client more is one more of the count, and one less one less.  What  *)
(* a lost client counts is in the count alone.                             *)
LEMMA StandsAdd ==
  ASSUME NEW count \in Int, NEW S, Stands(count, S), losses \in Nat,
         NEW x, NEW T, (T = S \cup {x} /\ x \notin S) \/ (T = S /\ losses # 0)
  PROVE  Stands(count + 1, T)
<1>1. Cardinality(S) \in Nat
  BY FS_CardinalityType DEF Stands
<1>2. CASE T = S \cup {x} /\ x \notin S
  <2>1. IsFiniteSet(T) /\ Cardinality(T) = Cardinality(S) + 1
    BY <1>2, FS_AddElement DEF Stands
  <2> QED
    BY <1>1, <2>1 DEF Stands
<1>3. CASE T = S /\ losses # 0
  BY <1>1, <1>3 DEF Stands
<1> QED
  BY <1>2, <1>3

LEMMA StandsRemove ==
  ASSUME NEW count \in Int, NEW S, Stands(count, S), losses \in Nat,
         NEW x \in S
  PROVE  Stands(count - 1, S \ {x}) /\ count > 0
<1>1. Cardinality(S) \in Nat
  BY FS_CardinalityType DEF Stands
<1>2. IsFiniteSet(S \ {x}) /\ Cardinality(S \ {x}) = Cardinality(S) - 1
  BY FS_RemoveElement DEF Stands
<1>3. Cardinality(S \ {x}) \in Nat
  BY <1>2, FS_CardinalityType
<1> QED
  BY <1>1, <1>2, <1>3 DEF Stands

(* The handler inside counts the client of its request, or counts it off,  *)
(* and the probe was left as the new count has it.                         *)
LEMMA CountTidy ==
  ASSUME TidyInv, NEW c \in RpClient, Count(c)
  PROVE  TidyInv'
<1>1. RpInv'
  BY CountStep DEF TidyInv
<1>2. StagesFit'
  BY DEF TidyInv, StagesFit, Count, rpClient
<1>3. SUFFICES ASSUME tidy
               PROVE  TidyFits'
  BY <1>1, <1>2 DEF TidyInv, Count
<1>4. /\ wire[c] \in Proxied /\ wire' = [wire EXCEPT ![c] = "ok"]
      /\ inside = {c} /\ inside' = {} /\ UNCHANGED <<rpClient, losses>> /\ losses \in Nat
      /\ openCount \in Int /\ connectCount \in Int
  BY <1>3 DEF TidyInv, TidyFits, OneInside, RpInv, RpTypeOK, StagesFit, ConnectionFits, Count, Answer
<1>5. OneInside'
  BY <1>3, <1>4 DEF TidyInv, TidyFits, OneInside, RpInv, RpTypeOK, rpClient
<1>6. ASSUME NEW d \in RpClient, d # c, NEW n \in Proxied
      PROVE  (Done(d, n)' <=> Done(d, n)) /\ wire'[d] = wire[d]
  BY <1>4, <1>6 DEF TidyInv, RpInv, RpTypeOK, Done, rpClient
<1>7. /\ \A n \in Proxied : ~Done(c, n)
      /\ \A n \in Proxied : stage[c] # "lost" => (Done(c, n)' <=> n = wire[c])
      /\ stage[c] = "lost" => \A n \in Proxied : ~Done(c, n)'
      /\ wire'[c] = "ok"
  BY <1>4, RemoteAssumption
     DEF TidyInv, RpInv, RpTypeOK, HoldersFit, ConnectionFits, Done, Proxied, rpClient
<1>8. stage[c] # "lost" =>
        /\ wire[c] = "open" => stage[c] = "off"
        /\ wire[c] = "close" => stage[c] = "open"
        /\ wire[c] = "connect" => stage[c] = "open"
        /\ wire[c] = "disconnect" => stage[c] = "connected"
  BY <1>3, <1>4 DEF TidyInv, TidyFits, RpInv, RpTypeOK, StagesFit, HoldersFit, ConnectionFits, OneInside
<1>9. /\ \A d \in RpClient : d # c => (d \in Opened' <=> d \in Opened) /\ (d \in Linked' <=> d \in Linked)
      /\ Opened \subseteq RpClient /\ Opened' \subseteq RpClient
      /\ Linked \subseteq RpClient /\ Linked' \subseteq RpClient
  BY <1>4, <1>6 DEF Opened, Linked, Proxied, rpClient
<1>10. stage[c] = "lost" => losses # 0
  BY DEF TidyInv, StagesFit
<1>11. ~Within("open")' /\ ~Within("close")' /\ ~Within("connect")' /\ ~Within("disconnect")'
  BY <1>4 DEF Within
<1>12. \A m \in Proxied : Within(m) <=> m = wire[c]
  BY <1>4 DEF Within
<1>13. /\ Stands(openCount, Opened) /\ Stands(connectCount, Linked)
       /\ Cardinality(Opened) \in Nat /\ Cardinality(Linked) \in Nat
  BY <1>3, FS_CardinalityType DEF TidyInv, TidyFits, Stands
<1>14. openCount \in Nat /\ connectCount \in Nat
  BY <1>4, <1>13 DEF Stands
<1>15. CASE wire[c] = "open"
  <2>1. /\ openCount' = openCount + 1 /\ UNCHANGED <<connectCount, probe, protocol>>
    BY <1>15 DEF Count
  <2>2. Linked' = Linked /\ ((Opened' = Opened \cup {c} /\ c \notin Opened) \/ (Opened' = Opened /\ losses # 0))
    BY <1>4, <1>7, <1>8, <1>9, <1>10, <1>15 DEF Opened, Linked, Proxied, rpClient
  <2>3. Stands(openCount + 1, Opened')
    BY <1>4, <1>13, <2>2, StandsAdd
  <2>4. Stands(openCount, Opened)' /\ Stands(connectCount, Linked)'
    BY <1>4, <1>13, <2>1, <2>2, <2>3 DEF Stands
  <2>5. ProbeFits'
    BY <1>3, <1>11, <1>12, <1>14, <1>15, <2>1 DEF TidyInv, TidyFits, ProbeFits, Proxied
  <2> QED
    BY <1>5, <2>4, <2>5 DEF TidyFits
<1>16. CASE wire[c] = "close"
  <2>1. /\ openCount' = openCount - 1 /\ UNCHANGED <<connectCount, probe, protocol>>
    BY <1>16 DEF Count
  <2>2. Linked' = Linked /\ Opened' = Opened \ {c} /\ c \in Opened
    BY <1>4, <1>7, <1>8, <1>9, <1>16 DEF Opened, Linked, Proxied, rpClient
  <2>3. Stands(openCount - 1, Opened \ {c}) /\ openCount > 0
    BY <1>4, <1>13, <2>2, StandsRemove
  <2>4. Stands(openCount, Opened)' /\ Stands(connectCount, Linked)'
    BY <1>4, <1>13, <2>1, <2>2, <2>3 DEF Stands
  <2>5. ProbeFits'
    BY <1>3, <1>11, <1>12, <1>14, <1>16, <2>1, <2>3 DEF TidyInv, TidyFits, ProbeFits, Proxied
  <2> QED
    BY <1>5, <2>4, <2>5 DEF TidyFits
<1>17. CASE wire[c] = "connect"
  <2>1. /\ connectCount' = connectCount + 1 /\ UNCHANGED <<openCount, probe, protocol>>
    BY <1>17 DEF Count
  <2>2. Opened' = Opened /\ ((Linked' = Linked \cup {c} /\ c \notin Linked) \/ (Linked' = Linked /\ losses # 0))
    BY <1>4, <1>7, <1>8, <1>9, <1>10, <1>17 DEF Opened, Linked, Proxied, rpClient
  <2>3. Stands(connectCount + 1, Linked')
    BY <1>4, <1>13, <2>2, StandsAdd
  <2>4. Stands(openCount, Opened)' /\ Stands(connectCount, Linked)'
    BY <1>4, <1>13, <2>1, <2>2, <2>3 DEF Stands
  <2>5. ProbeFits'
    BY <1>3, <1>11, <1>12, <1>14, <1>17, <2>1 DEF TidyInv, TidyFits, ProbeFits, Proxied
  <2> QED
    BY <1>5, <2>4, <2>5 DEF TidyFits
<1>18. CASE wire[c] = "disconnect"
  <2>1. /\ connectCount' = connectCount - 1 /\ UNCHANGED <<openCount, probe, protocol>>
    BY <1>18 DEF Count
  <2>2. Opened' = Opened /\ Linked' = Linked \ {c} /\ c \in Linked
    BY <1>4, <1>7, <1>8, <1>9, <1>18 DEF Opened, Linked, Proxied, rpClient
  <2>3. Stands(connectCount - 1, Linked \ {c}) /\ connectCount > 0
    BY <1>4, <1>13, <2>2, StandsRemove
  <2>4. Stands(openCount, Opened)' /\ Stands(connectCount, Linked)'
    BY <1>4, <1>13, <2>1, <2>2, <2>3 DEF Stands
  <2>5. ProbeFits'
    BY <1>3, <1>11, <1>12, <1>14, <1>18, <2>1, <2>3 DEF TidyInv, TidyFits, ProbeFits, Proxied
  <2> QED
    BY <1>5, <2>4, <2>5 DEF TidyFits
<1> QED
  BY <1>4, <1>15, <1>16, <1>17, <1>18 DEF Proxied

(* A connect() that failed counts nobody; a failed open() is no tidy       *)
(* server.                                                                 *)
LEMMA RefuseTidy ==
  ASSUME TidyInv, NEW c \in RpClient, Refuse(c)
  PROVE  TidyInv'
<1>1. RpInv'
  BY RefuseStep DEF TidyInv
<1>2. StagesFit'
  BY DEF TidyInv, StagesFit, Refuse, rpClient
<1>3. SUFFICES ASSUME tidy, wire[c] = "connect"
               PROVE  TidyFits'
  BY <1>1, <1>2 DEF TidyInv, Refuse
<1>4. /\ c \notin inside /\ wire' = [wire EXCEPT ![c] = "error"]
      /\ UNCHANGED <<rpClient, inside, openCount, connectCount, probe, protocol, losses>>
  BY DEF Refuse, Answer
<1>5. OneInside'
  BY <1>3, <1>4 DEF TidyInv, TidyFits, OneInside, RpInv, RpTypeOK, HoldersFit, rpClient
<1>6. \A d \in RpClient, n \in Methods : Done(d, n)' <=> Done(d, n)
  BY <1>3, <1>4 DEF TidyInv, RpInv, RpTypeOK, Done, rpClient
<1>7. Opened' = Opened /\ Linked' = Linked
  BY <1>3, <1>4, <1>6 DEF TidyInv, RpInv, RpTypeOK, Opened, Linked, Methods, Proxied, rpClient
<1>8. Stands(openCount, Opened)' /\ Stands(connectCount, Linked)'
  BY <1>3, <1>4, <1>7 DEF TidyInv, TidyFits, Stands
<1>9. ProbeFits'
  <2>1. \A d \in inside : wire'[d] = wire[d]
    BY <1>4 DEF TidyInv, RpInv, RpTypeOK
  <2> QED
    BY <1>3, <1>4, <2>1 DEF TidyInv, TidyFits, ProbeFits, Within
<1> QED
  BY <1>5, <1>8, <1>9 DEF TidyFits

(* Every step of a tidy server keeps what its counts stand for.            *)
LEMMA TidyStep ==
  ASSUME TidyInv, [RpNext]_rpVars
  PROVE  TidyInv'
<1>1. CASE UNCHANGED rpVars
  <2>1. RpInv'
    BY <1>1, InvStep DEF TidyInv
  <2>2. StagesFit' /\ (tidy => OneInside')
    BY <1>1 DEF TidyInv, TidyFits, StagesFit, OneInside, rpVars, rpClient, rpProxy
  <2>3. Opened' = Opened /\ Linked' = Linked
    BY <1>1 DEF Opened, Linked, Done, rpVars, rpClient
  <2> QED
    BY <1>1, <2>1, <2>2, <2>3, CountsKept DEF rpVars
<1>2. ASSUME NEW t \in RpThread,
             \/ \E m \in Methods : Call(t, m)
             \/ Lock(t) \/ Unlock(t) \/ Request(t) \/ Return(t)
      PROVE  TidyInv'
  BY <1>2, CallTidy, LockTidy, RequestTidy, ReturnTidy
<1>3. ASSUME NEW c \in RpClient,
             \/ Lose(c) \/ ServeAccess(c) \/ ServeLock(c) \/ ServeUnlock(c)
             \/ Enter(c) \/ Count(c) \/ Refuse(c)
      PROVE  TidyInv'
  BY <1>3, LoseTidy, ServeTidy, EnterTidy, CountTidy, RefuseTidy
<1> QED
  BY <1>1, <1>2, <1>3 DEF RpNext

(* Between two requests of the kind the sets the counts stand for are the  *)
(* clients whose probe is open and connected, and lost ones.               *)
LEMMA TidyImpliesMatch ==
  ASSUME TidyInv
  PROVE  ProbeMatchesClients
<1> DEFINE users  == {c \in RpClient : stage[c] \in {"open", "connected"}}
           joined == {c \in RpClient : stage[c] = "connected"}
<1>1. SUFFICES ASSUME tidy, \A t \in RpThread : method[t] \notin Proxied, inside = {}
               PROVE  /\ openCount >= Cardinality(users) /\ connectCount >= Cardinality(joined)
                      /\ losses = 0 => /\ openCount = Cardinality(users)
                                       /\ connectCount = Cardinality(joined)
                      /\ (probe = "open") = (openCount > 0)
                      /\ (protocol # "none") = (connectCount > 0)
  BY DEF ProbeMatchesClients
<1>2. \A c \in RpClient, n \in Proxied : ~Done(c, n)
  BY <1>1 DEF Done
<1>3. users \subseteq Opened /\ joined \subseteq Linked
  BY <1>2 DEF Opened, Linked, Proxied
<1>4. losses = 0 => users = Opened /\ joined = Linked
  BY <1>2 DEF TidyInv, StagesFit, Opened, Linked, Proxied
<1>5. /\ Stands(openCount, Opened) /\ Stands(connectCount, Linked)
      /\ openCount \in Int /\ connectCount \in Int
  BY <1>1 DEF TidyInv, TidyFits, RpInv, RpTypeOK
<1>6. /\ IsFiniteSet(users) /\ Cardinality(users) <= Cardinality(Opened)
      /\ IsFiniteSet(joined) /\ Cardinality(joined) <= Cardinality(Linked)
  BY <1>3, <1>5, FS_Subset DEF Stands
<1>7. /\ Cardinality(users) \in Nat /\ Cardinality(joined) \in Nat
      /\ Cardinality(Opened) \in Nat /\ Cardinality(Linked) \in Nat
  BY <1>5, <1>6, FS_CardinalityType DEF Stands
<1>8. /\ openCount >= Cardinality(users) /\ connectCount >= Cardinality(joined)
      /\ losses = 0 => openCount = Cardinality(users) /\ connectCount = Cardinality(joined)
  <2> HIDE DEF users, joined
  <2> QED
    BY <1>4, <1>5, <1>6, <1>7 DEF Stands
<1>9. (probe = "open") = (openCount > 0) /\ (protocol # "none") = (connectCount > 0)
  <2>1. openCount \in Nat /\ connectCount \in Nat
    BY <1>5, <1>7 DEF Stands
  <2>2. \A m : ~Within(m)
    BY <1>1 DEF Within
  <2> QED
    BY <1>1, <2>1, <2>2 DEF TidyInv, TidyFits, ProbeFits
<1> QED
  BY <1>8, <1>9

(* The counts of a tidy server are of the clients that use the probe, and  *)
(* the probe is open and connected just as they say, for every number of   *)
(* clients, threads, lost clients and errors of connect().                 *)
THEOREM ProbeMatchesClientsAlways == RpSpec => []ProbeMatchesClients
<1>1. RpInit => TidyInv
  BY TidyInit
<1>2. TidyInv /\ [RpNext]_rpVars => TidyInv'
  BY TidyStep
<1>3. TidyInv => ProbeMatchesClients
  BY TidyImpliesMatch
<1> QED
  BY <1>1, <1>2, <1>3, PTL DEF RpSpec
===============================================================================
