----------------------------- MODULE RemoteProbe -----------------------------
(***************************************************************************)
(* A debug probe shared over the network: client processes, each with      *)
(* threads that use one TCPClientProbe, a handler thread in the server for *)
(* each connection, and the proxy that counts opens and connects.          *)
(*                                                                         *)
(* A client has one request under way at a time.  It asks for the server's *)
(* lock, which the handler thread then owns, for its first lock() only and *)
(* gives it back with its last unlock().  A client may be lost at any      *)
(* time; its handler ends when it has served the last request.             *)
(***************************************************************************)
EXTENDS Naturals, Integers, FiniteSets

CONSTANTS RpThread,  \* threads of all clients
          Home,      \* the client of each
          Nobody,    \* holder of a free lock
          Protocols, \* wire protocols
          MaxHeld,   \* bound: nested locks of a thread
          MaxLosses, \* bound: clients that are lost
          MaxErrors  \* bound: errors raised by the probe's open() and connect()

RpClient == {Home[t] : t \in RpThread}

ASSUME RemoteAssumption ==
  /\ Nobody \notin RpThread \cup RpClient /\ "none" \notin Protocols
  /\ MaxHeld \in Nat /\ MaxLosses \in Nat /\ MaxErrors \in Nat

VARIABLES
  \* the clients
  stage,      \* "off", "failed" to open, "open", "connected" or "lost"
  method,     \* the method a thread is in
  held,       \* locks it has to give back
  lockCount,  \* _lock_count
  counting,   \* holder of _lock_count_lock
  requesting, \* holder of _lock
  wire,       \* the request or the reply on the connection
  \* the server
  inside,     \* handlers that are between a test and a count of the proxy
  probeLock,  \* owner of the probe's lock: the handler of a client
  openCount, connectCount,
  probe,      \* "closed" or "open"
  protocol,   \* wire_protocol of the probe
  losses, errors,
  tidy        \* history: no two handlers were inside at a time, and no open() failed

rpLocal  == <<held, lockCount, counting>>
rpClient == <<stage, method, rpLocal, requesting>>
rpProxy  == <<inside, openCount, connectCount, probe, protocol, errors, tidy>>
rpVars   == <<rpClient, wire, rpProxy, probeLock, losses>>

Proxied == {"open", "connect", "disconnect", "close"}
Methods == Proxied \cup {"lock", "unlock", "access"}

RpInit ==
  /\ stage = [c \in RpClient |-> "off"]
  /\ method = [t \in RpThread |-> "none"] /\ held = [t \in RpThread |-> 0]
  /\ lockCount = [c \in RpClient |-> 0]
  /\ counting = [c \in RpClient |-> Nobody] /\ requesting = counting
  /\ wire = [c \in RpClient |-> "none"]
  /\ inside = {} /\ probeLock = Nobody
  /\ openCount = 0 /\ connectCount = 0 /\ probe = "closed" /\ protocol = "none"
  /\ losses = 0 /\ errors = 0 /\ tidy = TRUE

-----------------------------------------------------------------------------
(* The threads of the clients.                                             *)

Sole(c) == \A t \in RpThread : Home[t] = c => method[t] = "none" /\ held[t] = 0

(* How a session uses its probe: one thread opens, connects, disconnects   *)
(* and closes, and any thread accesses what it has locked.                 *)
InUse(t, m) ==
  LET c == Home[t]
  IN \/ m = "open" /\ stage[c] = "off" /\ Sole(c)
     \/ m = "close" /\ stage[c] \in {"failed", "open"} /\ Sole(c)
     \/ m = "connect" /\ stage[c] = "open" /\ Sole(c)
     \/ m = "disconnect" /\ stage[c] = "connected" /\ Sole(c)
     \/ m = "lock" /\ stage[c] = "connected" /\ held[t] < MaxHeld
     \/ m \in {"access", "unlock"} /\ held[t] > 0

Call(t, m) ==
  /\ method[t] = "none" /\ InUse(t, m)
  /\ method' = [method EXCEPT ![t] = m]
  /\ UNCHANGED <<stage, rpLocal, requesting, wire, rpProxy, probeLock, losses>>

(* lock(): mutant: counted before the server was asked.                    *)
Lock_CountsFirst(t) ==
  LET c == Home[t]
  IN /\ method[t] = "lock" /\ counting[c] = Nobody
     /\ lockCount' = [lockCount EXCEPT ![c] = @ + 1]
     /\ held' = [held EXCEPT ![t] = @ + 1]
     /\ UNCHANGED counting
     /\ IF lockCount[c] = 0
          THEN method' = [method EXCEPT ![t] = "access"]
          ELSE method' = [method EXCEPT ![t] = "none"]
     /\ UNCHANGED <<stage, requesting, wire, rpProxy, probeLock, losses>>

Lock(t) ==
  LET c == Home[t]
  IN /\ method[t] = "lock" /\ counting[c] = Nobody
     /\ IF lockCount[c] = 0
          THEN counting' = [counting EXCEPT ![c] = t] /\ UNCHANGED <<method, held, lockCount>>
          ELSE /\ lockCount' = [lockCount EXCEPT ![c] = @ + 1]
               /\ held' = [held EXCEPT ![t] = @ + 1]
               /\ method' = [method EXCEPT ![t] = "none"] /\ UNCHANGED counting
     /\ UNCHANGED <<stage, requesting, wire, rpProxy, probeLock, losses>>

Unlock(t) ==
  LET c == Home[t]
  IN /\ method[t] = "unlock" /\ counting[c] = Nobody
     /\ lockCount' = [lockCount EXCEPT ![c] = @ - 1]
     /\ held' = [held EXCEPT ![t] = @ - 1]
     /\ IF lockCount[c] = 1
          THEN counting' = [counting EXCEPT ![c] = t] /\ UNCHANGED method
          ELSE method' = [method EXCEPT ![t] = "none"] /\ UNCHANGED counting
     /\ UNCHANGED <<stage, requesting, wire, rpProxy, probeLock, losses>>

(* _perform_request: the client's lock is held until the reply is read.    *)
Request(t) ==
  LET c == Home[t]
  IN /\ method[t] # "none" /\ (method[t] \in {"lock", "unlock"} => counting[c] = t)
     /\ requesting[c] = Nobody
     /\ requesting' = [requesting EXCEPT ![c] = t]
     /\ wire' = [wire EXCEPT ![c] = method[t]]
     /\ UNCHANGED <<stage, method, rpLocal, rpProxy, probeLock, losses>>

(* The stage once a method has returned, or raised; a probe that failed to *)
(* open counts as open for close().                                        *)
StageAfter(c, m, ok) ==
  CASE m = "open"       -> IF ok THEN "open" ELSE "failed"
    [] m = "connect"    -> IF ok THEN "connected" ELSE "open"
    [] m = "disconnect" -> "open"
    [] m = "close"      -> "off"
    [] OTHER            -> stage[c]

Return(t) ==
  LET c == Home[t]
      m == method[t]
  IN /\ requesting[c] = t /\ wire[c] \in {"ok", "error"}
     /\ wire' = [wire EXCEPT ![c] = "none"]
     /\ requesting' = [requesting EXCEPT ![c] = Nobody]
     /\ method' = [method EXCEPT ![t] = "none"]
     /\ stage' = [stage EXCEPT ![c] = StageAfter(c, m, wire[c] = "ok")]
     /\ counting' = [counting EXCEPT ![c] = IF @ = t THEN Nobody ELSE @]
     /\ IF m = "lock"
          THEN /\ lockCount' = [lockCount EXCEPT ![c] = @ + 1]
               /\ held' = [held EXCEPT ![t] = @ + 1]
          ELSE UNCHANGED <<lockCount, held>>
  /\ UNCHANGED <<rpProxy, probeLock, losses>>

(* A process dies, or its connection.                                      *)
Lose(c) ==
  /\ losses < MaxLosses /\ losses' = losses + 1
  /\ stage[c] \notin {"off", "lost"}
  /\ stage' = [stage EXCEPT ![c] = "lost"]
  /\ method' = [t \in RpThread |-> IF Home[t] = c THEN "none" ELSE method[t]]
  /\ held' = [t \in RpThread |-> IF Home[t] = c THEN 0 ELSE held[t]]
  /\ lockCount' = [lockCount EXCEPT ![c] = 0]
  /\ counting' = [counting EXCEPT ![c] = Nobody]
  /\ requesting' = [requesting EXCEPT ![c] = Nobody]
  /\ UNCHANGED <<wire, rpProxy, probeLock>>

-----------------------------------------------------------------------------
(* The handler of a client's connection.                                   *)

Answer(c, answer) == wire' = [wire EXCEPT ![c] = answer]

ServeAccess(c) ==
  /\ wire[c] = "access" /\ Answer(c, "ok")
  /\ UNCHANGED <<rpClient, rpProxy, probeLock, losses>>

(* The lock is recursive, but asked for once.                              *)
ServeLock(c) ==
  /\ wire[c] = "lock" /\ probeLock \in {Nobody, c}
  /\ probeLock' = c /\ Answer(c, "ok")
  /\ UNCHANGED <<rpClient, rpProxy, losses>>

ServeUnlock(c) ==
  /\ wire[c] = "unlock" /\ probeLock = c
  /\ probeLock' = Nobody /\ Answer(c, "ok")
  /\ UNCHANGED <<rpClient, rpProxy, losses>>

(* The probe's own open(), close(), connect() and disconnect(), called for *)
(* the first and the last of the clients.  What is open already, or not    *)
(* open, raises or not, as the kind of probe has it.                       *)
UseProbe(m) ==
  \/ m = "open" /\ openCount = 0 /\ probe' = "open" /\ UNCHANGED protocol
  \/ m = "close" /\ openCount = 1 /\ probe' = "closed" /\ UNCHANGED protocol
  \/ /\ m = "connect" /\ connectCount = 0 /\ probe = "open"
     /\ protocol' \in Protocols /\ UNCHANGED probe
  \/ m = "disconnect" /\ connectCount = 1 /\ protocol' = "none" /\ UNCHANGED probe

(* Mutant: the last one to close does not close the probe.                 *)
NotFirstOrLast_AtZero(m) ==
  \/ m = "open" /\ openCount # 0
  \/ m = "close" /\ openCount # 0
  \/ m = "connect" /\ connectCount # 0
  \/ m = "disconnect" /\ connectCount # 1

NotFirstOrLast(m) ==
  \/ m = "open" /\ openCount # 0
  \/ m = "close" /\ openCount # 1
  \/ m = "connect" /\ connectCount # 0
  \/ m = "disconnect" /\ connectCount # 1

Enter(c) ==
  /\ wire[c] \in Proxied /\ c \notin inside
  /\ UseProbe(wire[c]) \/ (NotFirstOrLast(wire[c]) /\ UNCHANGED <<probe, protocol>>)
  /\ inside' = inside \cup {c}
  /\ tidy' = (tidy /\ inside = {})
  /\ UNCHANGED <<rpClient, wire, probeLock, openCount, connectCount, losses, errors>>

Count(c) ==
  /\ c \in inside /\ inside' = inside \ {c}
  /\ openCount' = CASE wire[c] = "open"  -> openCount + 1
                    [] wire[c] = "close" -> openCount - 1 [] OTHER -> openCount
  /\ connectCount' = CASE wire[c] = "connect"    -> connectCount + 1
                       [] wire[c] = "disconnect" -> connectCount - 1 [] OTHER -> connectCount
  /\ Answer(c, "ok")
  /\ UNCHANGED <<rpClient, probeLock, probe, protocol, losses, errors, tidy>>

(* An error the probe raises, and the one for another protocol than that   *)
(* of the first to connect.                                                *)
Refuse(c) ==
  /\ \/ /\ wire[c] \in {"open", "connect"} /\ c \notin inside
        /\ ~NotFirstOrLast(wire[c])
        /\ \/ errors < MaxErrors /\ errors' = errors + 1
           \/ (wire[c] = "open") = (probe = "open") /\ UNCHANGED errors
     \/ /\ wire[c] = "connect" /\ c \notin inside /\ connectCount # 0
        /\ Protocols # {protocol} /\ UNCHANGED errors
  /\ tidy' = (tidy /\ inside = {} /\ wire[c] # "open")
  /\ Answer(c, "error")
  /\ UNCHANGED <<rpClient, probeLock, inside, openCount, connectCount, probe, protocol, losses>>

RpNext ==
  \/ \E t \in RpThread :
       (\E m \in Methods : Call(t, m)) \/ Lock(t) \/ Unlock(t) \/ Request(t) \/ Return(t)
  \/ \E c \in RpClient :
       \/ Lose(c) \/ ServeAccess(c) \/ ServeLock(c) \/ ServeUnlock(c)
       \/ Enter(c) \/ Count(c) \/ Refuse(c)

RpSpec == RpInit /\ [][RpNext]_rpVars

-----------------------------------------------------------------------------
(* Properties                                                              *)

RpTypeOK ==
  /\ stage \in [RpClient -> {"off", "failed", "open", "connected", "lost"}]
  /\ method \in [RpThread -> Methods \cup {"none"}] /\ held \in [RpThread -> 0..MaxHeld]
  /\ lockCount \in [RpClient -> Nat]
  /\ counting \in [RpClient -> RpThread \cup {Nobody}]
  /\ requesting \in [RpClient -> RpThread \cup {Nobody}]
  /\ wire \in [RpClient -> Methods \cup {"none", "ok", "error"}]
  /\ inside \subseteq RpClient /\ probeLock \in RpClient \cup {Nobody}
  /\ openCount \in Int /\ connectCount \in Int
  /\ probe \in {"closed", "open"} /\ protocol \in Protocols \cup {"none"}

(* The server serves the accesses of one client at a time: a thread that   *)
(* has locked the probe, itself or because another thread of its process   *)
(* had, is of the client whose handler owns the probe's lock, whatever     *)
(* locks are nested, waited for or lost with their process.                *)
LockIsExclusive ==
  /\ \A t \in RpThread : held[t] > 0 => probeLock = Home[t]
  /\ \A c \in RpClient : wire[c] \in {"access", "unlock"} => probeLock = c

(* "The server manages the requests to ensure that the underlying probe is *)
(* only opened and connected once", and is disconnected and closed when    *)
(* the last client disconnects and closes: so it is, in a tidy server,     *)
(* between two requests of the kind.  A client that is lost counts on.     *)
ProbeMatchesClients ==
  LET users  == {c \in RpClient : stage[c] \in {"open", "connected"}}
      joined == {c \in RpClient : stage[c] = "connected"}
  IN tidy /\ (\A t \in RpThread : method[t] \notin Proxied) /\ inside = {}
     => /\ openCount >= Cardinality(users) /\ connectCount >= Cardinality(joined)
        /\ losses = 0 => openCount = Cardinality(users) /\ connectCount = Cardinality(joined)
        /\ (probe = "open") = (openCount > 0) /\ (protocol # "none") = (connectCount > 0)
=============================================================================
