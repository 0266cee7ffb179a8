# A TLA+ model of pyOCD

pyOCD is a debugger for Arm Cortex-M microcontrollers: a Python library with a
command line and a GDB server that drives a target through a debug probe.  This
directory holds TLA+ modules for the parts of it in which an error is hard to
provoke with a test: threads that share a probe, transfers that are queued and
answered later, caches of state that changes behind them, and edits of a
target's memory that must be undone whatever happens.  `PROJECT.json` lists the
components, the runs, the hazards, the mutants and, definition by definition,
the source lines each operator stands for.

Contents: [The system](#the-system) - [The modules](#the-modules) -
[The runs](#the-runs) - [Fairness](#fairness) - [The proofs](#the-proofs) -
[Where the code and its words disagree](#where-the-code-and-its-words-disagree) -
[What is not modelled](#what-is-not-modelled) - [Plan](#plan)

To check a run: `tlc -config MCDap_run.cfg MCDap`; to check the proofs:
`tlapm Target_proofs.tla`.

## The system

A debug session is a stack.  A request goes down by method calls; results come
back as return values or, for deferred reads, as callbacks; and notifications
(`utility/notification.py`) go sideways, from a core that is about to run or has
been reset to those who keep state about it.

    gdb  gdb       commander, load, erase, rtt, run ...
     |    |               |
    GDB server (threads)  |       flash front end
         |                |              |
    breakpoint manager, debug contexts with caches, flash builder and algorithm
         |                |              |
                  core (CortexM)
                        |
                 MEM_AP  (CSW, TAR, DRW)
                        |
                 DebugPort (SELECT, probe lock)
                        |
     CMSIS-DAP pipeline | other probes | remote probe -- TCP -- probe server
                        |
                     USB, HID

| Component | State it keeps | Operations | Talks to | What is hard | What makes it correct |
|---|---|---|---|---|---|
| **Breakpoints** `debug/breakpoints/`, `coresight/fpb.py` | live and updated dicts; comparators and their count; replaced instructions | set, remove, flush on PRE_RUN, remove all, filter memory reads | core notifications; core memory | lazy edits against resets and disconnects; failures inside a flush; shared mutable comparators | target and dicts agree whenever the core runs; a planted BKPT is never forgotten and never seen by a reader |
| **Caches** `cache/`, `debug/cache.py` | interval tree, register dict, run token | read, write, invalidate | core state, core memory | the core runs, sleeps or is reset between two accesses; overlaps; aliased registers | what is returned is what the halted core has |
| **GDB server** `gdbserver/` | sessions, attached and extended flags, two locks, shutdown event | accept, attach, continue, Ctrl-C, detach, kill, restart, stop | target, breakpoints, semihosting | threads that come and go while others wait; a continue gives up the lock | an attached gdb finds a halted core; the last one releases it; the server ends |
| **MEM-AP** `coresight/ap.py` | cached CSW of each AP | single and block transfers | DebugPort | auto-increment wraps; the cache is stale after errors and resets | each transfer has the size and address it was meant to have |
| **DebugPort** `coresight/dap.py` | cached SELECT, pending reads | register accesses, flush, reset, error recovery | probe and its recursive lock | bank chosen in one call, used in another; errors that surface late | an access reaches the bank it was meant for; the lock is given back |
| **CMSIS-DAP pipeline** `probe/pydapaccess/` | command being filled, commands in flight, transfers that wait, response buffer | register accesses, flush, deferred mode, open, close | USB back end | one reply carries the words of several transfers; an error cuts all of it; callbacks in other threads | each read gets its own words; accesses happen in order and once |
| **Flash** `flash/` | inited operation, pages and sectors, double buffers | init, erase, program, uninit, verify | core memory, run control | failures between init and uninit; programming overlaps loading | what is programmed is what was asked for, and nothing that was not erased |
| **Remote probe** `probe/tcp_*`, `shared_probe_proxy.py` | open and connect counts, lock count | requests over TCP | DebugProbe | lost clients; a lock that belongs to a connection, not a thread | the probe is open while a client has it open; one thread at a time has the lock |
| **RTT** `debug/rtt.py`, `utility/rtt_*` | ring offsets shared with the target | read, write, blocking write | core memory | both sides move offsets | bytes arrive in order, once |
| **Packets** `gdbserver/packet_io.py` | buffer, queue of commands, expected ack, interrupt event | read, check, ack, resend, Ctrl-C | gdb's socket, session thread | two threads share flags; packets split and damaged; acks and Ctrl-C between them | each command is handled once and answered |
| **USB, HID** `probe/pydapaccess/interface/` | queue of answers, credits, stop event | open, write, read, close | the probe; the pipeline | a receive thread that waits, reads or is dead; answers that come late | an answer is that of the oldest open command; `close()` returns |
| **SDC-600** `coresight/sdc600.py` | link phase | open, close, send, receive | MEM-AP | flags inside packets, remote reset | the packet received is the packet sent |
| **Core control** `coresight/cortex_m*.py`, `coresight_target.py` | run token, last vector catch | connect, halt, resume, step, reset, vector catch, registers | MEM-AP, notifications | one register access at a time against a core that moves; sticky bits; polling with timeouts; errors half-way | a call that stops the core has stopped it where it should; catch and mask are as before; a core that ran has a new run token |
| **Semihosting** `debug/semihost.py` | open files | one request per stop | core, GDB server | a request of one gdb's program seen by another | the program goes on after its request |
| **Sequences and sessions** `debug/sequences/`, `core/`, `board/` | options, task lists | construct, look up, run tasks | everything | task order edited by targets | sequential |
| **Trace** `trace/`, **RTOS** `rtos/`, **symbols** `debug/elf`, `debug/svd` | parsers' states | parse | memory, files | data, not control | - |
| **Commands** `commands/`, `subcommands/`, **targets** `target/` | - | front ends, descriptions of devices | everything | - | - |

The threads: the server thread of each GDB server, one thread for each gdb, the
workers of RTT, SWO and stream servers, a handler for each client of a probe
server, and the thread of the command line.  They share the probe; between them
stand the recursive lock of `DebugProbe`, the RLock of `DAPAccessCMSISDAP`, the
lock of the GDB server and the lock of its list of sessions.

## The modules

| Module | Models | Relation |
|---|---|---|
| `BreakpointService` | abstract: breakpoints asked for, armed in the target, and when the two must agree | - |
| `BreakpointManager` | `manager.py`, `software.py`, `fpb.py`, and the parts of `cortex_m.py` that notify and filter | implements `BreakpointService` |
| `TransferService` | abstract: accesses in order, reads outstanding, answered from the front or given up | - |
| `DapPipeline` | `dap_access_cmsis_dap.py` (`_Transfer`, `_Command`, the locked methods), `cmsis_dap_core.py` | implements `TransferService` |
| `MemoryCache`, `RegisterCache` | the pure parts of `cache/memory.py` and `cache/register.py`: interval tree, invalidation of aliases | constants-level |
| `CachedContext` | `CachingDebugContext`: both caches, the run token and the core | extends both |
| `CoreControl` | `CortexM`: enabling debug, halt, resume, step, resets, reset catch, `get_state()`; the connect modes of `CoreSightTarget` | what `CachedContext` takes as one step |
| `GdbServer` | `GDBServer` and `GDBClientSession` | - |
| `PacketIo` | `GDBServerPacketIOThread` and the way a session takes commands and replies | - |
| `DebugPort` | `DebugPort` of `coresight/dap.py` and the lock of `DebugProbe` | - |
| `MemAp` | `MEM_AP` of `coresight/ap.py`; its accesses are those of the DebugPort below it | extends, and implements, `DebugPort` |
| `FlashService` | abstract: a region of flash whose sectors are erased and pages programmed, until what was asked for is there | - |
| `FlashBuilder` | `FlashBuilder` of `flash/builder.py`, the calls of the algorithm in `flash/flash.py`, and one region of `FlashLoader.commit()` | implements `FlashService` |
| `RemoteProbe` | `tcp_client_probe.py`, `tcp_probe_server.py`, `shared_probe_proxy.py` and the lock they forward | - |
| `ByteQueue` | abstract: a bounded queue of bytes | - |
| `RttChannel` | `read()` and `write()` of `debug/rtt.py` against the target's side of the ring | implements `ByteQueue` |
| `UsbBackend` | `pyusb_v2_backend.py` and `hidapi_backend.py`: user, receive thread and probe | - |
| `MC*` | instances for TLC | |
| `*_proofs` | theorems | |

Four of the instances, `MCTarget`, `MCCore`, `MCServers` and `MCWaits`, join components
that share no state.  A behaviour picks one of them at the start and only that
one moves, so their states add and do not multiply; a part that is not picked
stays in one initial state.  Each property speaks of one component, and so is
checked as if the component were alone.

**BreakpointManager.**  A dict is the sequence of its entries in insertion
order, because `flush()` walks it in that order.  `pc` says in which of the
manager's loops the thread is; each call of a provider is a step (`RemoveOne`,
`AddOne`), so an access that raises cuts the loop exactly where it would
(`SwRemoveFails`, `HwSetFails`, ...).  `comps` has for each comparator the
object's fields and the register's content, because the two can differ; the
objects are shared by reference, as in the code, and named by index.  `mem` is
the RAM, `image` what the clients wrote to it.  `OtherCoreRuns` is the PRE_RUN
of another core: the manager subscribes without a source.  An access that raises
may have been performed: a set that fails may leave its BKPT, for which the
provider then has no entry (`SwSetFails`), a failed removal may have restored
the instruction of an entry that stays.  There are three resets:
`reset_and_halt()`, which removes the breakpoints first and tells the FPB's owner at
its end, or raises before (`ResetRaises`); one without a catch, of which the manager hears nothing
(`Reset`); and the emulated one, which resumes like any client (`EmulatedReset`).
Disconnecting removes all and, with `resume`, flushes again.  Four histories
name what the code does not recover from: the accesses of each provider that have
failed (`faults`), the addresses at which RAM and the provider have parted
(`astray`), a reset of the FPB behind its provider (`unitOff`), and a walk over
comparator objects that has changed one of those still to come (`aliased`).

**DapPipeline.**  One step for each packet that is sent or read under the lock,
one step for each test that `get_result()` makes without it.  A word is the
number of its access and its place in it, so "the right word" needs no data.
The size rules of `_Command` (free words, the block flag, the count limit) are
kept to the byte, with small packets.  `executed` is the order of accesses in
the target.

**MemoryCache, RegisterCache, CachedContext.**  The interval tree is a set of
disjoint intervals with their bytes.  An access has two steps, as in the code:
`Begin...` checks the run token and picks cached or missing ranges; the second
uses them.  Between them the core may halt, sleep or wake.  Every error a transfer
can raise is there: one that empties the cache (`CoreRegisterAccessError`), one
that does not (`TransferError`), a block write that is cut short.  Two histories name what
the code then leaves wrong: `torn`, the addresses that were cached when a failed write
changed them, and `doubted`, the registers whose write failed unnoticed, or
which a write changes without dropping them (`Overlooked`: CFBP when one of its bytes is
written, D registers beside the S registers they are made of).

**CoreControl.**  A call is `todo`, the sequence of its steps that are left, and a
step makes one access to DHCSR, DEMCR, AIRCR or the reset line.  Between any two
the core executes, halts or leaves reset by itself.  An access may raise, whether
it was performed or not; then the rest of `todo` is dropped, as an exception drops
the rest of a method, except where the code catches it (`Handler`, `AircrLost`,
`RecoverCore`).  Loops put their steps back at the front.  Reading DHCSR clears its
sticky bits, which is why `get_state()` may read twice.  `outcome` says how the
call ended (normally, raised, refused, by a timeout or callback), because the
properties promise less then.

**GdbServer.**  A session's thread, the server thread and the two locks; a
command under the lock is one step, except `continue` and `detach`, which give
it up or take the second lock.  The core is one variable: running, halted by the
debugger, stopped by a trap or by a semihosting request.  A lost connection, a
Ctrl-C and a stop reply under way are states of the link.  A step that is cut
may leave the core running (`lost`), and the release of the core by the last session fails in
two ways: inside the try, which logs, or at the `get_state()` outside of it.

**PacketIo.**  What `GdbServer` takes for granted: that a command reaches the
session once and its reply gets back.  The two directions of the socket are
sequences of items; a packet is two items, so a read may end inside it, and it
may be damaged.  Each part of `_process_data()` (ack, Ctrl-C, packet) is a step,
since the session's thread sets `_expecting_ack` and `_clear_send_acks` between
them.  gdb is the environment: one command at a time, sent again when it is
refused, a Ctrl-C while a `continue` is under way.

**DebugPort and MemAp.**  SELECT is a record of two fields, the AP with its
bank and the DP bank.  An operation is a `program`, the sequence of register
accesses it makes; each access chooses a bank, writes SELECT if the cached value
differs, and puts a request in the probe's queue, which the target executes
(`Deliver`) or refuses (`Fail`).  A `mode` chosen at the start says whether
transfers are deferred, which errors happen and whether threads take turns.  The
errors are a fault, a timeout, a protocol error, and one of the probe itself (`ProbeError`),
after which the access may have been executed and nothing is recovered: the cached
SELECT stays, and a level of the lock may be lost.
MemAp supplies programs for memory transfers, and gives each request of CSW, TAR
and DRW its effect (`Perform`).

**FlashBuilder.**  A page is two halves, the one that the estimate reads and the
rest, so that "partly read", "unknown" and "asked for in part" are all there.
`same` is the flag of a page: unknown, yes, no, or absent from the list.  The
analysis before erasing and the fill of pages nobody asked for are functions of
flags and contents; erasing, programming, and each call of the algorithm (Init,
UnInit and the rest) are steps that may fail.  An Init that fails may have run in the target, which is
then inited while no operation is active.  `Retry` commits the same data
again with the same `Flash` object, which remembers `_active_operation`.  With
two buffers `LoadBuffer`, `StartProgram` and `WaitProgrammed` are the host's
steps and `TargetPrograms` the moment at which the algorithm reads its buffer.
Programming a page that is not erased gives `Mixed`, which is neither.

**RemoteProbe.**  A client is a process with threads, one connection and one
handler in the server.  `held` is what each thread believes to have locked,
`lockCount` what its process counts, `probeLock` what the server's handler owns.
The proxy tests its count (`Enter`) and changes it after the call (`Count`),
because nothing excludes another handler in between; the history variable
`tidy` says whether that has happened.  `Lose` ends a client at any time.

**RttChannel.**  Both sides move offsets with plain reads and writes of memory:
the host reads both offsets, copies up to the end of the ring, copies from its
start, and stores its own offset, each a step between which the target goes on.
The bytes are numbered; the queue is what lies between the offsets.

**UsbBackend.**  The receive thread reads one packet for each credit of its
semaphore.  Answers carry the number of their command, so that a stale one is
told apart.  "usb" and "hid" differ in what the code makes them differ in: a
read of HID has no timeout, and only its `close()` makes the semaphore anew.  A write that
raises did or did not deliver its packet, and what the probe still works on when
the interface is closed may be answered after it was opened again; `gaveUp` says that an
answer nobody waits for can still come.

## The runs

Twelve runs, each of at most a few minutes with two workers.

| Run | Instance | States | Shows |
|---|---|---|---|
| `target_run` | breakpoints: 2 flash + 1 RAM address, FPBv2 with 2 comparators, programs of 2 instructions; or flash: 4 pages in 2 sectors, all kinds of requests, with and without `smart_flash`, `keep_unwritten`, chip erase and a second buffer, up to 2 failing calls | 275k | without failures and resets, `BreakpointService` is implemented: armed is what the manager says, and a breakpoint is never dropped while there are enough comparators. `FlashService` is implemented whatever fails: only pages that are erased are programmed, with the data that was asked for; the flash changes only while the algorithm is inited for that; a commit that returns is complete |
| `bp_faults` | 1 flash + 1 RAM, FPBv2 with 2 comparators, programs of 2 instructions, steps, all resets, other cores, writes over live breakpoints, disconnects with and without resuming, 1 failing access of either provider, performed or not | 4.6M | armed is what is live, through resets and disconnects; reads never show a BKPT, and every BKPT left in RAM is known to its provider, but where a set failed after it planted one; the count of comparators stays in range |
| `bp_lost_after_reset` | FPBv1 with 2 comparators, resets | violated | a breakpoint is lost after `reset_and_halt()`, see below |
| `pipe_run` | one thread with accesses of 7 and 10 words, packets of 37 bytes and 9 transfers, 1 failing access, deferred mode turned off, close; or two threads with single words, 12-byte packets and a fault of target, USB reads or USB writes, alone or each with one; 2 packets in flight | 210k | the words promised to transfers are exactly those in flight, packets fit, accesses are in order, without a fault a flush leaves none out; every call returns; `TransferService` is implemented |
| `pipe_aborted` | 1 thread | violated | a callback fails an assertion, see below |
| `cache_run` | caches: 4 cacheable bytes and 1 device byte, accesses of 1, 2 and 4 bytes, registers of a core with Security Extension (with CFBP itself, its bytes, and a D register with its S registers), 1 failing access of any kind; or core control: all connect modes, then calls that change the run token twice, and any that do not, with 2 failing accesses, with and without VECTRESET | 1.2M | nothing stale is returned by a halted core; caches mirror the core while their token is current, but where a write failed or is overlooked. Calls that are to stop the core have stopped it where they should; reset catch and interrupt mask are given back; a halted core with a known run token has not run |
| `cache_asleep` | the same, accesses also while the core sleeps | violated | stale memory, see below |
| `gdb_sessions` | 2 gdbs, all commands, semihosting, lost connections, 1 failing access; or a stop at any time and gdbs that kill, detach and continue; or a probe server with 3 threads of 2 clients, nested locks, 1 lost client, 1 error of the probe | 1.6M | attached gdbs find the core halted; the last one releases it. One client at a time has the shared probe; it is open and connected as long as a client has it so |
| `waits` | 2 gdbs, `continue`, detach in both modes, Ctrl-C from one of them; or scripts of 3 commands with Ctrl-C, acks turned off and 2 damaged packets; or rings of 2, 3 and 5 bytes and 8 bytes to send; or 3 commands to a USB or HID probe that is opened twice | 47k | Ctrl-C stops a continue, commands are answered, the server exits; packets are handled once, in order, and answered; a ring is a queue and a blocking write returns; an answer is that of its command and `close()` returns |
| `gdb_attach_race` | 2 gdbs, one may connect while the other leaves | violated | core resumed under a gdb, see below |
| `mem_run` | 2 threads, 2 APs (1 MEM-AP), 2 DP banks, pages of 2 words, blocks of 2 words across a page; 3 operations, 3 requests waiting in the probe; healthy, undeferred with faults and timeouts, with late errors, or with a probe that fails | 236k | every access reaches its bank, size and address; the lock is balanced; calls return |
| `flash_unwritten` | the default options, two page buffers | violated | data beside what is programmed is lost, see below |

*Why these bounds are enough.*  Breakpoints: in `target_run` two addresses in flash
and one in RAM contend for two comparators; what can be
confused is a pair.  `bp_faults` has one address of each kind, which is what a failure, a
reset or a write tells apart, and two comparators, so that one object can be taken
while the other is still to be walked over.  The FPB's revision matters for which addresses it can hold,
which `HighAddr` gives.  Pipeline: the sizes are chosen so that every rule of
`_Command` binds (a block that fits alone and not as single transfers, a packet
split inside an access, both packet slots full); three operations are a transfer
that waits, one that fails and one that comes after.  Caches: four bytes with
spans of one, two and four give every overlap of two intervals (disjoint, adjacent,
inside, at either end) and a gap filled between two; one run of the core makes a
token stale, and what is done after it needs no second.  GDB: a pair of gdbs is
all that the rules about "the last one" and "another one" distinguish.  Debug
port: two fields with two values each, so that every choice of bank can be
wrong, and two threads.  Flash: two sectors, one to be erased and one to be left
alone, of two pages, one that differs and one that does not; four pages also
turn the two buffers round twice; a second failure can meet the retry after the
first.  Core control: a call meets what the one before left behind (sticky bits,
a catch, a mask, nRESET held), and an error in each of them.  Probe server: two threads of one client share its count while another
client waits, and a lock is nested once.  RTT: a ring of two bytes holds one, and
eight bytes go round each ring more than once.  Packets: the first continue's
Ctrl-C can meet the second.  USB: a command that is answered, one whose
answer is late and one after them; and the interface is opened once more after them.

The bounds on counters are guards of the actions that count: `MaxCalls`,
`MaxFaults`, `MaxToken`, `MaxHeld`, `MaxLosses`, `MaxErrors`, `MaxDamage`,
`MaxQueue`, `CtlTokens`, `CtlFaults`, `RttTotal`, `UsbWrites` and `UsbOpens`, and `failures` of a flash job.

*Symmetry* is used in `gdb_sessions` (of the two gdbs) and in `bp_faults` (of the two
instructions that programs are made of); neither has a liveness property.

*Deadlock* is checked in `bp_faults` and `cache_asleep`, whose systems never have
to stop.  Elsewhere the bound on operations ends a behaviour, a commit is done, a
session could not connect, or the server ends, and `CHECK_DEADLOCK FALSE` is set; waiting for ever is then
excluded by `EveryCallReturns`, `EveryCommandAnswered`, `ServerExits`,
`PacketsAnswered`, `WriteReturns` and `CloseReturns`.

*Restrictions of the passing runs*, each lifted by a violation run or named in the
section on disagreements: in `target_run` nothing is reset (`bp_lost_after_reset`), and
clients do not write over a live software breakpoint, which `bp_faults` does; there
`ArmedIsLive` and `Transparent` except what the four histories name; a read is not begun
while the core sleeps (`cache_asleep`); no gdb attaches while the last one leaves
(`gdb_attach_race`); memory is not accessed in sessions with late errors or with a probe that
fails, and `RightBank` speaks of `Sheltered` sessions: without failures of the probe, and with
late errors and timeouts only where threads take turns; the caches' properties except `torn`
addresses and `doubted` registers;
`CommitIsComplete` promises what was there before only for one page buffer
(`flash_unwritten`), for a first try and, after a chip erase with `smart_flash`, where not
all that is asked for in a sector is blank (*Flash* below); `ProbeMatchesClients` speaks of a `tidy`
server, and `AnswersMatch` of an interface at which no answer can come that nobody
waits for (`gaveUp`).

## Fairness

- **Pipeline and debug port**: weak fairness of each thread's next step while it
  is in a call.  A thread in a call is run by the interpreter and the loops
  contain no waiting other than for a packet; the probe answers or the read
  raises.  A deferred read that its caller never collects keeps the lock: the
  code's callers collect at once or at the end of the same method, which is why
  `EveryCallReturns` may assume fairness of collecting.  It also assumes that no
  level of the lock was lost (see below).
- **Target**: weak fairness of `Deliver`; a target that does not answer is the
  error `timeout`.
- **GDB server**: weak fairness of the server thread and of each session's steps,
  and of gdb reading its replies; strong fairness where a step waits for a lock
  or polls (`Locks`, `Interrupted`, the server's use of the list), because a lock
  of `threading` is handed on and each holder gives it up after finitely many
  steps while others may take it in between.  No fairness of gdb sending
  anything, of the core stopping, or of connections being lost.
- **Packets** (`PioFairness`): weak fairness of the packet I/O thread, of the
  session's thread, and of gdb and its user: gdb sends the next command of its
  script and takes what arrives, and whoever has no stop reply presses Ctrl-C
  again once an earlier one has come to nothing.  Without that a continue need not
  end, because a Ctrl-C that arrives before its continue is handled is dropped.
  None of the core stopping by itself.
- **RTT** (`RttFairness`): weak fairness of the host's step, a thread in a loop
  without waiting, and of the target's reading: the code's blocking write has no
  timeout and relies on it.  None of the target writing, or of writes beginning.
- **USB** (`UsbFairness`): weak fairness of calls under way and of the receive
  thread.  None of the probe answering: reads time out, and where they do not the
  property says so.
- **Breakpoints, caches, core control, flash and the probe server** have safety
  properties only.  Nothing waits in the first four, or not without a timeout; in the last a lost client may keep the lock
  for ever, and two threads of one client can starve another.
- In `waits` the fairness of each component is restated for the behaviours it is
  picked in (`WaitsFairness`).

## The proofs

Every theorem holds for all values of the constants that satisfy the module's
named assumptions; TLC evaluates these assumptions on every run.

`BreakpointManager_proofs` (from `BkptAssumption`)
- `TypeCorrect`: `Spec => []TypeOK`.
- `NoOrphan` and `TransparentAlways`: `Spec => []NoOrphanBkpt` and `[]Transparent`, without
  hypotheses: each BKPT in RAM is known to the software provider, and reads through the
  core never show one, whatever fails, is reset or written over, but at addresses
  that are `astray`.  Neither is inductive alone: `filter_memory()` asks the
  provider's entries, the instruction to restore is in the manager's dict, and a flush is
  in the middle of changing both.  The invariant ties each software entry of `live`
  to `sw`, `sw` to the instruction in `image`, and both to `removed` while a flush runs.
- `ArmedIsLiveAlways`: `Spec => []ArmedIsLive`, `live` is where the target stops, through
  all resets and disconnects, as long as none of the four histories has happened
  (`Unspoilt`; `bp_lost_after_reset` shows what `aliased` stands for).  The invariant
  `ExactInv` says in each loop of the
  manager which comparator and which planted BKPT belongs to which entry: every
  comparator that is on is that of exactly one entry (`HwFits`), every entry of
  `sw` that of one (`SwFits`), the dicts have a key once (`DictsFit`), and the
  lists that a flush walks are disjoint parts of `live` and `updated`
  (`ListsFit`, `PlacesFit`).
- `NothingLostAlways` and `ImplementsService`, when no access fails, nothing is reset or
  written over, and disconnecting does not resume: a flush with a comparator for
  each breakpoint drops none, and `Spec => ServiceSpec`, the refinement of
  `BreakpointService`, one lemma for each action.
  `NothingLostAlways` also needs an FPB that reaches the addresses outside
  RAM, without which there is no comparator to have.
- `UsedInRangeAlways`, when comparator accesses do not fail, resets included, and
  `CountNearRangeAlways` with any failures: the count of comparators is never above
  the unit's size, and below zero at most by the number of failures.  The
  invariant `CountInv` bounds by `faults` how much the count lags behind the
  cardinality of the comparators that are on.  That lag is real: three
  failing accesses with two comparators take the count to -1.

`DapPipeline_proofs` (from `PipelineAssumption`; any number of threads, packets in
flight, packet sizes, and mixes of reads and writes of any length)
- `PacketsAlwaysFit`, `AccessesInOrder`: `Spec => []PacketsFit`, `Spec =>
  []InOrder`, whatever fails.  `PipelineInv` has three parts.  `ControlInv`: a
  thread is in a locked method exactly when it holds the lock (`LockFits`, which
  `LockIsRightful` states by itself), comes back from a flush to where the flush was
  called (`AfterFits`), and fills packets with the access issued last
  (`LastFits`).  `PacketInv`: a packet counts its words, a block has one direction,
  and everything fits.  `OrderInv`: what was executed and what is in the packet
  being filled are each ascending, the one before the other, and none is beyond
  what the thread that fills has handed over.  The arithmetic of `_Command`'s
  free space is the lemma `SpaceFits`.
- `FlushAlwaysCompletes`: `Spec => []FlushCompletes`, after a flush that met no
  fault every word of every call was performed.  `FlushInv` says, as long as
  nothing has failed, that the replies in the probe are those of the packets in
  flight and decode (`Matched`), that each word is performed, packed or still
  awaited by the thread that fills (`NoneLost`), and that a thread on its way out
  of a flush leaves no packet (`Settled`).
- `WordsAreCovered`: `Spec => []Covered`.  Until the first USB fault the words that
  the waiting reads lack are, in order, those in the response buffer, in the packets in
  flight, in the current packet and in what `_write()` has still to add.  The inductive
  invariant is `CoverInv`: `Settled`, and `WordsInv`, whose main part is that equation
  (`Balanced`).  Besides, the waiting transfers are reads in the order of issue
  (`Listed`); a packet's read count is the number of words it will be answered with
  (`Sized`); a packet in flight has its reply in the probe, with all its words unless the
  target has failed (`Answering`); and what is left in the buffer completes no transfer
  (`Unfinished`), so that nothing is read for a transfer already served.
  The words are sums over lists of transfers, packets and entries of packets.  That
  `FlattenSeq` of two lists is that of the one followed by that of the other
  (`FlattenConcat`) cannot be taken from the library, whose theorem needs an operator as a
  parameter; it is proved from the definition by the least counterexample
  (`FlattenUnfolds`, `FlattenAppend`).  The rest is cutting sequences (`CutFront`,
  `CutMiddle`).
- `PipelineImplementsService`: `Spec /\ []ClosedInOrder => ServiceSpec`, the refinement of
  `TransferService`.  Every step issues an operation, answers a prefix of the waiting
  reads (with their own words, until the first USB fault), gives all of them up, or is
  none of the service's business (`StepsSorted`).
  `ClosedInOrder` says that `close()` is not called after a USB fault.  It is needed: the
  reply to a packet that a fault cut off stays in the probe and can answer a later packet
  that asks for as many transfers, but with fewer words; a read then still waits when the flush
  of `close()` has ended, and `open()` empties the list of transfers without answering it.
  In `pipe_run` no session has both, so that TLC checks the refinement as it is proved.

`Target_proofs`, first part: the debug port (from `DebugPortAssumption`)
- `TypeCorrect`, which includes that the depth of the lock is never negative.
- `LockIsBalanced`: whoever is idle holds no level but the lost ones, and levels
  are lost only with deferred transfers, protocol errors or failures of the probe.
- `BankIsSelected`: `Spec => []RightBank`, each access finds its bank in a `Sheltered`
  session.  The inductive
  invariant has two parts.  `Kept` says who owns the lock and how deep in each
  place of a call, and what the thread's program and choice are there.  `Meant`
  relates the queue to the cache: reading the queue front to back, starting from
  the target's SELECT, every access finds its bank, and after the last request
  the SELECT is the cached one if that is known; and a thread that has chosen
  its bank still finds it there.  `Meant` holds in the `Sheltered` sessions only,
  which is why the property has that premise: after a lost reply of the probe the cached
  SELECT may be another than the target's.

`Target_proofs`, second part: memory accesses (from `MemApAssumption` as well)
- `MemAccessesAreAccesses`: `MemSpec => Spec`, each memory transfer is a
  sequence of register accesses of the DebugPort.  Every step of MemAp is, on the
  DebugPort's variables, one of its steps; CSW and TAR change beside them.
- `MemBankIsSelected`, `MemLockIsBalanced`: carried over through it.
- `TransfersAreAsMeant`: `MemSpec => []AsMeant`, for any MEM-APs, page size,
  addresses and lengths, in sessions that are `Prompt`: an error comes with the
  call whose access failed and is one of the target, and a write of CSW or TAR does not
  fail, as in the instance that `mem_run` checks.  `AsMeant` looks only at the request being
  executed; `MemInv` follows the values on their way there.  `Finds` says what a
  register will hold when a given request of the queue is executed.  `QueueFits`: every
  queued transfer will find its size and address; `ProgramsFit`: so will those not yet
  issued, either because the register is right at the end of the queue or because the
  program writes it first; `CacheFits`: a remembered CSW is what CSW will
  be, or a thread is about to write it.  One thread at a time is in the middle of a transfer
  because it owns the lock (`TransferOwns`, from `Kept` of the DebugPort), and
  the AP that is selected is the right one by `MemBankIsSelected`.  That no part
  of a block leaves its page (`PagesFit`) and TAR does not wrap inside a part
  (`TouchedInPage`) is arithmetic of division and remainder.

`Servers_proofs`, first part: the GDB server (from `ServerAssumption`; any number of gdbs)
- `GdbTypeCorrect`: the types, and where the session that holds a lock is.
- `ReleasedAtEndAlways`: `Spec => []ReleasedAtEnd`, also when gdbs attach while
  others leave and when the server is stopped.  `EndInv` says who is
  still to release the core: while it is halted, some session has yet to
  count itself out or is about to start.
- `AllStoppedIsHaltedAlways`, without `Overlap`, the case that `gdb_attach_race`
  shows to break it.  `HaltInv`: a core that runs while a gdb is attached, or
  about to be, runs for a session that waits for it, and a session that is about to
  release the core is alone; `OverlapInv`: none arrives while another leaves.

`FlashBuilder_proofs` (from `FlashAssumption`, the shape of a job: any region, sectors, requests
and options, any number of failing calls)
- `CommitIsCompleteAlways`: `FlashSpec => []CommitIsComplete`.  The property speaks of the end
  of a commit; `CommitInv` says what each phase before it has established, page by page.  The list
  has the pages asked for and, to keep what is there, the rest of their sectors (`Lined`), each
  with its data (`Padding`).  Before the comparison all that was asked for is unknown
  (`Uncompared`); after it what is `same` is so in a sector that will not be erased, but for a
  trusted CRC (`SameIsClean`: this is what the scan is for).  While sectors are erased, those
  before `next` are erased, those after it differ, and the clean ones have their data (`Erasing`);
  then every page has its data or is erased (`SectorsErased`); while pages are programmed, those
  before `next` have their data and those after it are erased (`Programming`), and what is left
  out has its data already (`Settled`).  A failure leaves all of this and keeps only `Untouched`, from
  which the next try starts.  The proof found that exception of the property: `Settled` fails without
  it.  That `same` pages are skipped in order, and that each page and sector comes once, rests on
  lemmas about `Ascending` and `Nonsame` (`AscendingLists`, `ListsJoin`, `NonsameLists`), which
  are therefore stated with the rank of an element and not with a sort.
- `FlashImplementsService`: `FlashSpec => FlashServiceSpec`, from the same invariant: every erase
  is of a sector in which something is asked for and, if it is to be left alone when it has that,
  does not; every programmed page is erased at that moment and gets what was asked for.
- `FlashTypeCorrect`: the types.
- `ProgrammedFromRightBuffer`: `FlashSpec => []RightBuffer`, a ProgramPage call under
  way reads the data of its page from its buffer, whatever fails and is tried
  again.  That is not inductive: the call was started from a buffer that had been
  loaded a turn earlier.  `BuffersInUse` says that nothing is loaded before
  programming begins and no call is under way outside it; `BuffersInStep` says what
  the two buffers hold, by how far loading is ahead of programming, before and
  while a call is under way.  The two theorems above rest on it.
- `CallsAreInitedAlways`: `FlashSpec => CallsAreInited`, whenever the flash changes the algorithm
  is inited for that operation, unless an UnInit failed.  The invariant is the converse of
  what one would expect: an active operation is inited (`ActiveIsInited`), but an
  inited algorithm need not be active, since an Init that raised may have run.

`Servers_proofs`, second part: the probe server (from `RemoteAssumption`)
- `RemoteTypeCorrect`: in particular a count of locks is never negative, which
  needs all of the invariant below.
- `RemoteLockIsExclusive`: `Spec => []LockIsExclusive` for any number of clients,
  threads and nested locks, and with lost clients.  The invariant `RpInv` says that
  a client's count is the number of locks its threads have (`CountFits`, as the
  cardinality of the set of pairs of thread and lock), that whoever counts or
  requests is in a method of that client (`HoldersFit`, `MethodsFit`), that an idle
  connection is empty (`ConnectionFits`), and that the handler owns the server's
  lock from its answer to the first `lock()` to its answer to the last `unlock()`
  (`OwnerFits`).
- `ProbeMatchesClientsAlways`: `Spec => []ProbeMatchesClients`.  In a tidy server
  the two counts are the cardinalities of the sets of clients that have the probe
  open and connected, but for the one handler inside the proxy (`OneInside`),
  whose request has reached the probe or not (`ProbeFits`), and the clients that were
  lost; and a client calls only what its stage allows (`StagesFit`).

`Links_proofs`, first part: packets (from `PacketAssumption`; any script, any number
of damaged packets)
- `InStepAlways`: `PioSpec => []InStep`.  The property compares numbers; what keeps them equal
  is where the one packet is.  `Exchange` says that the command gdb is at goes
  through six phases, between two commands (`Idle`), on its way (`Asking`), found damaged
  (`Refused`), with the session (`Working`), its reply on its way (`Answering`) and found
  damaged (`Complaining`), and what there is, in each of them, in the stream to the server
  besides acks and Ctrl-C: nothing, one packet, or one nack.  The buffer and the socket count as
  one stream, so a read, wherever it splits a packet, changes nothing, and an ack or
  Ctrl-C that is taken, missed or dropped with a packet does not either.  That
  `_process_data()` finds that packet, and leaves nothing but acks behind it, is
  `FoundPacket`.
- `PacketTypeCorrect`: the types; `lastPacket` is a packet of the script because it is at
  most the command gdb is at.

`Links_proofs`, second part: the USB interface (from `UsbAssumption`; any number of commands and
of opens)
- `AnswersMatchAlways`: `UsbSpec => []AnswersMatch`.  `Awaited`: while no answer can come that
  nobody waits for (a command was given up while the thread goes on, a write raised after it
  delivered, or the probe was still at work when the interface was opened) and the receive thread
  lives, or what it read waits to be taken, the commands to be read are, in order, those in the thread's queue, those the probe
  has sent and those it has yet to answer.  `Phases` says which of these can be left over when
  the interface is closed or opened.
- `UsbTypeCorrect`: the types.  The bound of the credits is `CreditsFit`: one for each
  command, and one for each close, which wakes the thread.

`Links_proofs`, third part: RTT (from `RttAssumption`; any sizes of rings from two bytes on, any
number of bytes)
- `RttIsQueueAlways`: `RttSpec => RttIsQueue`, a channel in either direction implements
  `ByteQueue`.  What lies between the offsets is described without remainders (`Cell`,
  `Ahead`, `QueuedIsBetween`).  The invariant `RttInv` says that the bytes between the offsets
  are those sent and not yet received (`Counted`); that the host, in the middle of `read()`, has
  copied what lies between the read offset and its copy of the write offset, which is
  not beyond the target's (`ReadOk`); and that in the middle of `write()` there is room,
  seen from its copy of the read offset, for what it has stored, in which the next bytes stand
  in order (`WriteOk`).  That what is stored at the top and at the bottom never meets a
  byte not yet read is `StoreAdds`, from `OtherCells`.  Only the announcement, the end of a
  `read()` and the steps of the target are steps of the queue.
- `RttTypeCorrect`: the types.

`CoreControl_proofs` (from `CtlAssumption`; any number of calls and of accesses
that fail or are lost)
- `ControlsRestoredAlways`, `StopsAsAskedAlways`: reset catch and interrupt mask
  are given back, and what is to stop the core has stopped it where it should.
  Neither is inductive: both speak of the end of a call, and what makes them true is what
  the rest of `todo` is going to do.  `ShapeInv` says of each call which sequences
  of steps can be left (`Shaped`), and of a catch that is set that the step which
  clears it is still to come (`CatchInv`).  `ResetHaltInv`, `ConnectInv` and
  `StepInv` say, for the calls that stop a core, what each remaining sequence
  means for the core: before the reset, between it and the halt, after the check.
- `TokenTellsAlways`: `CtlSpec => []TokenTells`, for any number of calls and of
  accesses that fail.  The property speaks of a core at rest; in the middle of a
  call the core may be halted, known to a cache and about to run.  `TokenInv` says:
  while a cache knows the run token, the core is halted, has not run since, and in
  what is left of the call no step that could make it run comes before the one that
  changes the token (`Guarded`).  Each step either only takes from the front of
  `todo`, or puts steps there that are guarded themselves.
- `CtlTypeCorrect`: the types.  The bound of the token is not one of a step but of a call:
  a reset that resumes and is emulated changes it twice, and no other step that changes it is left
  after the first (`SpendShape`).

`CachedContext_proofs` (from `RegionsAssumption`, `RegisterAssumption`, `ContextAssumption` and
`AliasAssumption`; any memory map, registers, spans, runs and failures)
- `ContextTypeCorrect`: `Spec => []TypeOK`, with every failure and also when accesses are begun
  while the core sleeps.
- `CoherentAlways`, `ReadsAreCurrentAlways`: `Spec => []Coherent` and `[]ReadsAreCurrent`, with
  every failure, when no access is begun while the core sleeps (`cache_asleep` shows
  why).  The inductive invariant `CacheInv` has
  three parts.  `Typed`: the tree is a set of disjoint intervals, each with as many bytes as it
  is long, and in cacheable memory; cached registers have values of their kind (`Tree`, `Placed`,
  `Kept`).  `Same`, as long as the token is the cache's: what is cached is what the target has,
  but for torn addresses and doubted registers.
  `Current`: only a core that has stayed halted since the check leaves the cache its token; a call that
  was checked while the core ran, and goes past the caches, finds another; and a call under
  way finds the caches empty when their token is old, so that what it adds is all there is.
- What it rests on are lemmas about the operators.  Of intervals: the list in ascending order has
  each once (`AscendingLists`); cutting the cached ones out of a range leaves just what is not
  cached, in ranges that touch none of them (`UncachedParts`); what covers a range after the
  fetch is a chain without gaps, and its bytes put together are the bytes of the range
  (`CoverIsChain`, `MergedText`, `ReadIsCurrent`); reads and writes leave a tree that is one
  (`ReadKeepsTree`, `WrittenKeepsTree`).  Of registers: the writes of a list, with parts of XPSR
  and bytes of a CFBP merged and moved to the end, leave in each field what the list asked for
  (`DcrsrWritesShape`, `WrittenFields`), and what is kept in the cache was not touched by them
  (`WriteKeepsRegisters`).
- `AliasAssumption` says of the core, not of the code, which registers may show the same state: one
  that is read shares no field with one that is written, unless both are parts of XPSR, both stack
  pointers, the written one is a CFBP and the other belongs to one, both are bytes of one, or the
  cache overlooks it (`Overlooked`).  That the code drops every other alias is proved from it
  (`AliasesAreDropped`); a read of what it overlooks is among the exceptions of the two
  properties until it is read or written anew.  TLC evaluates the assumption for the registers of
  `cache_run`, with CFBP and a D register.

*Only model-checked*:

- All liveness (`EveryCallReturns`, `EveryCommandAnswered`, `InterruptStops`,
  `ServerExits`, `PacketsAnswered`, `WriteReturns`, `CloseReturns`): fairness and
  ENABLED are beyond the prover.
- Of what a passing run checks, nothing else.  Where an induction over data would be needed, an argument by
  the least counterexample does instead: in the pipeline for the words of lists of packets
  (`FlattenUnfolds`), in the caches for lists that are cut, merged and looked up, which are
  described by ranks and by the last place in a list (`LeastNumber`).

## Where the code and its words disagree

Five disagreements have a run (`expect: violation`), and `PROJECT.json` quotes
the lines:

1. `bp_lost_after_reset`: `flush()` after `reset_and_halt()` walks comparator
   objects that its own `set_breakpoint()` calls overwrite.
2. `pipe_aborted`: `get_result()` never looks at the error an aborted transfer
   carries, reads the packets of others and fails its assertion.
3. `cache_asleep`: a sleeping core counts as stopped; what is cached then
   survives its waking up.
4. `gdb_attach_race`: a gdb that is being connected does not count as attached
   and the core is resumed under it.
5. `flash_unwritten`: when the estimate has decided every page,
   `_finalize_smart_flash()` does not scan, and the pages that were filled in to
   keep a sector's data stay `same`.  The sector is erased, and programming with
   two page buffers skips them.

Others were met while modelling or proving, and have no run of their own:

- *Breakpoints.*  What `bp_lost_after_reset` shows also leaves comparators armed that
  no breakpoint in `live` stands for: `ArmedIsLive` is false after a reset with two
  comparators.  The count of hardware breakpoints is changed beside the
  comparator's register, so each error between the two leaves one comparator more
  or less on than is counted; after three of them it can be -1 (`UsedInRange`).  A breakpoint that `set_breakpoint()` accepted can be dropped by
  the flush when a RAM breakpoint of type AUTO takes the comparator first
  (`manager.py:142` against 119-120; `AcceptedIsSet`).  A disconnect that resumes
  flushes, and so arms again what it has removed (`cortex_m.py:424` against
  docs/options.md:389, "In all cases, breakpoints and watchpoints are removed prior to disconnect").  `set_breakpoint()` of the software provider
  stores its entry only after it wrote the BKPT and invalidated the instruction cache
  (`software.py:75-85`): an error in between leaves a BKPT that nobody knows, and code
  that reads as BKPT.  A removal that fails leaves the provider's entry, which the manager has
  forgotten, and hides what is written there later (`software.py:101`).  A write over a live software breakpoint is undone when
  that is removed (`cortex_m.py:598`).  A reset without halt sends no
  notification the FPB's owner listens to.
- *Pipeline.*  `set_deferred_transfer()` flushes and then sets its flag without
  the lock, so the mode is changed in the session of one thread only.  After a USB write
  that raises the replies of what was delivered stay in the probe.  After
  `close()` a thread that waited for the lock finds a command without room and
  loops (`dap_access_cmsis_dap.py:824`).
- *Caches.*  Writing PRIMASK leaves a cached CFBP (`register.py:193` against the comment at
  31), and D registers are cached beside the S registers they consist of (both
  `Overlooked`); a write that raises TransferError, which the code does not catch, leaves the new
  value of a register (`register.py:208`; `doubted`), a block write cut short
  leaves old bytes (`memory.py:280`; `torn`).  Writing CONTROL.SPSEL leaves `sp`, and a reset of one
  core lets others run without a new token; neither is in the model.
- *GDB server.*  `fault_retry_timeout.start()` at `gdbserver.py:887` restarts the
  timer at each error, so it never expires (docs/options.md:623 promises an
  error).  A connection closed during a continue is not noticed.  `disconnect` of
  an extended-remote gdb ends the server (docs/gdbserver.md:50 says it keeps
  running).  `get_state()` at line 598 is outside the try, so its error skips the
  decision to shut down.  A step that a Ctrl-C or a timeout cuts may leave the core running
  (`cortex_m.py:761`), and the session goes on as if it were halted.  A Ctrl-C that crosses a stop reply ends the next
  continue.  A stop for a semihosting request is reported to another gdb.  The
  packet layer notes that it expects an acknowledgement only after it wrote
  (`packet_io.py:184`).
- *Debug port.*  An error of an earlier deferred access that surfaces in the
  write of SELECT leaks a level of the probe's lock (`dap.py:877`; `lost` in the
  model counts it).  A `ProbeError` is no `TargetError`, and nothing handles it
  (`dap.py:915`): after a lost reply to the write of SELECT the cached value may not be the
  target's, and an undeferred access loses a level as well.  A timeout drops a queued write of SELECT and keeps the cached
  value; another thread's `flush()`, which takes no lock, can do the same; between
  a reset and its notification another thread may use the old value.  With late
  errors the cached CSW can be one that was never written: `MEM_AP.write_reg()`
  remembers it first and catches only `ProbeError`, which a transfer error is
  not (`ap.py:1050`), and some CSW and TAR writes are outside the try blocks
  (`ap.py:1097`, 1220, 1247).
- *Core control.*  Reset type CORE, the default of secondary cores, writes
  VECTRESET: on a core that has none the bit is ignored and nothing is reset,
  because only VECTRESET itself falls back to the emulated reset
  (`cortex_m.py:902` against its docstring at 1041-1043), and `reset_and_halt()` then
  returns with the core halted where it was.  The same after an error of the write
  of AIRCR, which is ignored (`didReset` in `StopsAsAsked`).  Connecting under
  reset clears the reset catch right after it released nRESET, without waiting for
  the core to leave reset (`coresight_target.py:260-267`), so the core may run
  (outcome `uncaught`), although docs/options.md:105 says that reset is deasserted
  "after the cores are halted".  A `step()` that a callback or the timeout ended
  leaves the core running when the mask did not differ, and otherwise writes
  C_MASKINTS while C_HALT is 0 (`cortex_m.py:761` against the comment at 720).  An
  exception in `reset_and_halt()` leaves VC_CORERESET set, and `get_vector_catch()`
  then adopts it (`unsure`).  Enabling debug writes back what was read, so a core
  that halts in between runs on (`cortex_m.py:396`, "preserving any current debug
  state").  docs/options.md:370 calls `reset.core_recover.timeout` the timeout
  of waiting for a halt, which is `reset.halt_timeout`; the default of
  `reset.dap_recover.timeout` there (5.0) is not that of `options.py:131` (2.0).
- *Flash.*  The docstring of `FlashLoader.commit()` says that only the first
  region uses a chip erase (`loader.py:281-284`), and the code passes
  `chip_erase` to every builder.  An UnInit that fails leaves
  `_active_operation` set (`uninitFailed`).
  After a chip erase `program()` compares the pages asked for with the erased flash
  (`builder.py:527`).  If all of a sector's are blank they are the same, and so, from
  before the erase, are the pages that were filled in (408); the sector is not programmed
  and what it had is lost, with one page buffer as well, although 470-473 promises to
  restore it.  `CommitIsComplete` excepts this case (`AllBlank`); without the exception
  `target_run` finds it.
- *Remote probe.*  `lock()` of a client counts per process: a second thread of
  the client returns from it while the first is inside
  (`tcp_client_probe.py:240` against `debug_probe.py:284-290`).  A failed `open()`
  followed by `close()` makes `_open_count` -1, and later clients never open the
  probe.  Two handlers may both find a count of 0.  A client that is lost keeps the
  lock and its counts.  docs/remote_probe_protocol.md says later connects are
  ignored; one for another protocol is an error.
- *Packets.*  A damaged stop reply that crosses a Ctrl-C is never sent again
  (`NackMissed`): the expected ack is given up, and the `-` then stays at the head
  of the buffer, where it also hides a later Ctrl-C.  A Ctrl-C that arrives before
  its continue is handled is dropped (`gdbserver.py:165-173`); one that arrives
  while the session waits for a command ends the next continue at once.
- *RTT.*  `bytes_available` uses `self.target`, an attribute that does not exist
  (`rtt.py:206`); `bytes_free` of an empty ring is one more than fits
  (`rtt.py:319`); a blocking write to a channel the target has not prepared
  returns without sending.
- *USB.*  `close()` of both pyusb back ends leaves the semaphore as it is, against
  hidapi's (`hidapi_backend.py:365-368`): with a credit left over, the receive
  thread reads without a command after the next open, and dies after 10 s.  A HID
  read has no timeout, so `close()` hangs if the probe never answers; a HID
  `read()` that gives up leaves its answer for the next command, and so does a write that
  raises after it delivered the packet, because the zero-length packet after it timed out
  (`pyusb_v2_backend.py:226-233`), and a probe that answers after the interface was closed
  and opened again (all `gaveUp`).

## What is not modelled

`PROJECT.json` gives the reason for each component.  In short: descriptions of
targets and packs are data, most of the repository's lines, and have no state
that changes in an order of its own; parsers (ELF, SVD, trace, packs, debug
sequences) have no control worth a state machine; the command line is a caller.
The SDC-600 link depends on what the target answers to link flags, of which the
repository has neither a peer nor tests, and a model of it would be invented.

Within the modelled components: runs of other cores after the disconnect, which flush
once more, and delegates that set a reset catch of their own (breakpoints); a CONTROL write that
changes which stack pointer is shown (caches); non-stop mode and the data of commands (GDB
server); replies dropped for a system call of semihosting (packets); connecting
and powering up, SWJ and JTAG error recovery, probes that manage SELECT (debug
port); accelerated memory interfaces, wide transfers and secure attributes
(MEM-AP); the first open and DAP_Info (pipeline); delegates and debug sequences that
replace steps of a reset, the states lockup and sleeping, the polling of DCRSR and
watchpoints (core control); the metrics of the
caches; the choice between chip and sector erase by estimated time, sectors of
different sizes and commits over several regions (flash); the other requests and
malformed messages (remote probe); the search for the control block, a reset of
the target inside an access, and the workers that pump bytes (RTT); the SWO thread,
hidapi on Windows and pywinusb (USB); the race in `utility/server.py:125-145`,
where `write()` tests the connected socket and uses it while the server thread
may close it.

Assumptions of the models about what surrounds them: packets are executed in
order and each reply is either read or raises; a USB write that raises did or did
not deliver its packet; one instruction is one memory cell and clients use
instruction addresses; clients of a caching context let the core run only when
their own access is over; no thread uses a bank between a hardware reset and
the notification after it (`ResetDone`); gdb, the target's side of RTT and the
flash algorithm keep to their protocols; a stream may damage packets but loses
nothing; a core halts and resumes at once, has begun its reset when the post-reset
delay is over, and DEMCR outlives the reset; a `read()` of a pyusb back end times out only after the receive thread
has, which started earlier with the same 10 s.

## Plan

The order was that of importance.  What everything else rests on (the probe's
transfers, the debug port, memory accesses), what users see go wrong
(breakpoints, caches, gdb sessions), and what moves data or waits (flash, the
probe server, RTT, packets, USB) are done.  What would come next:

| Step | Module | What | Why |
|---|---|---|---|
| 1 | `CoreControl` | delegates and debug sequences that replace steps of a reset | packs override them |
| 2 | `StreamServer` | `utility/server.py` | the race named above |
