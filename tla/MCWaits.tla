-------------------------------- MODULE MCWaits --------------------------------
(* Four components for TLC, one in each behaviour, whose threads wait for  *)
(* each other or for something outside: the GDB server with two gdbs, the  *)
(* packets of one gdb, an RTT channel and a USB interface.  They share no  *)
(* state.                                                                  *)
EXTENDS MCGdb, PacketIo, RttChannel, UsbBackend

VARIABLE part

(* A command between continues, two continues of which the second may meet *)
(* the first one's Ctrl-C, and acks that are turned off.                   *)
AllScripts == {<<"read", "continue", "continue">>, <<"noack", "continue", "read">>}

WaitsInit ==
  /\ part \in {"gdb", "packets", "rtt", "usb"}
  /\ Init /\ (part # "gdb" => core = "halted")
  /\ PioInit /\ (part # "packets" => script = CHOOSE s \in Scripts : TRUE)
  /\ RttInit /\ (part # "rtt" => side = "up")
  /\ UsbInit /\ (part # "usb" => backend = CHOOSE b \in Backends : TRUE)

(* One of the two gdbs may ask for extended mode.                          *)
ExtendedGdb == CHOOSE c \in Client : TRUE

GdbRuns     == /\ part = "gdb" /\ Next /\ UNCHANGED <<part, pioVars, rttVars, usbVars>>
               /\ \A c \in Client \ {ExtendedGdb} : cmd'[c] # "!"
PacketsRun  == part = "packets" /\ PioNext /\ UNCHANGED <<part, vars, rttVars, usbVars>>
ChannelRuns == part = "rtt" /\ RttNext /\ UNCHANGED <<part, vars, pioVars, usbVars>>
UsbRuns     == part = "usb" /\ UsbNext /\ UNCHANGED <<part, vars, pioVars, rttVars>>

WaitsNext == GdbRuns \/ PacketsRun \/ ChannelRuns \/ UsbRuns

(* Fairness, PioFairness, RttFairness and UsbFairness, each of the         *)
(* component that runs.                                                    *)
WaitsFairness ==
  /\ WF_vars(part = "gdb" /\ ServerStep)
  /\ SF_vars(part = "gdb" /\ (AppendSession \/ DropClient \/ Snapshot \/ Joined))
  /\ \A c \in Client :
       /\ WF_vars(part = "gdb" /\ Runs(c)) /\ WF_vars(part = "gdb" /\ Deliver(c))
       /\ SF_vars(part = "gdb" /\ Locks(c)) /\ SF_vars(part = "gdb" /\ Interrupted(c))
  /\ WF_pioVars(part = "packets" /\ GdbStep) /\ WF_pioVars(part = "packets" /\ SendCtrlC)
  /\ WF_pioVars(part = "packets" /\ IoStep) /\ WF_pioVars(part = "packets" /\ SesStep)
  /\ WF_rttVars(part = "rtt" /\ RttStep) /\ WF_rttVars(part = "rtt" /\ TargetTakes)
  /\ WF_usbVars(part = "usb" /\ UsbCall) /\ WF_usbVars(part = "usb" /\ RxStep)

WaitsSpec ==
  WaitsInit /\ [][WaitsNext]_<<part, vars, pioVars, rttVars, usbVars>> /\ WaitsFairness
=============================================================================
