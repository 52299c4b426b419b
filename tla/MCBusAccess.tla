---------------------------- MODULE MCBusAccess ----------------------------
(***************************************************************************)
(* BusAccess with one protected and one contended address, a port whose    *)
(* device heeds the upper byte (254, a keyboard) and one whose device does *)
(* not (31, a joystick), tables of two sizes, and steps of two accesses.   *)
(***************************************************************************)
EXTENDS BusAccess

MCSizes == {0, 2, 3}
MCAddresses == {0, 16384}
MCROM == {0}
MCPages == {127, 191}
MCPorts == {31, 254}
MCLowByteOnly == {31}
MCBytes == {0, 1}
MCImages == {[a \in MCAddresses |-> 0]}
MCMasks == {0, 16}
MCMasked == {"fetch"}
MCDelays == {0, 1}
MCIdles == {2}
MCHosts == {{"tables"}, {"fast"}}
=============================================================================
