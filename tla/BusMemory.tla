----------------------------- MODULE BusMemory -----------------------------
(***************************************************************************)
(* What the fast paths of the bus promise: the processor reads a memory,   *)
(* with some of it write-protected, and ports, as if there were nothing in *)
(* between.  A port has a page, its upper byte, which a device may heed.   *)
(***************************************************************************)
CONSTANTS Addresses, ROM, Pages, Ports, Bytes

VARIABLES
  memory, device, \* the bytes at all addresses, and what the ports would answer
  got             \* where the processor just read a byte and which, or <<>>

Devices == [Pages -> [Ports -> Bytes]]

Init ==
  /\ memory \in [Addresses -> Bytes] /\ device \in Devices
  /\ got = <<>>

Read(a) == got' = <<a, memory[a]>> /\ UNCHANGED <<memory, device>>

Write(a, v) ==
  /\ memory' = IF a \in ROM THEN memory ELSE [memory EXCEPT ![a] = v]
  /\ got' = <<>> /\ UNCHANGED device

Input(page, p) == got' = <<page, p, device[page][p]>> /\ UNCHANGED <<memory, device>>

\* The host pages memory, or a device has something else to say, or neither.
Change ==
  /\ memory' \in [Addresses -> Bytes] /\ device' \in Devices
  /\ got' = <<>>

Next ==
  \/ \E a \in Addresses : Read(a) \/ \E v \in Bytes : Write(a, v)
  \/ \E page \in Pages, p \in Ports : Input(page, p)
  \/ Change

Spec == Init /\ [][Next]_<<memory, device, got>>
=============================================================================
