------------------------------- MODULE SerialPipe -------------------------------
(***************************************************************************)
(* What the serial port promises the host and the process that uses it:   *)
(* in each direction a place for one packet, filled with the packet after *)
(* the one that was last taken out, and never filled again before that.   *)
(* A packet is lost only in a step that changes the link, as a bus reset  *)
(* and a new configuration do.                                             *)
(***************************************************************************)
EXTENDS Integers

CONSTANT Numbers

VARIABLES
  link,
  to_device, to_host,     \* the place of each direction: a set of at most one
  device_got, host_got    \* the packet last taken out of it

After(n) == IF n = Numbers - 1 THEN 0 ELSE n + 1

Init ==
  /\ to_device = {} /\ to_host = {}
  /\ device_got = 0 /\ host_got = 0

HostPuts ==
  /\ to_device = {} /\ to_device' = {After(device_got)}
  /\ UNCHANGED <<link, to_host, device_got, host_got>>

DeviceGets ==
  /\ to_device # {} /\ to_device' = {}
  /\ device_got' \in to_device
  /\ UNCHANGED <<link, to_host, host_got>>

DevicePuts ==
  /\ to_host = {} /\ to_host' = {After(host_got)}
  /\ UNCHANGED <<link, to_device, device_got, host_got>>

HostGets ==
  /\ to_host # {} /\ to_host' = {}
  /\ host_got' \in to_host
  /\ UNCHANGED <<link, to_device, device_got>>

(* The numbering of what is sent goes on from anywhere. *)
LinkChanges ==
  /\ link' # link
  /\ to_device' \subseteq to_device /\ to_host' \subseteq to_host
  /\ device_got' \in 0 .. Numbers - 1 /\ host_got' \in 0 .. Numbers - 1

Next == HostPuts \/ DeviceGets \/ DevicePuts \/ HostGets \/ LinkChanges

Spec == Init /\ [][Next]_<<link, to_device, to_host, device_got, host_got>>
=============================================================================
