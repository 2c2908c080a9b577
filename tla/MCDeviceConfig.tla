--------------------------- MODULE MCDeviceConfig ----------------------------
(* The instances of DeviceConfig that TLC checks. *)
EXTENDS DeviceConfig

AlertAt90 == [r \in Resource |-> 90]

\* The thresholds at the edges, 50 and 89, and left out; 346 is 90 in a byte.  A
\* period beyond what Word holds, and none; a temperature below zero, none, and
\* half a one.
Ask(cpu, mem, disk, temp, period) ==
  [cpu |-> cpu, mem |-> mem, disk |-> disk, temp |-> temp, period |-> period]

SomeOrders == {Ask(89, 346, 50, -5, 7), Ask(Absent, Absent, Absent, Absent, Absent),
               Ask(49, 50, 89, Half, 2)}
OneOrder   == {Ask(89, 50, 90, 5, 2)}
=============================================================================
