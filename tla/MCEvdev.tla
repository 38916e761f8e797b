------------------------------- MODULE MCEvdev -------------------------------
(* The instances of Evdev that TLC checks.                                   *)
EXTENDS Evdev

NoNames == {}
NothingFails == {}
\* What does not keep a device from being grabbed for good.
PassingFaults == {"list", "open", "caps", "read"}
=============================================================================
