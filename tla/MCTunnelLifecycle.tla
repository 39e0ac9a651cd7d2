-------------------------- MODULE MCTunnelLifecycle --------------------------
(* Small instances of TunnelLifecycle for TLC.                                 *)
EXTENDS TunnelLifecycle

Usb == [variant |-> "usb", reuse |-> FALSE, refreshes |-> FALSE, retries |-> 0]
Tv == [Usb EXCEPT !.variant = "appletv"]

\* Each script with fresh addresses, the Apple TV script with recycled ones, and
\* that with refreshes and two retries.
AllSetups ==
    {Usb, Tv, [Tv EXCEPT !.reuse = TRUE],
     [Tv EXCEPT !.reuse = TRUE, !.refreshes = TRUE, !.retries = 2]}
UsbSetups == {Usb}
=============================================================================
