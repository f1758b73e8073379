------------------------------ MODULE MCClient ------------------------------
\* A small instance of WpaCtrlClient for TLC.
EXTENDS WpaCtrlClient

AllTransports == {"unix", "android", "udp", "pipe"}
\* The name of the interface is longer than the cookie, and so is cut.
Sizes == [t \in Texts |-> IF t = "ifname" THEN 2 ELSE 1]
=============================================================================
