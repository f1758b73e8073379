------------------------------- MODULE MCScan -------------------------------
\* Small instances of ClientScan for TLC.
EXTENDS ClientScan

CONSTANTS c1, c2, s1, s2

TwoCallers == {c1, c2}
TwoStations == {s1, s2}
=============================================================================
