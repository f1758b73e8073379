----------------------------- MODULE MCRequest -----------------------------
\* Small instances of WpaCtrlRequest for TLC.
EXTENDS WpaCtrlRequest

CONSTANTS c1, c2

TwoCallers == {c1, c2}
=============================================================================
