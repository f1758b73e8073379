------------------------------ MODULE MCOpen ------------------------------
\* Small instances of WpaCtrlOpen for TLC.
EXTENDS WpaCtrlOpen

CONSTANTS d1, d2

OneDev == {d1}
TwoDevs == {d1, d2}
TwoOnly == {d2}
NoDev == {}
OnePid == {1}
TwoPids == {1, 2}
=============================================================================
