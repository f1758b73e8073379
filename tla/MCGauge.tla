------------------------------ MODULE MCGauge ------------------------------
\* A small instance of ClientsGauge for TLC.
EXTENDS ClientsGauge

CONSTANTS a, b

TwoNames == {a, b}
=============================================================================
