----------------------------- MODULE MCPairing -----------------------------
\* One reader and two browser requests of one account with room for one device.
EXTENDS Pairing

CONSTANTS p1, d1, d2, d3, a1, c1, c2
MCPairing1 == {p1}
MCDevice == {d1, d2, d3}
MCAccount == {a1}
MCClient == {c1, c2}
=============================================================================
