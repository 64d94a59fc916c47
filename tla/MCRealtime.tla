----------------------------- MODULE MCRealtime -----------------------------
EXTENDS Realtime

CONSTANTS a1, a2, s1, s2, h

MCAuth == {a1, a2}
MCSub  == {s1, s2}
MCReqs == MCAuth \union MCSub \union {h}
=============================================================================
