------------------------------ MODULE MCServer ------------------------------
EXTENDS Server
CONSTANTS s1, s2
MCSessions == {s1, s2}
=============================================================================
