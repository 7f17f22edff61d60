------------------------------ MODULE MCDialer ------------------------------
(* Two conns sharing a dialer whose pool holds two send requests.         *)
EXTENDS Dialer

CONSTANTS c1, c2

MCConns == {c1, c2}
=============================================================================
