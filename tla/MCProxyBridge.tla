--------------------------- MODULE MCProxyBridge ---------------------------
(* One tunnel with the PROXY protocol on and re-entrant session closes.   *)
(* Units are 4 KiB: watermarks 1 and 2, a 16 KiB read buffer delivers up *)
(* to ReadChunk = 2 units here so that one read can cross UPPER.          *)
EXTENDS ProxyBridge

MCMaxUp == 4
MCMaxDown == 3
=============================================================================
