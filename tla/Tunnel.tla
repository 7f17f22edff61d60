------------------------------- MODULE Tunnel -------------------------------
(***************************************************************************)
(* What one tunnel of the proxy promises its two ends, stated without the  *)
(* job, the sockets or the PUIC library (spec sections 1 and 8.1): two     *)
(* byte streams, "down" from the PUIC peer to the TCP server and "up"      *)
(* back, each ended by an end-of-stream mark.  Within a direction the      *)
(* receiving end gets a prefix of what the sending end sent, so bytes are  *)
(* neither invented, duplicated nor reordered, and it sees the end of the  *)
(* stream only after every byte.  Once the tunnel is torn down nothing     *)
(* moves in either direction.  Bytes are counted, in units, because a      *)
(* prefix of a stream is fixed by its length.                              *)
(*                                                                         *)
(* One callback of the proxy can read, write and close in the same step,   *)
(* so a step of the tunnel may move both directions and close it.  This is *)
(* the safety part only; delivery is stated as liveness in ProxyBridge.    *)
(***************************************************************************)
EXTENDS Naturals

CONSTANTS
    MaxDown,    \* units the PUIC peer sends, at most
    MaxUp       \* units the TCP server sends, at most

VARIABLES
    open,       \* the tunnel has not been torn down
    dSent,      \* down: units the peer has sent into the tunnel
    dRcvd,      \* down: units the server has received
    dFin,       \* down: the peer has ended its stream
    dFinRcvd,   \* down: the server has seen the end of the stream
    uSent,      \* up: units the server has sent into the tunnel
    uRcvd,      \* up: units the peer has received
    uFin,       \* up: the server has ended its stream
    uFinRcvd    \* up: the peer has seen the end of the stream

tvars == <<open, dSent, dRcvd, dFin, dFinRcvd, uSent, uRcvd, uFin, uFinRcvd>>

Init ==
    /\ open = TRUE
    /\ dSent = 0 /\ dRcvd = 0 /\ dFin = FALSE /\ dFinRcvd = FALSE
    /\ uSent = 0 /\ uRcvd = 0 /\ uFin = FALSE /\ uFinRcvd = FALSE

\* One direction during one step: the sender may add units until it has
\* ended its stream, the receiver gets more of what was sent and never
\* more, and the end of the stream arrives after the last unit.
Flow(sent, rcvd, fin, finRcvd, max) ==
    /\ sent' \in sent..max
    /\ fin => sent' = sent
    /\ fin' \in {fin, TRUE}
    /\ rcvd' \in rcvd..sent'
    /\ finRcvd' \in {finRcvd, TRUE}
    /\ finRcvd' => (fin' /\ rcvd' = sent')

\* A step of the open tunnel; it may also tear the tunnel down.
Step ==
    /\ open
    /\ open' \in BOOLEAN
    /\ Flow(dSent, dRcvd, dFin, dFinRcvd, MaxDown)
    /\ Flow(uSent, uRcvd, uFin, uFinRcvd, MaxUp)

Spec == Init /\ [][Step]_tvars

=============================================================================
