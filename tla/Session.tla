------------------------------ MODULE Session ------------------------------
(***************************************************************************)
(* The stream layer of one PUIC session: PuicSessionBase of               *)
(* src/puicbase/puic/puic_session_base.cc, its PuicStreams                *)
(* (puic_stream.cc) and the delegate a PuicServerConn or PuicClientConn   *)
(* gives them.  The preset stream is created when the handshake is        *)
(* confirmed, and the conn's OnHandshaked makes itself its delegate; a    *)
(* stream the peer opens is handed to the conn's OnIncomingStream, which  *)
(* cancels it.                                                            *)
(*                                                                         *)
(* The QUIC library (QuicSession, QuicStream) is not in this repository;  *)
(* its events are the environment, with the behaviour of Chromium's       *)
(* QuicSession that the code relies on:                                   *)
(*  - a frame for a new peer stream id creates the stream through         *)
(*    CreateIncomingDynamicStream (GetOrCreateDynamicStream);             *)
(*  - IsOpenStream(id) holds for a stream of the active stream map, i.e.  *)
(*    after ActivateStream and before CloseStream;                        *)
(*  - CloseStream, a reset sent or received, and the connection's close   *)
(*    (for every active stream, before OnConnectionClosed reaches the     *)
(*    delegate) call the stream's OnClose.                                *)
(***************************************************************************)
EXTENDS Naturals

CONSTANTS
    Perspective,    \* "server" (PuicServerSession) or "client"
    Extra           \* stream ids the peer may open besides the preset one

ASSUME Perspective \in {"server", "client"}

Preset == "preset"      \* kPresetStreamId (3)

Streams == {Preset} \cup Extra

VARIABLES
    sess,       \* the QuicConnection: "handshaking", "open", "closed"
    stream,     \* per stream id: its state in the session's stream maps
                \* ("none", "active", "closed") and whether delegate_ is set
    fault       \* "none", or "null_delegate": a PuicStream called through
                \* a null delegate_

vars == <<sess, stream, fault>>

TypeOK ==
    /\ sess \in {"handshaking", "open", "closed"}
    /\ stream \in [Streams -> [state : {"none", "active", "closed"},
                               delegate : BOOLEAN]]
    /\ fault \in {"none", "null_delegate"}

\* A new PuicServerConn / PuicClientConn has made itself the session's
\* delegate; no stream exists yet.
Init ==
    /\ sess = "handshaking"
    /\ stream = [s \in Streams |-> [state |-> "none", delegate |-> FALSE]]
    /\ fault = "none"

(***************************************************************************)
(* Helpers: a call returns the stream map and fault it leaves, r.m, r.f    *)
(***************************************************************************)

\* The stream map and fault as a call finds them.
Now == [m |-> stream, f |-> fault]

\* The state a sequence of calls ends in.  Assigns stream and fault.
Apply(r) == stream' = r.m /\ fault' = r.f

\* PuicStream::OnClose of the streams cs: closed_ is set and
\* delegate_->OnClosed called (DCHECK(delegate_) checks only debug builds).
OnClose(r, cs) ==
    [m |-> [s \in Streams |->
              IF s \in cs THEN [r.m[s] EXCEPT !.state = "closed"] ELSE r.m[s]],
     f |-> IF \A s \in cs : r.m[s].delegate THEN r.f ELSE "null_delegate"]

\* PuicStream::OnDataAvailable: unless closed_, delegate_->OnCanRead.
OnDataAvailable(r, s) ==
    IF r.m[s].state = "closed" THEN r
    ELSE [r EXCEPT !.f = IF r.m[s].delegate THEN @ ELSE "null_delegate"]

\* PuicSessionBase::ResetStream(id): nothing unless IsOpenStream(id);
\* otherwise QuicStream::Reset sends a RST_STREAM, which closes the stream.
ResetStream(r, s) ==
    IF r.m[s].state = "active" THEN OnClose(r, {s}) ELSE r

\* PuicSessionBase::CancelStream(id): ResetStream(id, QUIC_STREAM_CANCELLED).
CancelStream(r, s) == ResetStream(r, s)

\* PuicServerConn::OnIncomingStream (PuicClientConn's is the same): the
\* stream is unwanted and cancelled.
OnIncomingStream(r, s) == CancelStream(r, s)

\* PuicSessionBase::ActivateDataStream: QuicSession::ActivateStream takes
\* the new stream into the active stream map.
ActivateDataStream(r, s) == [r EXCEPT !.m[s].state = "active"]

\* PuicSessionBase::CreateDataStream(id) followed by the caller's
\* ActivateDataStream: a PuicStream with a null delegate_ is registered
\* with the write-blocked list; an incoming stream other than the preset
\* one is first reported to the delegate's OnIncomingStream.
CreateDataStream(r, s, incoming) ==
    IF incoming /\ s # Preset
    THEN ActivateDataStream(OnIncomingStream(r, s), s)
    ELSE ActivateDataStream(r, s)

\* PuicSessionBase::CreateIncomingDynamicStream(id).
CreateIncomingDynamicStream(r, s) == CreateDataStream(r, s, TRUE)

\* PuicSessionBase::CreateOutgoingDynamicStream: the client's first
\* outgoing stream id is kPresetStreamId.
CreateOutgoingDynamicStream(r) == CreateDataStream(r, Preset, FALSE)

\* PuicStream::SetDelegate.
SetDelegate(r, s) == [r EXCEPT !.m[s].delegate = TRUE]

\* PuicServerConn::OnHandshaked / PuicClientConn::OnHandshaked: the conn
\* becomes the preset stream's delegate, then reports OnAccept/OnConnected.
OnHandshaked(r) == SetDelegate(r, Preset)

\* PuicSessionBase::CloseStream(id): nothing for a closed stream;
\* otherwise the stream leaves the write-blocked list and QuicSession::
\* CloseStream closes it.
CloseStream(r, s) ==
    IF r.m[s].state = "closed" THEN r ELSE OnClose(r, {s})

(***************************************************************************)
(* Actions                                                                 *)
(***************************************************************************)

\* PuicSessionBase::OnCryptoHandshakeEvent(HANDSHAKE_CONFIRMED): the
\* server accepts the preset stream as an incoming one, the client opens
\* it as its first outgoing one; then the delegate's OnHandshaked.
OnCryptoHandshakeEvent ==
    /\ sess = "handshaking"
    /\ sess' = "open"
    /\ Apply(OnHandshaked(
            IF Perspective = "server"
            THEN CreateIncomingDynamicStream(Now, Preset)
            ELSE CreateOutgoingDynamicStream(Now)))

\* The peer's first frame on a stream id of its own, once the connection
\* is forward-secure: the stream is created, then the frame is buffered
\* (its data may not be readable yet).
PeerOpensStream(s) ==
    /\ sess = "open" /\ stream[s].state = "none"
    /\ Apply(CreateIncomingDynamicStream(Now, s))
    /\ UNCHANGED sess

\* Readable data on an open stream: the sequencer calls OnDataAvailable.
StreamData(s) ==
    /\ sess = "open" /\ stream[s].state = "active"
    /\ Apply(OnDataAvailable(Now, s))
    /\ UNCHANGED sess

\* A RST_STREAM from the peer: the stream is closed (CloseStream).
PeerResetStream(s) ==
    /\ sess = "open" /\ stream[s].state = "active"
    /\ Apply(CloseStream(Now, s))
    /\ UNCHANGED sess

\* PuicSessionBase::OnConnectionClosed (a timeout, the peer's close, or
\* Close() by the conn): QuicSession::OnConnectionClosed closes every
\* active stream, then delegate_->OnClosed reaches the conn.
OnConnectionClosed ==
    /\ sess # "closed"
    /\ sess' = "closed"
    /\ Apply(OnClose(Now, {s \in Streams : stream[s].state = "active"}))

\* The session is gone; nothing more happens to it.
Terminated ==
    /\ sess = "closed"
    /\ UNCHANGED vars

Next ==
    \/ OnCryptoHandshakeEvent
    \/ \E s \in Extra : PeerOpensStream(s)
    \/ \E s \in Streams : StreamData(s) \/ PeerResetStream(s)
    \/ OnConnectionClosed
    \/ Terminated

Spec == Init /\ [][Next]_vars

(***************************************************************************)
(* Properties                                                              *)
(***************************************************************************)

\* Every PuicStream callback (OnDataAvailable, OnClose) reaches a delegate:
\* PuicStream::OnClose and OnCanWrite DCHECK(delegate_), and spec section
\* 6.4 says that an extra incoming stream is cancelled, so only the preset
\* stream, whose delegate OnHandshaked sets, should ever call back.
StreamCallbacksHaveDelegate == fault = "none"
=============================================================================
