---------------------------- MODULE ProxyBridge ----------------------------
(***************************************************************************)
(* One tunnel of puicproxy (src/puicproxy/src/puic_proxy.cc): a ProxyJob   *)
(* that bridges the preset stream of an accepted PUIC session (the         *)
(* "source", PuicServerConn) and a TCP connection to the backend server    *)
(* (the "destination", TCPConn on a libuv tcp handle).                     *)
(*                                                                         *)
(* Everything runs on one libuv loop, so every action below is one         *)
(* callback run to completion.  Calls into the PUIC library (ConnWrite,    *)
(* ConnMarkConsumed, ConnReadableRegions) may close the session            *)
(* synchronously when a packet write fails; the session then calls         *)
(* OnDisconnected -> OnPUICConnErr -> clean() before the call returns.     *)
(* That re-entrant close is the "SyncClose" outcome of each such call.     *)
(*                                                                         *)
(* Data is counted in units of 4 KiB (PUICCONN_WRITEBUF_LOWER), so the     *)
(* watermarks are LOWER = 1 and UPPER = 2 units.                           *)
(***************************************************************************)
EXTENDS Naturals, Sequences

CONSTANTS
    UsePP,      \* ProxyManager::UseProxyProtocol(): send a PROXY header first
    SyncClose,  \* library calls may close the session re-entrantly
    MaxUp,      \* units the backend sends in total (bound)
    MaxDown,    \* units the PUIC peer sends in total (bound)
    ReadChunk,  \* units one on_uv_read may deliver (16 KiB read buffer)
    MaxDupFin,  \* retransmitted FIN frames the peer may send (bound)
    LOWER,      \* PUICCONN_WRITEBUF_LOWER in units
    UPPER       \* PUICCONN_WRITEBUF_UPPER in units

ASSUME /\ UsePP \in BOOLEAN /\ SyncClose \in BOOLEAN
       /\ {MaxUp, MaxDown, ReadChunk, MaxDupFin, LOWER, UPPER} \subseteq Nat
       /\ ReadChunk >= 1 /\ LOWER < UPPER

VARIABLES
    \* ProxyJob and its place in ProxyManager::m_cleanJobs
    job,        \* "none" | "running" | "queued" (in m_cleanJobs) | "deleted"
    fault,      \* "none" | "null_deref" (m_dstConn used after clean)
                \*        | "stale_callback" (TCPConn callback into a dead job)
    misuse,     \* the job was torn down by an error its own call provoked
    \* TCPConn m_dstConn and its libuv handle
    tcp,        \* "none" | "connecting" | "connected" | "closing" | "freed"
    reading,    \* TCPConn::m_reading
    writing,    \* TCPConn::m_writing
    uvEof,      \* libuv has reported UV_EOF on the socket
    shutReq,    \* a uv_shutdown request was accepted
    outQ,       \* libuv write queue: pph, data [from, len] and fin requests
    \* the backend server at the other end of the TCP connection
    bOff,       \* payload units the backend has received
    bFirst,     \* what the backend received first: "none" | "pph" | "data"
    bEof,       \* the backend has seen the proxy's FIN
    upAvail,    \* units the backend sent that the proxy has not read yet
    upEof,      \* the backend has half-closed its sending side
    \* the PUIC session, its PuicServerConn and its preset stream
    sess,       \* "open" | "closed"
    connData,   \* PUICSERVER_ConnData: "job" | "null"
    dRecv,      \* units the stream sequencer has received from the peer
    consumed,   \* units marked consumed (PUICSERVER_ConnMarkConsumed)
    finRcvd,    \* the peer's FIN has arrived
    stopRd,     \* StopReading() was called: the read side is closed
    dupFin,     \* retransmitted FIN frames delivered
    sendBuf,    \* stream WriteBufferedAmount(), in units
    upXmit,     \* units the stream has transmitted to the peer
    finW        \* the job wrote its FIN on the stream

jobVars == <<job, fault, misuse>>
tcpVars == <<tcp, reading, writing, uvEof, shutReq, outQ>>
backendVars == <<bOff, bFirst, bEof, upAvail, upEof>>
puicVars == <<sess, connData, dRecv, consumed, finRcvd, stopRd, dupFin,
              sendBuf, upXmit, finW>>
vars == <<jobVars, tcpVars, backendVars, puicVars>>

Req == [kind : {"pph", "fin"}] \cup
       [kind : {"data"}, from : 0..MaxDown, len : 1..MaxDown]

UpTotal == upXmit + sendBuf + upAvail

TypeOK ==
    /\ job \in {"none", "running", "queued", "deleted"}
    /\ fault \in {"none", "null_deref", "stale_callback"}
    /\ misuse \in BOOLEAN
    /\ tcp \in {"none", "connecting", "connected", "closing", "freed"}
    /\ {reading, writing, uvEof, shutReq} \subseteq BOOLEAN
    /\ outQ \in Seq(Req)
    /\ bOff \in 0..MaxDown /\ bFirst \in {"none", "pph", "data"}
    /\ {bEof, upEof, finRcvd, stopRd, finW} \subseteq BOOLEAN
    /\ upAvail \in 0..MaxUp /\ sendBuf \in 0..MaxUp /\ upXmit \in 0..MaxUp
    /\ sess \in {"open", "closed"} /\ connData \in {"job", "null"}
    /\ dRecv \in 0..MaxDown /\ consumed \in 0..dRecv
    /\ dupFin \in 0..MaxDupFin

\* The session has completed its handshake (PuicServerConn::OnHandshaked
\* is about to call OnAccept); no TCP connection exists yet.
Init ==
    /\ job = "none" /\ fault = "none" /\ misuse = FALSE
    /\ tcp = "none" /\ reading = FALSE /\ writing = FALSE
    /\ uvEof = FALSE /\ shutReq = FALSE /\ outQ = <<>>
    /\ bOff = 0 /\ bFirst = "none" /\ bEof = FALSE
    /\ upAvail = 0 /\ upEof = FALSE
    /\ sess = "open" /\ connData = "null"
    /\ dRecv = 0 /\ consumed = 0 /\ finRcvd = FALSE /\ stopRd = FALSE
    /\ dupFin = 0 /\ sendBuf = 0 /\ upXmit = 0 /\ finW = FALSE

(***************************************************************************)
(* Helpers for the job's calls.  Each names the variables it assigns.      *)
(***************************************************************************)

\* Variables that ProxyJob::clean() assigns, apart from the write queue.
cleanFrame == <<job, misuse, connData, sess, tcp>>

\* Bug variant of clean(): the TCP handle is not closed.
clean_keepTcp(self) ==
    IF job = "running"
    THEN /\ job' = "queued" /\ misuse' = (misuse \/ self)
         /\ connData' = "null" /\ sess' = "closed"
         /\ UNCHANGED <<tcp, outQ>>
    ELSE UNCHANGED <<cleanFrame, outQ>>

\* ProxyJob::clean(): the first call stops the job, detaches it from the
\* PUIC connection and disconnects that (PuicServerConn deletes itself),
\* closes the TCP handle (uv_close cancels the queued requests) and queues
\* the job on m_cleanJobs; later calls return at once.  "self" records that
\* the error was provoked by the job's own call (ghost variable misuse).
clean(self) ==
    IF job = "running"
    THEN /\ job' = "queued"
         /\ misuse' = (misuse \/ self)
         /\ connData' = "null"
         /\ sess' = "closed"
         /\ tcp' = IF tcp \in {"none", "connecting", "connected"}
                   THEN "closing" ELSE tcp
         /\ outQ' = <<>>
    ELSE UNCHANGED <<cleanFrame, outQ>>

\* Bug variant of StartRead with the reading() test inverted: it returns
\* early exactly when reading was stopped.
StartRead_inverted ==
    UNCHANGED <<reading, cleanFrame, outQ>>

\* TCPConn::StartRead(); uv_read_start fails once libuv has seen EOF (the
\* handle is no longer readable) and the error goes to OnTCPConnErr.
\* Assigns reading and the clean frame.
StartRead ==
    \/ /\ reading
       /\ UNCHANGED <<reading, cleanFrame, outQ>>
    \/ /\ ~reading /\ ~uvEof
       /\ reading' = TRUE
       /\ UNCHANGED <<cleanFrame, outQ>>
    \/ /\ ~reading /\ uvEof
       /\ UNCHANGED reading
       /\ clean(TRUE)

\* TCPConn::StopRead().
StopRead ==
    /\ reading' = FALSE
    /\ UNCHANGED <<cleanFrame, outQ>>

\* Bug variant: reading stops only above UPPER.
may_tcp_to_puic_gt(buffered) ==
    IF job # "running"
    THEN /\ fault' = "null_deref"
         /\ UNCHANGED <<reading, cleanFrame, outQ>>
    ELSE /\ fault' = fault
         /\ \/ buffered > UPPER /\ StopRead
            \/ buffered <= LOWER /\ StartRead
            \/ LOWER < buffered /\ buffered <= UPPER
               /\ UNCHANGED <<reading, cleanFrame, outQ>>

\* ProxyJob::may_tcp_to_puic(buffered): hysteresis on the stream's send
\* buffer.  After clean() m_dstConn is null and the call dereferences it.
\* Assigns reading, fault and the clean frame.
may_tcp_to_puic(buffered) ==
    IF job # "running"
    THEN /\ fault' = "null_deref"
         /\ UNCHANGED <<reading, cleanFrame, outQ>>
    ELSE /\ fault' = fault
         /\ \/ buffered >= UPPER /\ StopRead
            \/ buffered <= LOWER /\ StartRead
            \/ LOWER < buffered /\ buffered < UPPER
               /\ UNCHANGED <<reading, cleanFrame, outQ>>

\* TCPConn::Write of len units from offset from, behind queue q: uv_write
\* queues the request and m_writing is set.  (uv_write does not fail at
\* once on an open, writable socket.)  Assigns writing and outQ.
Write(q, from, len) ==
    /\ outQ' = Append(q, [kind |-> "data", from |-> from, len |-> len])
    /\ writing' = TRUE

\* TCPConn::Shutdown behind queue q: uv_shutdown queues a shutdown request
\* after the writes; on a socket whose shutdown is already pending it
\* fails with ENOTCONN, and OnTCPConnErr cleans the job, an error the
\* job's own call provoked.  Assigns shutReq, outQ and the clean frame.
Shutdown(q) ==
    \/ /\ ~shutReq
       /\ shutReq' = TRUE
       /\ outQ' = Append(q, [kind |-> "fin"])
       /\ UNCHANGED cleanFrame
    \/ /\ shutReq
       /\ UNCHANGED shutReq
       /\ clean(TRUE)

\* Bug variant of IsEOF without StopReading().
IsEOF_keepReading(closed) == stopRd' = stopRd

\* PuicStream::IsEOF() as called by PUICSERVER_ConnReadableRegions when no
\* region is readable: when the sequencer is closed it calls StopReading(),
\* which closes the read side, so later stream frames are ignored.
IsEOF(closed) == stopRd' = (stopRd \/ closed)

\* Bug variant: EOF reported as soon as the FIN arrived.
ReadableEOF_onFin(cons, recv, fin) == fin

\* PUICSERVER_ConnReadableRegions returns PUISRVERR_EOF when no region is
\* readable and the sequencer is closed (every unit up to the FIN consumed).
ReadableEOF(cons, recv, fin) == recv = cons /\ fin

\* ProxyJob::may_puic_to_tcp() run in a state where m_dstConn->writing() is
\* wr, the stream has consumed cons units of recv received, and fin tells
\* whether the peer's FIN arrived; q is the TCP write queue at that point.
\* Assigns writing, outQ, consumed, stopRd, shutReq, fault, the clean frame.
may_puic_to_tcp(wr, cons, q, recv, fin) ==
    /\ consumed' = cons
    /\ IF job # "running"
       THEN /\ fault' = "null_deref"
            /\ writing' = wr /\ outQ' = q
            /\ UNCHANGED <<stopRd, shutReq, cleanFrame>>
       ELSE
       /\ fault' = fault
       /\ \/ /\ wr                              \* a write is in flight
             /\ writing' = wr /\ outQ' = q
             /\ UNCHANGED <<stopRd, shutReq, cleanFrame>>
          \/ /\ ~wr /\ recv = cons /\ ~ReadableEOF(cons, recv, fin)
             /\ IsEOF(FALSE)
             /\ writing' = wr /\ outQ' = q
             /\ UNCHANGED <<shutReq, cleanFrame>>
          \/ /\ ~wr /\ ReadableEOF(cons, recv, fin)   \* PUISRVERR_EOF
             /\ IsEOF(TRUE)
             /\ writing' = wr
             /\ \/ /\ SyncClose                 \* closing the read side
                   /\ UNCHANGED shutReq         \* failed: !running()
                   /\ clean(FALSE)
                \/ Shutdown(q)                  \* m_dstConn->Shutdown()
          \/ /\ ~wr /\ recv > cons /\ ~ReadableEOF(cons, recv, fin)
             /\ \E len \in 1..(recv - cons) : Write(q, cons, len)
             /\ UNCHANGED <<stopRd, shutReq, cleanFrame>>

\* ProxyJob::OnPUICConnCanWrite(remain).
OnPUICConnCanWrite(remain) == may_tcp_to_puic(remain)

\* ProxyManager::OnPUICanWrite(remain): the job in PUICSERVER_ConnData,
\* none once clean() cleared it.
OnPUICanWrite(remain) ==
    IF connData = "job"
    THEN OnPUICConnCanWrite(remain)
    ELSE UNCHANGED <<reading, fault, cleanFrame, outQ>>

\* ProxyJob::OnPUICConnErr, reached through OnPUICDisconnected when the
\* session closes: it logs and cleans the job.
OnPUICConnErr == clean(FALSE)

(***************************************************************************)
(* Actions.  Each is one callback of the event loop run to completion.     *)
(***************************************************************************)

\* Bug variant: no PROXY header is queued.
ProxyHeader_none == <<>>

\* TCPConn::Start queues the PROXY protocol header (SendPPH) right after
\* uv_tcp_connect, before the connection completes.
ProxyHeader == IF UsePP THEN <<[kind |-> "pph"]>> ELSE <<>>

\* ProxyManager::OnPUICAccept: new ProxyJob (SetConnData(this)), then
\* ProxyJob::Start and TCPConn::Start.  uv_tcp_connect either fails at once
\* (OnTCPConnErr -> clean) or is pending; with the PROXY protocol the
\* header is queued with uv_write before the connection completes.
OnPUICAccept ==
    /\ job = "none" /\ sess = "open"
    /\ \/ /\ job' = "running" /\ connData' = "job" /\ tcp' = "connecting"
          /\ outQ' = ProxyHeader
          /\ UNCHANGED sess
       \/ /\ job' = "queued" /\ connData' = "null" /\ sess' = "closed"
          /\ tcp' = "closing" /\ outQ' = <<>>
    /\ UNCHANGED <<fault, misuse, reading, writing, uvEof, shutReq,
                   backendVars, dRecv, consumed, finRcvd, stopRd, dupFin,
                   sendBuf, upXmit, finW>>

\* TCPConn::on_uv_connect: an error goes to OnTCPConnErr; success to
\* OnTCPConnBound, which starts reading (the fresh socket is readable).
OnUvConnect ==
    /\ tcp = "connecting"
    /\ IF job = "running"
       THEN /\ fault' = fault
            /\ \/ /\ clean(FALSE)
                  /\ UNCHANGED reading
               \/ /\ tcp' = "connected" /\ reading' = TRUE
                  /\ UNCHANGED <<job, misuse, connData, sess, outQ>>
       ELSE /\ fault' = "stale_callback"
            /\ UNCHANGED <<reading, cleanFrame, outQ>>
    /\ UNCHANGED <<writing, uvEof, shutReq, backendVars, dRecv, consumed,
                   finRcvd, stopRd, dupFin, sendBuf, upXmit, finW>>

\* PUICSERVER_ConnWrite(len): PuicStream::Write (WriteOrBufferData) appends the
\* n bytes to the stream's send buffer, which may send any part of it at
\* once; *buffered is WriteBufferedAmount(), what is left.  Its FinSent
\* refusal is never taken: the read callback delivers nothing after
\* UV_EOF, and the FIN is written only at EOF.
ConnWrite(n, buffered) ==
    /\ buffered <= sendBuf + n
    /\ sendBuf' = buffered
    /\ upXmit' = upXmit + sendBuf + n - buffered

\* PUICSERVER_ConnMarkConsumed(len): PuicStream::MarkConsumed advances the
\* stream sequencer's consumed offset by len.
ConnMarkConsumed(len) == consumed + len

\* ProxyJob::OnTCPConnRcvd(len): PUICSERVER_ConnWrite buffers the data on
\* the stream, which may send part of the buffer at once, and returns the
\* buffered amount; a failed send closes the session inside the call and
\* the "!running()" check returns.  Otherwise may_tcp_to_puic(buffered).
OnTCPConnRcvd(n) ==
    \/ /\ \E b \in 0..(sendBuf + n) :
            /\ ConnWrite(n, b)
            /\ may_tcp_to_puic(b)
    \/ /\ SyncClose
       /\ clean(FALSE)
       /\ UNCHANGED <<sendBuf, upXmit, reading, fault>>

\* TCPConn::on_uv_read with nread > 0: up to one read buffer of the bytes
\* the backend sent is delivered to OnTCPConnRcvd.
TcpRead ==
    /\ tcp = "connected" /\ reading /\ ~uvEof /\ upAvail > 0
    /\ \E n \in 1..ReadChunk :
         /\ n <= upAvail
         /\ upAvail' = upAvail - n
         /\ IF job = "running"
            THEN OnTCPConnRcvd(n)
            ELSE /\ fault' = "stale_callback"
                 /\ UNCHANGED <<sendBuf, upXmit, reading, cleanFrame, outQ>>
    /\ UNCHANGED <<writing, uvEof, shutReq, bOff, bFirst, bEof, upEof,
                   dRecv, consumed, finRcvd, stopRd, dupFin, finW>>

\* TCPConn::on_uv_read with UV_EOF (m_reading stays true) and
\* ProxyJob::OnTCPConnEOF, which writes the FIN on the stream.
TcpEof ==
    /\ tcp = "connected" /\ reading /\ ~uvEof /\ upAvail = 0 /\ upEof
    /\ uvEof' = TRUE
    /\ IF job = "running"
       THEN /\ fault' = fault
            /\ \/ /\ finW' = TRUE
                  /\ UNCHANGED <<cleanFrame, outQ>>
               \/ /\ SyncClose
                  /\ clean(FALSE)
                  /\ UNCHANGED finW
       ELSE /\ fault' = "stale_callback"
            /\ UNCHANGED <<finW, cleanFrame, outQ>>
    /\ UNCHANGED <<reading, writing, shutReq, backendVars, dRecv, consumed,
                   finRcvd, stopRd, dupFin, sendBuf, upXmit>>

\* Bug variant: may_puic_to_tcp runs before MarkConsumed takes effect.
OnTCPConnSent_consumeLate(len, q) ==
    may_puic_to_tcp(FALSE, consumed, q, dRecv, finRcvd)

\* Bug variant: a completed write does not pump the next one.
OnTCPConnSent_noPump(len, q) ==
    /\ consumed' = consumed + len /\ writing' = FALSE /\ outQ' = q
    /\ UNCHANGED <<stopRd, shutReq, fault, cleanFrame>>

\* ProxyJob::OnTCPConnSent(len) after on_uv_write cleared m_writing:
\* PUICSERVER_ConnMarkConsumed (its window update may close the session),
\* "!running()" check, then may_puic_to_tcp.  q is the rest of the queue.
OnTCPConnSent(len, q) ==
    \/ may_puic_to_tcp(FALSE, ConnMarkConsumed(len), q, dRecv, finRcvd)
    \/ /\ SyncClose
       /\ consumed' = ConnMarkConsumed(len) /\ writing' = FALSE
       /\ clean(FALSE)
       /\ UNCHANGED <<stopRd, shutReq, fault>>

\* The head request of the libuv write queue completes.  The PROXY header
\* has no callback; a data write calls on_uv_write -> OnTCPConnSent; the
\* shutdown calls on_uv_shutdown, which only reports errors.
BackendRecv ==
    /\ tcp = "connected" /\ outQ # <<>>
    /\ LET h == Head(outQ)
           q == Tail(outQ)
       IN  /\ bFirst' = IF bFirst = "none" /\ h.kind # "fin"
                        THEN h.kind ELSE bFirst
           /\ bEof' = (bEof \/ h.kind = "fin")
           /\ IF h.kind = "data"
              THEN /\ bOff' = bOff + h.len
                   /\ IF job = "running"
                      THEN OnTCPConnSent(h.len, q)
                      ELSE /\ fault' = "stale_callback" /\ outQ' = q
                           /\ UNCHANGED <<writing, consumed, stopRd, shutReq,
                                          cleanFrame>>
              ELSE /\ outQ' = q
                   /\ UNCHANGED <<bOff, writing, consumed, stopRd, shutReq,
                                  fault, cleanFrame>>
    /\ UNCHANGED <<reading, uvEof, upAvail, upEof, dRecv, finRcvd, dupFin,
                   sendBuf, upXmit, finW>>

\* Bug variant: a FIN frame without data raises no OnDataAvailable.
FinArrived_silent ==
    UNCHANGED <<writing, outQ, consumed, stopRd, shutReq, fault, cleanFrame>>

\* The stream sequencer received a closing FIN (first or retransmitted):
\* QuicStreamSequencer::MaybeCloseStream.  Once all data is consumed it
\* calls OnFinRead if reading was stopped, else OnDataAvailable, which
\* reaches ProxyJob::OnPUICConnCanRead -> may_puic_to_tcp.
FinArrived ==
    IF consumed = dRecv /\ ~stopRd
    THEN may_puic_to_tcp(writing, consumed, outQ, dRecv, TRUE)
    ELSE UNCHANGED <<writing, outQ, consumed, stopRd, shutReq, fault,
                     cleanFrame>>

\* A stream frame with new data: PuicStream::OnDataAvailable ->
\* PuicServerConn::OnCanRead -> ProxyManager::OnPUICanRead (ConnData set)
\* -> ProxyJob::OnPUICConnCanRead -> may_puic_to_tcp.
PeerData ==
    /\ sess = "open" /\ job = "running" /\ ~finRcvd /\ dRecv < MaxDown
    /\ dRecv' = dRecv + 1
    /\ may_puic_to_tcp(writing, consumed, outQ, dRecv + 1, FALSE)
    /\ UNCHANGED <<reading, uvEof, backendVars, finRcvd, dupFin, sendBuf,
                   upXmit, finW>>

\* The peer's FIN frame.
PeerFin ==
    /\ sess = "open" /\ job = "running" /\ ~finRcvd
    /\ finRcvd' = TRUE
    /\ FinArrived
    /\ UNCHANGED <<reading, uvEof, backendVars, dRecv, dupFin, sendBuf,
                   upXmit, finW>>

\* A retransmitted FIN frame; frames for a stream whose read side is
\* closed are dropped by QuicStream::OnStreamFrame.
PeerDupFin ==
    /\ sess = "open" /\ finRcvd /\ ~stopRd /\ dupFin < MaxDupFin
    /\ dupFin' = dupFin + 1
    /\ FinArrived
    /\ UNCHANGED <<reading, uvEof, backendVars, dRecv, finRcvd, sendBuf,
                   upXmit, finW>>

\* The session sends k buffered units; PuicStream::OnCanWrite calls the
\* delegate unless the FIN is buffered: PuicServerConn::OnCanWrite ->
\* ProxyManager::OnPUICanWrite -> OnPUICConnCanWrite(WriteBufferedAmount).
StreamCanWrite ==
    /\ sess = "open" /\ sendBuf > 0
    /\ \E k \in 1..sendBuf :
         /\ sendBuf' = sendBuf - k
         /\ upXmit' = upXmit + k
         /\ IF finW
            THEN UNCHANGED <<reading, fault, cleanFrame, outQ>>
            ELSE OnPUICanWrite(sendBuf - k)
    /\ UNCHANGED <<writing, uvEof, shutReq, backendVars, dRecv, consumed,
                   finRcvd, stopRd, dupFin, finW>>

\* The session closes on its own (idle timeout, peer close, network
\* error): PuicServerConn::OnClosed -> OnPUICDisconnected -> OnPUICConnErr.
SessionClosed ==
    /\ sess = "open" /\ job = "running"
    /\ OnPUICConnErr
    /\ UNCHANGED <<fault, reading, writing, uvEof, shutReq, backendVars,
                   dRecv, consumed, finRcvd, stopRd, dupFin, sendBuf,
                   upXmit, finW>>

\* A TCP error reported by libuv on a pending read or write
\* (on_uv_read nread < 0, on_uv_write or on_uv_shutdown status < 0).
TcpError ==
    /\ tcp = "connected" /\ ((reading /\ ~uvEof) \/ outQ # <<>>)
    /\ IF job = "deleted"
       THEN fault' = "stale_callback" /\ UNCHANGED <<cleanFrame, outQ>>
       ELSE fault' = fault /\ clean(FALSE)
    /\ UNCHANGED <<reading, writing, uvEof, shutReq, backendVars, dRecv,
                   consumed, finRcvd, stopRd, dupFin, sendBuf, upXmit, finW>>

\* TCPConn::on_uv_close deletes the TCPConn.
OnUvClose ==
    /\ tcp = "closing"
    /\ tcp' = "freed"
    /\ UNCHANGED <<jobVars, reading, writing, uvEof, shutReq, outQ,
                   backendVars, puicVars>>

\* ProxyManager::Monitor (uv_prepare, every loop iteration) deletes the
\* jobs in m_cleanJobs.
Monitor ==
    /\ job = "queued"
    /\ job' = "deleted"
    /\ UNCHANGED <<fault, misuse, tcpVars, backendVars, puicVars>>

\* The backend writes one unit, or half-closes its side.
BackendSend ==
    /\ tcp = "connected" /\ ~upEof /\ UpTotal < MaxUp
    /\ upAvail' = upAvail + 1
    /\ UNCHANGED <<jobVars, tcpVars, bOff, bFirst, bEof, upEof, puicVars>>

BackendShutdown ==
    /\ tcp = "connected" /\ ~upEof
    /\ upEof' = TRUE
    /\ UNCHANGED <<jobVars, tcpVars, bOff, bFirst, bEof, upAvail, puicVars>>

\* The job is deleted and the TCP handle freed: nothing is left to run.
Terminated ==
    /\ job = "deleted" /\ tcp = "freed"
    /\ UNCHANGED vars

Next ==
    \/ OnPUICAccept \/ OnUvConnect \/ TcpRead \/ TcpEof \/ BackendRecv
    \/ PeerData \/ PeerFin \/ PeerDupFin \/ StreamCanWrite
    \/ SessionClosed \/ TcpError \/ OnUvClose \/ Monitor
    \/ BackendSend \/ BackendShutdown \/ Terminated

\* The loop keeps dispatching ready libuv and session events; the peers,
\* the network and the timeouts get no fairness.
Fairness ==
    /\ WF_vars(OnPUICAccept) /\ WF_vars(OnUvConnect) /\ WF_vars(TcpRead)
    /\ WF_vars(TcpEof) /\ WF_vars(BackendRecv) /\ WF_vars(StreamCanWrite)
    /\ WF_vars(OnUvClose) /\ WF_vars(Monitor)

Spec == Init /\ [][Next]_vars /\ Fairness

(***************************************************************************)
(* Properties                                                              *)
(***************************************************************************)

\* Units of payload in a sequence of write requests.
RECURSIVE DataIn(_)
DataIn(s) ==
    IF s = <<>> THEN 0
    ELSE (IF Head(s).kind = "data" THEN Head(s).len ELSE 0) + DataIn(Tail(s))

\* The backend receives the peer's bytes exactly once and in order: every
\* data write queued on the TCP socket starts where the bytes received by
\* the backend and the writes queued before it end.  This is what the
\* order "MarkConsumed, then may_puic_to_tcp" in OnTCPConnSent and the
\* m_writing latch of TCPConn::Write guarantee.
DownstreamInOrder ==
    \A i \in 1..Len(outQ) :
        outQ[i].kind = "data" =>
            outQ[i].from = bOff + DataIn(SubSeq(outQ, 1, i - 1))

\* When the backend sees the proxy's FIN, it has received every byte the
\* peer sent before its FIN (may_puic_to_tcp shuts the socket down only
\* on PUISRVERR_EOF, after the last write completed).
EofAfterAllData ==
    bEof => (finRcvd /\ bOff = dRecv)

\* With the PROXY protocol the header reaches the backend before any data,
\* although TCPConn::Start queues it before the connection completes and
\* stream data may be written to the socket while it is still connecting.
ProxyHeaderFirst ==
    UsePP => bFirst # "data"

\* The hysteresis of may_tcp_to_puic bounds what one tunnel buffers on
\* the stream: reading stops at UPPER, so at most one more read lands.
SendBufBounded ==
    sendBuf <= UPPER - 1 + ReadChunk

\* No callback reaches a cleaned job or a null m_dstConn: TCPConn callbacks
\* stop because clean() closes the handle, and every continuation after a
\* library call that may close the session checks running().
NoUseAfterClean ==
    fault = "none"

\* A tunnel is never torn down by an error the proxy provokes itself:
\* a second uv_shutdown after a retransmitted FIN, or uv_read_start after
\* EOF.  PuicStream::IsEOF stops reading so no second EOF is reported.
NoSelfInflictedTeardown ==
    ~misuse

\* Every unit the peer sends reaches the backend unless the tunnel closes.
DownDelivered ==
    \A n \in 1..MaxDown : (dRecv >= n) ~> (bOff >= n \/ job # "running")

\* The peer's FIN reaches the backend as a TCP shutdown unless the tunnel
\* closes, also when the FIN frame carries no data.
DownEofDelivered ==
    finRcvd ~> (bEof \/ job # "running")

\* Every unit the backend sends is transmitted on the stream unless the
\* tunnel closes: reading stopped at UPPER is restarted by OnCanWrite.
UpDelivered ==
    \A n \in 1..MaxUp : (UpTotal >= n) ~> (upXmit >= n \/ job # "running")

\* The tunnel the job implements.  Down: the peer's units as they reach
\* the stream (dRecv) and the backend (bOff), the peer's FIN and the
\* backend's EOF.  Up: the units the proxy has read from the backend and
\* written to the stream, the ones the stream has transmitted, the
\* backend's EOF as libuv reports it, and the FIN the job writes once the
\* stream has transmitted the rest.  The tunnel is open until clean().
Tun == INSTANCE Tunnel WITH
    open <- job \in {"none", "running"},
    dSent <- dRecv, dRcvd <- bOff, dFin <- finRcvd, dFinRcvd <- bEof,
    uSent <- upXmit + sendBuf, uRcvd <- upXmit, uFin <- uvEof,
    uFinRcvd <- finW /\ sendBuf = 0

\* The job implements the tunnel of spec 8.1 (no lost bytes): in each
\* direction the receiving end gets a prefix of what was sent, the EOF
\* last, and nothing moves once the job has been cleaned, whatever order
\* the libuv and session callbacks run in.
TunnelSpec == Tun!Spec

\* Spec 4.5: once both directions are half-closed the tunnel closes.
BothHalvesCloseJob ==
    (uvEof /\ shutReq) ~> (job # "running")
=============================================================================
