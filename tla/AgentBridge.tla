---------------------------- MODULE AgentBridge ----------------------------
(***************************************************************************)
(* One tunnel of puicagent (src/puicagent/src/puic_agent.cc and            *)
(* agent_server.cc): a ProxyJob that bridges a locally accepted TCP        *)
(* connection (the "source", AgentConn) and the preset stream of a PUIC    *)
(* client session it dials (the "destination", PuicClientConn).            *)
(*                                                                         *)
(* Unlike the proxy's TCPConn, AgentConn keeps its own latches m_readeof   *)
(* and m_writeof, gets its callback only when the PUIC connection is up    *)
(* (Proxy(this)), closes its socket by itself once both directions have    *)
(* ended, and is deleted either by Close() or by on_uv_close, whichever    *)
(* comes last.                                                             *)
(*                                                                         *)
(* AgentConn::close() calls m_callback->OnAgentConnClosed(), which neither *)
(* AgentConn::Callback nor ProxyJob declares.  OnClosedCleans chooses what *)
(* that call does: nothing, or clean() of the job.                         *)
(*                                                                         *)
(* Data is counted in 4 KiB units (LOWER = 1, UPPER = 2).                  *)
(***************************************************************************)
EXTENDS Naturals, Sequences

CONSTANTS
    SyncClose,      \* library calls may close the session re-entrantly
    OnClosedCleans, \* OnAgentConnClosed() runs ProxyJob::clean()
    MaxUp,          \* units the local client sends in total (bound)
    MaxDown,        \* units the proxy sends on the stream in total (bound)
    ReadChunk,      \* units one on_uv_read may deliver
    MaxDupFin,      \* retransmitted FIN frames (bound)
    LOWER,          \* PUICCONN_WRITEBUF_LOWER in units
    UPPER           \* PUICCONN_WRITEBUF_UPPER in units

ASSUME /\ SyncClose \in BOOLEAN /\ OnClosedCleans \in BOOLEAN
       /\ {MaxUp, MaxDown, ReadChunk, MaxDupFin, LOWER, UPPER} \subseteq Nat
       /\ ReadChunk >= 1 /\ LOWER < UPPER

VARIABLES
    \* ProxyJob of puicagent and ProxyManager::m_cleanJobs
    job,        \* "none" | "running" | "queued" | "deleted"
    fault,      \* "none" | "null_callback" | "stale_callback" | "freed_conn"
                \*        | "double_close"   (undefined behaviour, ghost)
    \* AgentConn and its libuv tcp handle
    conn,       \* "none" | "open" | "closing" | "closed" (m_uvclosed) | "freed"
    cb,         \* m_callback: "null" | "job"
    closed,     \* m_closed: the owner has called Close()
    reading,    \* m_reading
    readeof,    \* m_readeof
    writing,    \* m_writing
    writeof,    \* m_writeof
    shutReq,    \* a uv_shutdown request was accepted
    outQ,       \* libuv write queue of data [from, len] and fin requests
    \* the local TCP client
    cOff,       \* payload units the client has received
    cEof,       \* the client has seen the agent's FIN
    upAvail,    \* units the client sent that the agent has not read yet
    upEof,      \* the client has half-closed its sending side
    \* the PUIC client session (PuicClientConn) and its preset stream
    puic,       \* "none" | "connecting" | "open" | "closed"
    connData,   \* PUICCLIENT_ConnData: "job" | "null"
    dRecv,      \* units received on the stream
    consumed,   \* units marked consumed
    finRcvd,    \* the proxy's FIN arrived
    stopRd,     \* StopReading() was called
    dupFin,     \* retransmitted FIN frames delivered
    sendBuf,    \* WriteBufferedAmount(), in units
    upXmit,     \* units transmitted on the stream
    finW        \* the job wrote its FIN on the stream

jobVars == <<job, fault>>
connVars == <<conn, cb, closed, reading, readeof, writing, writeof, shutReq,
              outQ>>
clientVars == <<cOff, cEof, upAvail, upEof>>
puicVars == <<puic, connData, dRecv, consumed, finRcvd, stopRd, dupFin,
              sendBuf, upXmit, finW>>
vars == <<jobVars, connVars, clientVars, puicVars>>

Req == [kind : {"fin"}] \cup
       [kind : {"data"}, from : 0..MaxDown, len : 1..MaxDown]

UpTotal == upXmit + sendBuf + upAvail

TypeOK ==
    /\ job \in {"none", "running", "queued", "deleted"}
    /\ fault \in {"none", "null_callback", "stale_callback", "freed_conn",
                  "double_close"}
    /\ conn \in {"none", "open", "closing", "closed", "freed"}
    /\ cb \in {"null", "job"}
    /\ {closed, reading, readeof, writing, writeof, shutReq} \subseteq BOOLEAN
    /\ outQ \in Seq(Req)
    /\ cOff \in 0..MaxDown /\ {cEof, upEof} \subseteq BOOLEAN
    /\ upAvail \in 0..MaxUp /\ sendBuf \in 0..MaxUp /\ upXmit \in 0..MaxUp
    /\ puic \in {"none", "connecting", "open", "closed"}
    /\ connData \in {"job", "null"}
    /\ dRecv \in 0..MaxDown /\ consumed \in 0..dRecv
    /\ {finRcvd, stopRd, finW} \subseteq BOOLEAN
    /\ dupFin \in 0..MaxDupFin

\* A client connection is pending on the agent's listening socket.
Init ==
    /\ job = "none" /\ fault = "none"
    /\ conn = "none" /\ cb = "null" /\ closed = FALSE
    /\ reading = FALSE /\ readeof = FALSE /\ writing = FALSE
    /\ writeof = FALSE /\ shutReq = FALSE /\ outQ = <<>>
    /\ cOff = 0 /\ cEof = FALSE /\ upAvail = 0 /\ upEof = FALSE
    /\ puic = "none" /\ connData = "null"
    /\ dRecv = 0 /\ consumed = 0 /\ finRcvd = FALSE /\ stopRd = FALSE
    /\ dupFin = 0 /\ sendBuf = 0 /\ upXmit = 0 /\ finW = FALSE

(***************************************************************************)
(* Helpers for the job's calls.  Each names the variables it assigns.      *)
(***************************************************************************)

\* What ProxyJob::clean() assigns besides the write queue and fault.
cleanRest == <<job, conn, closed, puic, connData>>

\* Bug variant of clean(): the PUIC conn is not disconnected.
clean_keepSession ==
    IF job = "running"
    THEN /\ job' = "queued"
         /\ closed' = TRUE
         /\ conn' = CASE conn = "closed" -> "freed"
                      [] conn = "open"   -> "closing"
                      [] OTHER           -> conn
         /\ outQ' = IF conn = "open" THEN <<>> ELSE outQ
         /\ fault' = IF conn = "freed" THEN "freed_conn" ELSE fault
         /\ connData' = "null"
         /\ UNCHANGED puic
    ELSE UNCHANGED <<cleanRest, outQ, fault>>

\* ProxyJob::clean() of puicagent: stop the job, m_srcConn->Close() (mark
\* m_closed; delete the AgentConn if its handle is already closed, else
\* close() it: OnAgentConnClosed reaches a job that no longer runs, then
\* uv_close cancels the queued requests), then detach from the PUIC conn
\* and disconnect it, and queue the job on m_cleanJobs.
\* Assigns cleanRest, outQ and fault.
clean ==
    IF job = "running"
    THEN /\ job' = "queued"
         /\ closed' = TRUE
         /\ conn' = CASE conn = "closed" -> "freed"
                      [] conn = "open"   -> "closing"
                      [] OTHER           -> conn
         /\ outQ' = IF conn = "open" THEN <<>> ELSE outQ
         /\ fault' = IF conn = "freed" THEN "freed_conn" ELSE fault
         /\ connData' = "null"
         /\ puic' = IF puic \in {"connecting", "open"} THEN "closed" ELSE puic
    ELSE UNCHANGED <<cleanRest, outQ, fault>>

\* AgentConn::close() called by the connection itself once both m_readeof
\* and m_writeof are set.  It calls m_callback->OnAgentConnClosed() and
\* then uv_close.  When that callback cleans the running job, clean()
\* closes this connection re-entrantly and the outer close() then calls
\* uv_close on a handle that is already closing.
\* Assigns cleanRest, outQ and fault.
SelfClose ==
    IF conn # "open"
    THEN UNCHANGED <<cleanRest, outQ, fault>>
    ELSE IF cb = "job" /\ OnClosedCleans /\ job = "running"
    THEN /\ job' = "queued" /\ closed' = TRUE
         /\ conn' = "closing" /\ outQ' = <<>>
         /\ connData' = "null"
         /\ puic' = IF puic \in {"connecting", "open"} THEN "closed" ELSE puic
         /\ fault' = "double_close"
    ELSE /\ conn' = "closing" /\ outQ' = <<>>
         /\ fault' = IF cb = "job" /\ job = "deleted"
                     THEN "stale_callback" ELSE fault
         /\ UNCHANGED <<job, closed, puic, connData>>

\* Bug variant: the EOF test inverted.
StartRead_inverted ==
    reading' = (reading \/ readeof)

\* AgentConn::StartRead(): nothing once reading or after EOF; uv_read_start
\* on the open socket.  Assigns reading.
StartRead ==
    reading' = (reading \/ ~readeof)

\* AgentConn::StopRead().  Assigns reading.
StopRead ==
    reading' = (reading /\ readeof)

\* Bug variant: reading stopped only above the upper mark.
may_tcp_to_puic_gt(buffered) ==
    IF conn = "freed"
    THEN fault' = "freed_conn" /\ UNCHANGED reading
    ELSE /\ fault' = fault
         /\ \/ buffered > UPPER /\ StopRead
            \/ buffered <= LOWER /\ StartRead
            \/ LOWER < buffered /\ buffered <= UPPER /\ UNCHANGED reading

\* ProxyJob::may_tcp_to_puic(buffered) of puicagent; m_srcConn must still
\* be alive.  Assigns reading and fault.
may_tcp_to_puic(buffered) ==
    IF conn = "freed"
    THEN fault' = "freed_conn" /\ UNCHANGED reading
    ELSE /\ fault' = fault
         /\ \/ buffered >= UPPER /\ StopRead
            \/ buffered <= LOWER /\ StartRead
            \/ LOWER < buffered /\ buffered < UPPER /\ UNCHANGED reading

\* Bug variant: EOF reported as soon as the FIN arrived.
ReadableEOF_onFin(cons, recv, fin) == fin

\* PUICCLIENT_ConnReadableRegions: PUICLIERR_EOF when nothing is readable
\* and the sequencer is closed.
ReadableEOF(cons, recv, fin) == recv = cons /\ fin

\* PuicStream::IsEOF(): StopReading() once the sequencer is closed.
IsEOF(closedSeq) == stopRd' = (stopRd \/ closedSeq)

\* AgentConn::Write(bufs, len) of len units from offset from, onto write
\* queue q while m_writing is wr: nothing after m_writeof, else uv_write.
\* Assigns writing and outQ.
Write(q, wr, from, len) ==
    IF writeof
    THEN writing' = wr /\ outQ' = q
    ELSE /\ writing' = TRUE
         /\ outQ' = Append(q, [kind |-> "data", from |-> from, len |-> len])

\* AgentConn::Shutdown() onto write queue q: nothing after m_writeof;
\* else uv_shutdown, of which a second one, or one on a closing handle,
\* fails and is ignored.  Assigns shutReq, outQ, fault and cleanRest.
Shutdown(q) ==
    \/ /\ ~writeof /\ ~shutReq /\ conn = "open"
       /\ shutReq' = TRUE
       /\ outQ' = Append(q, [kind |-> "fin"])
       /\ fault' = fault
       /\ UNCHANGED cleanRest
    \/ /\ writeof \/ shutReq \/ conn # "open"
       /\ outQ' = q /\ fault' = fault
       /\ UNCHANGED <<shutReq, cleanRest>>

\* ProxyJob::may_puic_to_tcp() of puicagent, in a state where
\* m_srcConn->writing() is wr, cons of recv units are consumed, fin tells
\* whether the FIN arrived and q is the write queue.  AgentConn::Shutdown
\* and AgentConn::Write return early after m_writeof; a second uv_shutdown
\* fails and its result is ignored.
\* Assigns consumed, writing, outQ, stopRd, shutReq, fault and cleanRest.
may_puic_to_tcp(wr, cons, q, recv, fin) ==
    /\ consumed' = cons
    /\ IF conn = "freed"
       THEN /\ fault' = "freed_conn" /\ writing' = wr /\ outQ' = q
            /\ UNCHANGED <<stopRd, shutReq, cleanRest>>
       ELSE
       \/ /\ wr
          /\ writing' = wr /\ outQ' = q /\ fault' = fault
          /\ UNCHANGED <<stopRd, shutReq, cleanRest>>
       \/ /\ ~wr /\ recv = cons /\ ~ReadableEOF(cons, recv, fin)
          /\ IsEOF(FALSE)
          /\ writing' = wr /\ outQ' = q /\ fault' = fault
          /\ UNCHANGED <<shutReq, cleanRest>>
       \/ /\ ~wr /\ ReadableEOF(cons, recv, fin)
          /\ IsEOF(TRUE)
          /\ writing' = wr
          /\ \/ /\ SyncClose
                /\ UNCHANGED shutReq
                /\ clean
             \/ Shutdown(q)
       \/ /\ ~wr /\ recv > cons /\ ~ReadableEOF(cons, recv, fin)
          /\ \E len \in 1..(recv - cons) : Write(q, wr, cons, len)
          /\ fault' = fault
          /\ UNCHANGED <<stopRd, shutReq, cleanRest>>

(***************************************************************************)
(* Actions                                                                 *)
(***************************************************************************)

\* AgentServer::on_uv_connection -> AgentConn::Accept.  A failed uv_accept
\* closes the connection (m_closed, so on_uv_close deletes it).  Otherwise
\* client_handshaked -> ProxyManager::OnAgentConnAccept -> ProxyJob::Start:
\* PUICCLIENT_CreateConn (fails when the dialer cannot start) or
\* SetConnData + ConnConnect, whose first packet may fail and close the
\* session at once (OnDisconnected -> OnPUICConnErr -> clean).
OnUvConnection ==
    /\ conn = "none"
    /\ \/ /\ conn' = "closing" /\ closed' = TRUE
          /\ UNCHANGED <<job, puic, connData>>
       \/ /\ job' = "queued" /\ conn' = "closing" /\ closed' = TRUE
          /\ UNCHANGED <<puic, connData>>
       \/ /\ job' = "running" /\ conn' = "open" /\ puic' = "connecting"
          /\ connData' = "job"
          /\ UNCHANGED closed
       \/ /\ SyncClose
          /\ job' = "queued" /\ conn' = "closing" /\ closed' = TRUE
          /\ puic' = "closed" /\ UNCHANGED connData
    /\ UNCHANGED <<fault, cb, reading, readeof, writing, writeof, shutReq,
                   outQ, clientVars, dRecv, consumed, finRcvd, stopRd,
                   dupFin, sendBuf, upXmit, finW>>

\* PuicClientConn::OnHandshaked -> ProxyManager::OnPUICConnected ->
\* ProxyJob::OnPUICConnConnected: Proxy(this) installs m_callback, then
\* StartRead.
OnPUICConnected ==
    /\ puic = "connecting" /\ connData = "job"
    /\ puic' = "open"
    /\ cb' = "job"
    /\ StartRead
    /\ UNCHANGED <<jobVars, conn, closed, readeof, writing, writeof, shutReq,
                   outQ, clientVars, connData, dRecv, consumed, finRcvd,
                   stopRd, dupFin, sendBuf, upXmit, finW>>

\* A callback of AgentConn through m_callback: null before Proxy(this),
\* and a dangling job after Monitor deleted it.
CallbackFault ==
    IF cb = "null" THEN "null_callback" ELSE "stale_callback"

\* PUICCLIENT_ConnWrite(len): PuicStream::Write (WriteOrBufferData) appends the
\* n bytes to the stream's send buffer, which may send any part of it at
\* once; *buffered is WriteBufferedAmount(), what is left.  Its FinSent
\* refusal is never taken: the read callback delivers nothing after
\* UV_EOF, and the FIN is written only at EOF.
ConnWrite(n, buffered) ==
    /\ buffered <= sendBuf + n
    /\ sendBuf' = buffered
    /\ upXmit' = upXmit + sendBuf + n - buffered

\* PUICCLIENT_ConnMarkConsumed(len): PuicStream::MarkConsumed advances the
\* stream sequencer's consumed offset by len.
ConnMarkConsumed(len) == consumed + len

\* ProxyJob::OnAgentConnRcvd(len): PUICCLIENT_ConnWrite (may send part of
\* the buffer at once, or close the session), running() check, then
\* may_tcp_to_puic(buffered).
OnAgentConnRcvd(n) ==
    \/ /\ \E b \in 0..(sendBuf + n) :
            /\ ConnWrite(n, b)
            /\ may_tcp_to_puic(b)
       /\ UNCHANGED <<cleanRest, outQ>>
    \/ /\ SyncClose
       /\ clean
       /\ UNCHANGED <<sendBuf, upXmit, reading>>

\* AgentConn::on_uv_read with nread > 0.
TcpRead ==
    /\ conn = "open" /\ reading /\ ~readeof /\ upAvail > 0
    /\ \E n \in 1..ReadChunk :
         /\ n <= upAvail
         /\ upAvail' = upAvail - n
         /\ IF cb = "job" /\ job = "running"
            THEN OnAgentConnRcvd(n)
            ELSE /\ fault' = CallbackFault
                 /\ UNCHANGED <<sendBuf, upXmit, reading, cleanRest, outQ>>
    /\ UNCHANGED <<cb, readeof, writing, writeof, shutReq, cOff, cEof, upEof,
                   dRecv, consumed, finRcvd, stopRd, dupFin, finW>>

\* AgentConn::on_uv_read with UV_EOF: OnAgentConnEOF writes the FIN on
\* the stream (the write may close the session), then m_reading = false,
\* m_readeof = true and, if the write side is shut too, close().
TcpEof ==
    /\ conn = "open" /\ reading /\ ~readeof /\ upAvail = 0 /\ upEof
    /\ IF cb = "job" /\ job = "running"
       THEN /\ reading' = FALSE /\ readeof' = TRUE
            /\ \/ /\ finW' = TRUE
                  /\ IF writeof THEN SelfClose
                     ELSE UNCHANGED <<cleanRest, outQ, fault>>
               \/ /\ SyncClose
                  /\ clean
                  /\ UNCHANGED finW
       ELSE /\ fault' = CallbackFault
            /\ UNCHANGED <<reading, readeof, finW, cleanRest, outQ>>
    /\ UNCHANGED <<cb, writing, writeof, shutReq, clientVars, dRecv,
                   consumed, finRcvd, stopRd, dupFin, sendBuf, upXmit>>

\* Bug variant: MarkConsumed after the next may_puic_to_tcp.
OnAgentConnSent_consumeLate(len, q) ==
    may_puic_to_tcp(FALSE, consumed, q, dRecv, finRcvd)

\* Bug variant: the write completion does not pump more data.
OnAgentConnSent_noPump(len, q) ==
    /\ consumed' = consumed + len /\ writing' = FALSE /\ outQ' = q
    /\ UNCHANGED <<stopRd, shutReq, fault, cleanRest>>

\* ProxyJob::OnAgentConnSent(len): PUICCLIENT_ConnMarkConsumed (may close
\* the session), running() check, then may_puic_to_tcp.
OnAgentConnSent(len, q) ==
    \/ may_puic_to_tcp(FALSE, ConnMarkConsumed(len), q, dRecv, finRcvd)
    \/ /\ SyncClose
       /\ consumed' = ConnMarkConsumed(len) /\ writing' = FALSE
       /\ clean
       /\ UNCHANGED <<stopRd, shutReq>>

\* The head of the write queue completes.  on_uv_write clears m_writing
\* and calls OnAgentConnSent; on_uv_shutdown sets m_writeof and closes the
\* connection if the read side has ended too.
ClientRecv ==
    /\ conn = "open" /\ outQ # <<>>
    /\ LET h == Head(outQ)
           q == Tail(outQ)
       IN  IF h.kind = "data"
           THEN /\ cOff' = cOff + h.len
                /\ UNCHANGED <<cEof, writeof>>
                /\ IF cb = "job" /\ job = "running"
                   THEN OnAgentConnSent(h.len, q)
                   ELSE /\ fault' = CallbackFault
                        /\ writing' = FALSE /\ outQ' = q
                        /\ UNCHANGED <<consumed, stopRd, shutReq, cleanRest>>
           ELSE /\ cEof' = TRUE
                /\ writing' = FALSE /\ writeof' = TRUE
                /\ IF readeof THEN SelfClose
                   ELSE outQ' = q /\ UNCHANGED <<cleanRest, fault>>
                /\ UNCHANGED <<cOff, consumed, stopRd, shutReq>>
    /\ UNCHANGED <<cb, reading, readeof, upAvail, upEof, dRecv, finRcvd,
                   dupFin, sendBuf, upXmit, finW>>

\* Bug variant: a FIN-only frame raises no OnDataAvailable.
FinArrived_silent ==
    UNCHANGED <<writing, outQ, consumed, stopRd, shutReq, fault, cleanRest>>

\* QuicStreamSequencer::MaybeCloseStream on a FIN frame: once all data is
\* consumed, OnDataAvailable unless reading was stopped.
FinArrived ==
    IF consumed = dRecv /\ ~stopRd
    THEN may_puic_to_tcp(writing, consumed, outQ, dRecv, TRUE)
    ELSE UNCHANGED <<writing, outQ, consumed, stopRd, shutReq, fault,
                     cleanRest>>

\* Stream data: PuicStream::OnDataAvailable -> PuicClientConn::OnCanRead
\* -> ProxyManager::OnPUICanRead -> OnPUICConnCanRead -> may_puic_to_tcp.
PeerData ==
    /\ puic = "open" /\ connData = "job" /\ ~finRcvd /\ dRecv < MaxDown
    /\ dRecv' = dRecv + 1
    /\ may_puic_to_tcp(writing, consumed, outQ, dRecv + 1, FALSE)
    /\ UNCHANGED <<cb, reading, readeof, writeof, clientVars, finRcvd,
                   dupFin, sendBuf, upXmit, finW>>

PeerFin ==
    /\ puic = "open" /\ connData = "job" /\ ~finRcvd
    /\ finRcvd' = TRUE
    /\ FinArrived
    /\ UNCHANGED <<cb, reading, readeof, writeof, clientVars, dRecv, dupFin,
                   sendBuf, upXmit, finW>>

\* A retransmitted FIN; dropped once the read side is closed.
PeerDupFin ==
    /\ puic = "open" /\ connData = "job" /\ finRcvd /\ ~stopRd
    /\ dupFin < MaxDupFin
    /\ dupFin' = dupFin + 1
    /\ FinArrived
    /\ UNCHANGED <<cb, reading, readeof, writeof, clientVars, dRecv,
                   finRcvd, sendBuf, upXmit, finW>>

\* The session sends k buffered units; PuicStream::OnCanWrite ->
\* PuicClientConn::OnCanWrite -> OnPUICanWrite -> OnPUICConnCanWrite
\* unless the FIN is buffered.
StreamCanWrite ==
    /\ puic = "open" /\ sendBuf > 0
    /\ \E k \in 1..sendBuf :
         /\ sendBuf' = sendBuf - k
         /\ upXmit' = upXmit + k
         /\ IF finW \/ connData = "null"
            THEN UNCHANGED <<reading, fault>>
            ELSE may_tcp_to_puic(sendBuf - k)
    /\ UNCHANGED <<job, conn, cb, closed, readeof, writing, writeof, shutReq,
                   outQ, clientVars, puic, connData, dRecv, consumed, finRcvd,
                   stopRd, dupFin, finW>>

\* The handshake fails or times out (5 s): PuicClientConn::OnClosed ->
\* OnPUICDisconnected -> OnPUICConnErr -> clean.
HandshakeFailed ==
    /\ puic = "connecting" /\ connData = "job"
    /\ clean
    /\ UNCHANGED <<cb, reading, readeof, writing, writeof, shutReq,
                   clientVars, dRecv, consumed, finRcvd, stopRd, dupFin,
                   sendBuf, upXmit, finW>>

\* An established session closes (idle timeout, peer close, error).
SessionClosed ==
    /\ puic = "open" /\ connData = "job"
    /\ clean
    /\ UNCHANGED <<cb, reading, readeof, writing, writeof, shutReq,
                   clientVars, dRecv, consumed, finRcvd, stopRd, dupFin,
                   sendBuf, upXmit, finW>>

\* A TCP error on a pending read or write: OnAgentConnErr -> clean.
TcpError ==
    /\ conn = "open" /\ ((reading /\ ~readeof) \/ outQ # <<>>)
    /\ IF cb = "job" /\ job # "deleted"
       THEN clean
       ELSE fault' = CallbackFault /\ UNCHANGED <<cleanRest, outQ>>
    /\ UNCHANGED <<cb, reading, readeof, writing, writeof, shutReq,
                   clientVars, dRecv, consumed, finRcvd, stopRd, dupFin,
                   sendBuf, upXmit, finW>>

\* Bug variant: on_uv_close deletes the connection whether or not its
\* owner called Close().
OnUvClose_alwaysDelete ==
    /\ conn = "closing"
    /\ conn' = "freed"
    /\ cb' = "null"
    /\ reading' = FALSE /\ readeof' = TRUE
    /\ writing' = FALSE /\ writeof' = TRUE
    /\ UNCHANGED <<jobVars, closed, shutReq, outQ, clientVars, puicVars>>

\* AgentConn::on_uv_close: drop the callback, latch both directions as
\* ended, and delete the connection if its owner already called Close().
OnUvClose ==
    /\ conn = "closing"
    /\ conn' = IF closed THEN "freed" ELSE "closed"
    /\ cb' = "null"
    /\ reading' = FALSE /\ readeof' = TRUE
    /\ writing' = FALSE /\ writeof' = TRUE
    /\ UNCHANGED <<jobVars, closed, shutReq, outQ, clientVars, puicVars>>

\* ProxyManager::Monitor deletes the jobs in m_cleanJobs.
Monitor ==
    /\ job = "queued"
    /\ job' = "deleted"
    /\ UNCHANGED <<fault, connVars, clientVars, puicVars>>

\* The local client writes one unit, or half-closes its side.
ClientSend ==
    /\ conn = "open" /\ ~upEof /\ UpTotal < MaxUp
    /\ upAvail' = upAvail + 1
    /\ UNCHANGED <<jobVars, connVars, cOff, cEof, upEof, puicVars>>

ClientShutdown ==
    /\ conn = "open" /\ ~upEof
    /\ upEof' = TRUE
    /\ UNCHANGED <<jobVars, connVars, cOff, cEof, upAvail, puicVars>>

\* The connection is deleted and no job is left.
Terminated ==
    /\ conn = "freed" /\ job \in {"none", "deleted"}
    /\ UNCHANGED vars

Next ==
    \/ OnUvConnection \/ OnPUICConnected \/ TcpRead \/ TcpEof \/ ClientRecv
    \/ PeerData \/ PeerFin \/ PeerDupFin \/ StreamCanWrite
    \/ HandshakeFailed \/ SessionClosed \/ TcpError \/ OnUvClose \/ Monitor
    \/ ClientSend \/ ClientShutdown \/ Terminated

\* The loop dispatches ready events; the handshake either completes or
\* times out; peers, errors and the idle timeout get no fairness.
Fairness ==
    /\ WF_vars(OnUvConnection) /\ WF_vars(OnPUICConnected \/ HandshakeFailed)
    /\ WF_vars(TcpRead) /\ WF_vars(TcpEof) /\ WF_vars(ClientRecv)
    /\ WF_vars(StreamCanWrite) /\ WF_vars(OnUvClose) /\ WF_vars(Monitor)

Spec == Init /\ [][Next]_vars /\ Fairness

(***************************************************************************)
(* Properties                                                              *)
(***************************************************************************)

RECURSIVE DataIn(_)
DataIn(s) ==
    IF s = <<>> THEN 0
    ELSE (IF Head(s).kind = "data" THEN Head(s).len ELSE 0) + DataIn(Tail(s))

\* The local client receives the proxy's bytes exactly once and in order:
\* each queued write starts where the delivered and earlier queued bytes end.
DownstreamInOrder ==
    \A i \in 1..Len(outQ) :
        outQ[i].kind = "data" =>
            outQ[i].from = cOff + DataIn(SubSeq(outQ, 1, i - 1))

\* The client sees the agent's FIN only after every byte of the stream.
EofAfterAllData ==
    cEof => (finRcvd /\ cOff = dRecv)

\* may_tcp_to_puic bounds what the agent buffers on the stream.
SendBufBounded ==
    sendBuf <= UPPER - 1 + ReadChunk

\* No undefined behaviour between job and connection: no AgentConn callback
\* through a null m_callback or into a deleted job, no call into a deleted
\* AgentConn (it is deleted by whichever of Close() and on_uv_close comes
\* last), and no second uv_close from AgentConn::close().
NoUseAfterFree ==
    fault = "none"

\* Every unit the proxy sends reaches the client unless the tunnel closes.
DownDelivered ==
    \A n \in 1..MaxDown : (dRecv >= n) ~> (cOff >= n \/ job # "running")

\* The proxy's FIN reaches the client unless the tunnel closes.
DownEofDelivered ==
    finRcvd ~> (cEof \/ job # "running")

\* Every unit the client sends is transmitted unless the tunnel closes.
UpDelivered ==
    \A n \in 1..MaxUp : (UpTotal >= n) ~> (upXmit >= n \/ job # "running")

\* The tunnel the agent's job implements.  Down: the proxy's units as they
\* reach the stream (dRecv) and the local client (cOff), the proxy's FIN
\* and the client's EOF.  Up: the units the agent has read from the client
\* and written to the stream, the ones the stream has transmitted, the
\* client's EOF as OnAgentConnEOF passes it on (the FIN the job writes;
\* m_readeof is no witness, on_uv_close sets it too), and that FIN once
\* the stream has transmitted the rest.  The tunnel is open until clean().
Tun == INSTANCE Tunnel WITH
    open <- job \in {"none", "running"},
    dSent <- dRecv, dRcvd <- cOff, dFin <- finRcvd, dFinRcvd <- cEof,
    uSent <- upXmit + sendBuf, uRcvd <- upXmit, uFin <- finW,
    uFinRcvd <- finW /\ sendBuf = 0

\* The agent's job implements the tunnel of spec 8.1 as the proxy's does:
\* each end gets a prefix of what the other sent, the EOF last, and nothing
\* moves once the job is cleaned, although AgentConn may close itself
\* (both EOF latches set) while the job still runs, and Close() and
\* on_uv_close may come in either order.
TunnelSpec == Tun!Spec
=============================================================================
