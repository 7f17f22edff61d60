------------------------------- MODULE Server -------------------------------
(***************************************************************************)
(* One puicproxy worker seen from its PUIC listener: the ProxyManager of   *)
(* src/puicproxy/src/puic_proxy.cc with its deferred-delete queue          *)
(* (m_cleanJobs), the PuicListener of src/puicserver/src/puic_server.cc    *)
(* with its UDP socket and pool of MaxFlyingMessages send requests, the    *)
(* PuicServerConn it creates for each new session, and the worker's life   *)
(* in _proxy_main (Start, uv_run, SIGTERM, Stop, the second uv_run).       *)
(*                                                                         *)
(* Sessions are model values.  A ProxyJob is reduced to whether it runs    *)
(* and whether its backend TCPConn is open or closing (ProxyBridge models  *)
(* one job in full).  The QUIC library's dispatcher and sessions are the   *)
(* environment: a session may start, complete its handshake, write a       *)
(* packet or close at any time; when the listener becomes writable,        *)
(* QuicDispatcher::OnCanWrite makes every blocked session writable again.  *)
(***************************************************************************)
EXTENDS Naturals, FiniteSets

CONSTANTS
    Sessions,       \* the QUIC sessions a run accepts (once each)
    N,              \* MaxFlyingMessages
    MaxSends,       \* packets the sessions write in a run, at most
    SyncSendFail    \* whether uv_udp_send may fail synchronously

ASSUME N \in Nat \ {0} /\ MaxSends \in Nat /\ SyncSendFail \in BOOLEAN

VARIABLES
    phase,          \* the worker: "init", "running" (first uv_run),
                    \* "stopping" (second uv_run), "stopped", "failed"
    writeBlocked,   \* PuicListener::m_writeBlocked
    pool,           \* m_availSendReqs.size()
    inflight,       \* uv_udp_send requests on the open socket
    orphaned,       \* requests on the socket Stop() has closed
    sess,           \* QUIC session: "none", "handshaking", "open", "closed"
    sconn,          \* its PuicServerConn: "none", "live", "deleted"
    handshaked,     \* PuicServerConn::m_handshaked
    blockedW,       \* sessions whose PuicPerSessionWriter is blocked_
    job,            \* ProxyJob: "none", "running", "cleaned", "deleted"
    tcp,            \* its TCPConn: "none", "open", "closing", "closed"
    cleanJobs,      \* ProxyManager::m_cleanJobs
    dispTimer,      \* the uv timer of the dispatcher's BufferedSessionsAlarm
                    \* (a PuicUVAlarm): "none", "armed", "closing", "closed"
    sends           \* packets written so far (bound)

vars == <<phase, writeBlocked, pool, inflight, orphaned, sess, sconn,
          handshaked, blockedW, job, tcp, cleanJobs, dispTimer, sends>>

Active == {s \in Sessions : sess[s] \in {"handshaking", "open"}}

TypeOK ==
    /\ phase \in {"init", "running", "stopping", "stopped", "failed"}
    /\ writeBlocked \in BOOLEAN
    /\ pool \in 0..N /\ inflight \in 0..N /\ orphaned \in 0..N
    /\ sess \in [Sessions -> {"none", "handshaking", "open", "closed"}]
    /\ sconn \in [Sessions -> {"none", "live", "deleted"}]
    /\ handshaked \in [Sessions -> BOOLEAN]
    /\ blockedW \subseteq Active
    /\ job \in [Sessions -> {"none", "running", "cleaned", "deleted"}]
    /\ tcp \in [Sessions -> {"none", "open", "closing", "closed"}]
    /\ cleanJobs \subseteq Sessions
    /\ dispTimer \in {"none", "armed", "closing", "closed"}
    /\ sends \in 0..MaxSends

\* ProxyManager constructed, PuicListener not yet created: its constructor
\* fills the pool and leaves m_writeBlocked set until Start.
Init ==
    /\ phase = "init"
    /\ writeBlocked = TRUE /\ pool = N /\ inflight = 0 /\ orphaned = 0
    /\ sess = [s \in Sessions |-> "none"]
    /\ sconn = [s \in Sessions |-> "none"]
    /\ handshaked = [s \in Sessions |-> FALSE]
    /\ blockedW = {}
    /\ job = [s \in Sessions |-> "none"]
    /\ tcp = [s \in Sessions |-> "none"]
    /\ cleanJobs = {}
    /\ dispTimer = "none"
    /\ sends = 0

(***************************************************************************)
(* Helpers                                                                 *)
(***************************************************************************)

\* Bug variant: WritePacket without the m_availSendReqs.empty() test.
WriteOutcomes_noEmptyCheck ==
    IF writeBlocked THEN {"blocked"}
    ELSE IF SyncSendFail THEN {"ok", "error"} ELSE {"ok"}

\* The outcomes of PuicListener::WritePacket: BLOCKED when latched or when
\* the stack is empty (which latches it); otherwise a request is popped
\* and uv_udp_send either queues it or fails at once.
WriteOutcomes ==
    IF writeBlocked \/ pool = 0 THEN {"blocked"}
    ELSE IF SyncSendFail THEN {"ok", "error"} ELSE {"ok"}

\* ProxyJob::clean of the running jobs in js: clear the conn's data,
\* PUICSERVER_ConnDisconnect (the session closes), Close the TCPConn and
\* JobToClean.  Assigns job, tcp and cleanJobs.
clean(js) ==
    /\ job' = [s \in Sessions |-> IF s \in js THEN "cleaned" ELSE job[s]]
    /\ tcp' = [s \in Sessions |-> IF s \in js THEN "closing" ELSE tcp[s]]
    /\ cleanJobs' = cleanJobs \cup js

\* ProxyManager::OnPUICDisconnected for the conns ss reaches a job only
\* through a non-null ConnData (a running job; clean clears it) and
\* OnPUICConnErr cleans it.  The jobs it cleans.
Notified(ss) == {s \in ss : job[s] = "running"}

\* The sessions in ss close: PuicServerConn::OnClosed runs for each.  One
\* that never handshaked returns at once; the others report
\* OnDisconnected, which cleans the job still attached as the conn's
\* data, and then delete themselves.  Assigns sess, sconn, blockedW, job,
\* tcp and cleanJobs.
OnClosed(ss) ==
    /\ sess' = [s \in Sessions |-> IF s \in ss THEN "closed" ELSE sess[s]]
    /\ sconn' = [s \in Sessions |->
                   IF s \in ss /\ handshaked[s] THEN "deleted" ELSE sconn[s]]
    /\ blockedW' = blockedW \ ss
    /\ clean(Notified({s \in ss : handshaked[s]}))

\* PUICSERVER_ConnDisconnect: session->Close() closes the QUIC connection
\* at once, so PuicServerConn::OnClosed runs inside the call.
ConnDisconnect(ss) == OnClosed(ss)

\* PuicDispatcher::Close: QuicDispatcher::Shutdown closes every session
\* still in the session map, then the buffered-sessions alarm is
\* cancelled (the listener deletes the dispatcher right after).
DispatcherClose == OnClosed(Active)

\* PuicDispatcher::OnTransportCanWrite -> QuicDispatcher::OnCanWrite:
\* every session in the write-blocked list gets OnCanWrite and its
\* per-session writer is unblocked.  Assigns blockedW.
OnTransportCanWrite == blockedW' = {}

\* PuicDispatcher::CreateQuicSession: a QuicConnection with its own
\* PuicPerSessionWriter and a PuicServerSession; the delegate
\* (PuicListener::OnNewSession) creates the PuicServerConn, then
\* StartCryptoHandshake, which does nothing on the server.  Assigns sess
\* and sconn.
CreateQuicSession(s) ==
    /\ sess' = [sess EXCEPT ![s] = "handshaking"]
    /\ sconn' = [sconn EXCEPT ![s] = "live"]

\* ProxyJob's constructor sets itself as the conn's data; ProxyJob::Start
\* sets m_running and TCPConn::Start begins connecting to the backend.
\* Assigns job and tcp.
ProxyJobStart(s) ==
    /\ job' = [job EXCEPT ![s] = "running"]
    /\ tcp' = [tcp EXCEPT ![s] = "open"]

\* ProxyManager::OnPUICAccept: a new ProxyJob for the conn is started.
OnPUICAccept(s) == ProxyJobStart(s)

\* PuicListener::WritePacket with outcome st.  Assigns writeBlocked, pool
\* and inflight.
WritePacket(st) ==
    /\ writeBlocked' = (writeBlocked \/ pool = 0)
    /\ pool' = IF st = "blocked" THEN pool ELSE pool - 1
    /\ inflight' = IF st = "ok" THEN inflight + 1 ELSE inflight

\* PuicUVAlarm::SetImpl: the first Set allocates and initialises the uv
\* timer, and every Set (re)starts it for the delay to the deadline.
\* Assigns dispTimer.
SetImpl == dispTimer' = "armed"

\* PuicUVAlarm::~PuicUVAlarm: a timer that was ever set is uv_close()d,
\* which stops it, and freed by the close callback.  Assigns dispTimer.
DeleteAlarm == dispTimer' = IF dispTimer = "none" THEN "none" ELSE "closing"

\* PuicDispatcher::ProcessBufferedSessions: create sessions for buffered
\* CHLOs (NewSession) and re-arm the BufferedSessionsAlarm for 100ms.
ProcessBufferedSessions == SetImpl

\* CreatePuicDispatcher: the QuicConfig, the crypto config and the
\* dispatcher, whose buffered-sessions processing starts at once.
CreatePuicDispatcher == ProcessBufferedSessions

(***************************************************************************)
(* Worker and listener                                                     *)
(***************************************************************************)

\* PuicListener::Start with bind and recv_start succeeding (ok) or not: a
\* failure closes the new socket and returns PUISRVERR_UDP; success clears
\* m_writeBlocked, enlarges the socket buffers, sets the callbacks and
\* creates the dispatcher.  Assigns writeBlocked.
ListenerStart(ok) ==
    /\ writeBlocked' = ~ok
    /\ IF ok THEN CreatePuicDispatcher ELSE UNCHANGED dispTimer

\* ProxyManager::Start: PUICSERVER_CreateListener and
\* PUICSERVER_ListenerStart; a failure closes the listener and _proxy_main
\* returns 1.
Start ==
    /\ phase = "init"
    /\ \E ok \in BOOLEAN :
         /\ ListenerStart(ok)
         /\ phase' = IF ok THEN "running" ELSE "failed"
    /\ UNCHANGED <<pool, inflight, orphaned, sess, sconn, handshaked,
                   blockedW, job, tcp, cleanJobs, sends>>

\* Bug variant: the callbacks cleared before the dispatcher is closed, so
\* the sessions close without OnDisconnected reaching their jobs.
ListenerStop_callbacksFirst ==
    /\ writeBlocked' = TRUE
    /\ orphaned' = orphaned + inflight /\ inflight' = 0
    /\ sess' = [s \in Sessions |-> IF s \in Active THEN "closed" ELSE sess[s]]
    /\ sconn' = [s \in Sessions |->
                   IF s \in Active /\ handshaked[s] THEN "deleted" ELSE sconn[s]]
    /\ blockedW' = {}
    /\ DeleteAlarm
    /\ UNCHANGED <<job, tcp, cleanJobs>>

\* PuicListener::Stop: uv_close on the socket (pending sends will be
\* called back on a closing handle) and m_writeBlocked, then
\* PuicDispatcher::Close shuts every session down while the callbacks are
\* still set, the dispatcher is deleted with its alarm, and only then are
\* the callbacks cleared.  Assigns writeBlocked, orphaned, inflight, sess,
\* sconn, blockedW, job, tcp, cleanJobs and dispTimer.
ListenerStop ==
    /\ writeBlocked' = TRUE
    /\ orphaned' = orphaned + inflight /\ inflight' = 0
    /\ DispatcherClose
    /\ DeleteAlarm

\* PUICSERVER_ListenerClose: PuicListener::Stop, then delete.
ListenerClose == ListenerStop

\* SIGTERM ends the first uv_run; ProxyManager::Stop ->
\* PUICSERVER_ListenerClose: PuicListener::Stop, then the listener is
\* deleted.  _proxy_main stops the monitor and the signal handlers and
\* enters its second uv_run.
Stop ==
    /\ phase = "running"
    /\ phase' = "stopping"
    /\ ListenerClose
    /\ UNCHANGED <<pool, handshaked, sends>>

\* Bug variant: the stack size tested before the request is pushed back.
SendDone_testFirst ==
    /\ inflight > 0
    /\ inflight' = inflight - 1 /\ pool' = pool + 1
    /\ IF writeBlocked /\ pool = N
         THEN writeBlocked' = FALSE /\ blockedW' = {}
         ELSE UNCHANGED <<writeBlocked, blockedW>>
    /\ UNCHANGED <<phase, dispTimer, orphaned, sess, sconn, handshaked, job, tcp,
                   cleanJobs, sends>>

\* PuicListener::on_uv_send on the open socket: push the request back;
\* if m_writeBlocked and the stack is full again, clear it and
\* PuicDispatcher::OnTransportCanWrite, which lets every blocked session
\* write again.
SendDone ==
    /\ inflight > 0
    /\ inflight' = inflight - 1 /\ pool' = pool + 1
    /\ IF writeBlocked /\ pool + 1 = N
         THEN writeBlocked' = FALSE /\ OnTransportCanWrite
         ELSE UNCHANGED <<writeBlocked, blockedW>>
    /\ UNCHANGED <<phase, dispTimer, orphaned, sess, sconn, handshaked, job, tcp,
                   cleanJobs, sends>>

\* PuicListener::on_uv_send on the closing socket: the request is freed.
OrphanDone ==
    /\ orphaned > 0
    /\ orphaned' = orphaned - 1
    /\ UNCHANGED <<phase, dispTimer, writeBlocked, pool, inflight, sess, sconn,
                   handshaked, blockedW, job, tcp, cleanJobs, sends>>

\* The close callback of the deleted alarm's timer frees it.
TimerClosed ==
    /\ dispTimer = "closing"
    /\ dispTimer' = "closed"
    /\ UNCHANGED <<phase, writeBlocked, pool, inflight, orphaned, sess,
                   sconn, handshaked, blockedW, job, tcp, cleanJobs, sends>>

\* ProxyManager::Monitor, a uv_prepare callback each loop turn until
\* Stop: delete every job in m_cleanJobs.
Monitor ==
    /\ phase = "running"
    /\ cleanJobs # {}
    /\ job' = [s \in Sessions |-> IF s \in cleanJobs THEN "deleted"
                                  ELSE job[s]]
    /\ cleanJobs' = {}
    /\ UNCHANGED <<phase, dispTimer, writeBlocked, pool, inflight, orphaned, sess,
                   sconn, handshaked, blockedW, tcp, sends>>

\* The second uv_run returns once no handle is active: every TCPConn has
\* been closed, the closing UDP socket has no send left and the deleted
\* alarm's timer has been closed.
Exit ==
    /\ phase = "stopping"
    /\ orphaned = 0
    /\ \A s \in Sessions : tcp[s] \in {"none", "closed"}
    /\ dispTimer # "closing"
    /\ phase' = "stopped"
    /\ UNCHANGED <<writeBlocked, pool, inflight, orphaned, sess, sconn,
                   handshaked, blockedW, job, tcp, cleanJobs, dispTimer,
                   sends>>

(***************************************************************************)
(* Sessions                                                                *)
(***************************************************************************)

\* A datagram from a new client: on_uv_recv -> OnTransportReceived ->
\* ProcessUdpPacket -> CreateQuicSession -> PuicListener::OnNewSession:
\* a new PuicServerConn becomes the session's delegate and OnPreAccept
\* is reported; the crypto handshake starts.
NewSession(s) ==
    /\ phase = "running" /\ sess[s] = "none"
    /\ CreateQuicSession(s)
    /\ UNCHANGED <<phase, dispTimer, writeBlocked, pool, inflight, orphaned,
                   handshaked, blockedW, job, tcp, cleanJobs, sends>>

\* Bug variant: OnHandshaked without m_handshaked = true.
Handshaked_noFlag(s) ==
    /\ phase = "running" /\ sess[s] = "handshaking"
    /\ sess' = [sess EXCEPT ![s] = "open"]
    /\ UNCHANGED handshaked
    /\ OnPUICAccept(s)
    /\ UNCHANGED <<phase, dispTimer, writeBlocked, pool, inflight, orphaned, sconn,
                   blockedW, cleanJobs, sends>>

\* PuicServerConn::OnHandshaked: the preset stream's delegate, the peer's
\* name, m_handshaked, then the OnAccept callback (OnPUICAccept).
Handshaked(s) ==
    /\ phase = "running" /\ sess[s] = "handshaking"
    /\ sess' = [sess EXCEPT ![s] = "open"]
    /\ handshaked' = [handshaked EXCEPT ![s] = TRUE]
    /\ OnPUICAccept(s)
    /\ UNCHANGED <<phase, dispTimer, writeBlocked, pool, inflight, orphaned, sconn,
                   blockedW, cleanJobs, sends>>

\* A session whose writer is not blocked writes a packet (handshake, data,
\* ack, retransmission): PuicPerSessionWriter::WritePacket ->
\* PuicListener::WritePacket.  BLOCKED marks the per-session writer
\* blocked; WRITE_STATUS_ERROR makes QuicConnection close silently.
SessionWrite(s) ==
    /\ phase = "running" /\ s \in Active /\ s \notin blockedW
    /\ sends < MaxSends
    /\ sends' = sends + 1
    /\ \E st \in WriteOutcomes :
         /\ WritePacket(st)
         /\ CASE st = "ok" ->
                   UNCHANGED <<sess, sconn, blockedW, job, tcp, cleanJobs>>
              [] st = "blocked" ->
                   /\ blockedW' = blockedW \cup {s}
                   /\ UNCHANGED <<sess, sconn, job, tcp, cleanJobs>>
              [] st = "error" -> OnClosed({s})
    /\ UNCHANGED <<phase, dispTimer, orphaned, handshaked>>

\* The session closes: handshake or idle timeout, the peer's
\* CONNECTION_CLOSE, a protocol error.
SessionClose(s) ==
    /\ phase = "running" /\ s \in Active
    /\ OnClosed({s})
    /\ UNCHANGED <<phase, dispTimer, writeBlocked, pool, inflight, orphaned,
                   handshaked, sends>>

\* ProxyJob::OnTCPConnErr (connect, read, write or shutdown error on the
\* backend): clean -> PUICSERVER_ConnDisconnect closes the session, whose
\* OnClosed finds the data cleared and deletes the PuicServerConn.  The
\* backend connection can fail in either uv_run.
TcpError(s) ==
    /\ job[s] = "running" /\ tcp[s] = "open"
    /\ ConnDisconnect({s})
    /\ UNCHANGED <<phase, dispTimer, writeBlocked, pool, inflight, orphaned,
                   handshaked, sends>>

\* TCPConn::on_uv_close after Close: the backend connection is gone.
TcpClosed(s) ==
    /\ tcp[s] = "closing"
    /\ tcp' = [tcp EXCEPT ![s] = "closed"]
    /\ UNCHANGED <<phase, dispTimer, writeBlocked, pool, inflight, orphaned, sess,
                   sconn, handshaked, blockedW, job, cleanJobs, sends>>

\* The worker has returned.
Terminated ==
    /\ phase \in {"stopped", "failed"}
    /\ UNCHANGED vars

Next ==
    \/ Start \/ Stop \/ SendDone \/ OrphanDone \/ TimerClosed \/ Monitor
    \/ Exit
    \/ Terminated
    \/ \E s \in Sessions :
         \/ NewSession(s) \/ Handshaked(s) \/ SessionWrite(s)
         \/ SessionClose(s) \/ TcpError(s) \/ TcpClosed(s)

\* The loop delivers send completions, close callbacks and the monitor;
\* the worker starts and exits on its own.  Clients, the backend, QUIC
\* timeouts and the stop signal get no fairness.
Fairness ==
    /\ WF_vars(Start) /\ WF_vars(SendDone) /\ WF_vars(OrphanDone)
    /\ WF_vars(TimerClosed)
    /\ WF_vars(Monitor) /\ WF_vars(Exit)
    /\ \A s \in Sessions : WF_vars(TcpClosed(s))

Spec == Init /\ [][Next]_vars /\ Fairness

(***************************************************************************)
(* Properties                                                              *)
(***************************************************************************)

\* Spec invariant 6: while the listener's socket is open, every request is
\* either in m_availSendReqs or attached to a send in flight
\* (PuicListener::WritePacket, on_uv_send).
PoolAccounting == phase = "running" => pool + inflight = N

\* No job outlives its tunnel: a session that has closed has no running
\* ProxyJob, so no backend TCP connection stays open for a client that is
\* gone (PuicServerConn::OnClosed -> OnPUICDisconnected -> clean).
NoOrphanJob == \A s \in Sessions : sess[s] = "closed" => job[s] # "running"

\* A request is gone for good: while the socket is open, the stack and
\* the sends in flight hold fewer than MaxFlyingMessages requests.
RequestLost == phase = "running" /\ pool + inflight < N

\* A session whose writer the listener blocked is eventually writable
\* again or closed, unless a request has been lost: on_uv_send clears
\* m_writeBlocked and calls OnTransportCanWrite only when the stack is
\* full again, which a lost request makes impossible, so losing one is
\* the only way a blocked session may sleep for ever.
BlockedSessionWoken ==
    \A s \in Sessions : (s \in blockedW) ~> (s \notin blockedW \/ RequestLost)

\* After SIGTERM the worker's second uv_run returns: Stop closes every
\* session, every job's TCPConn and the socket (_proxy_main, Stop).
WorkerQuits == (phase = "stopping") ~> (phase = "stopped")

\* Spec section 1: resources are reclaimed on any failure; the
\* PuicServerConn that OnNewSession allocated is deleted once its session
\* has closed while the worker serves (PuicServerConn::OnClosed).
ServerConnReclaimed ==
    \A s \in Sessions :
        (phase = "running" /\ sess[s] = "closed") ~> (sconn[s] = "deleted")

=============================================================================
