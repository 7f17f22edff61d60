------------------------------- MODULE Agent -------------------------------
(***************************************************************************)
(* One puicagent worker seen from its dialer: the ProxyManager of          *)
(* src/puicagent/src/puic_agent.cc with its deferred-delete queue, the     *)
(* AgentServer and AgentConn accept path of agent_server.cc, and the       *)
(* PuicDialer of src/puicclient/src/puic_client.cc with its m_conns,       *)
(* m_closedConns, DeleteConnsAlarm and the stop-when-idle / restart-on-    *)
(* CreateConn cycle, plus the worker's life in proxy_main.cc.              *)
(*                                                                         *)
(* Clients are model values; each is accepted at most once and gets one   *)
(* ProxyJob and one PuicClientConn.  The job's data plane is left to       *)
(* AgentBridge (one tunnel in full) and the send pool to Dialer: here an   *)
(* AgentConn is open, closing or closed, and a session is handshaking,     *)
(* open, closed (in m_closedConns) or freed.  The QUIC library is the      *)
(* environment: a datagram routed by dispatch may complete the handshake   *)
(* or carry the peer's close, and a session may time out at any time.     *)
(***************************************************************************)
EXTENDS Naturals, FiniteSets

CONSTANTS
    Clients,        \* the TCP clients a run accepts (once each)
    StartMayFail    \* whether PuicDialer::start() may fail (UDP bind)

ASSUME StartMayFail \in BOOLEAN

VARIABLES
    \* worker and ProxyManager
    phase,          \* "init", "running" (first uv_run), "stopping" (second
                    \* uv_run), "stopped", "failed"
    listening,      \* AgentServer's listener is open (not uv_is_closing)
    cleanJobs,      \* ProxyManager::m_cleanJobs
    \* PuicDialer
    dialer,         \* "up": m_cryptoConfig set and socket open; "down"
    alarm,          \* m_deleteConnsAlarm is armed
    \* per client
    tcp,            \* its AgentConn: "none", "open", "closing", "closed"
    job,            \* its ProxyJob: "none", "running", "cleaned", "deleted"
    conn,           \* its PuicClientConn: "none", "handshaking", "open"
                    \* (both in m_conns), "closed" (m_closedConns), "freed"
    data,           \* PUICCLIENT_ConnData(conn) is the job
    proxied         \* AgentConn::Proxy(job) and StartRead have run

vars == <<phase, listening, cleanJobs, dialer, alarm, tcp, job, conn, data,
          proxied>>

LiveStates == {"handshaking", "open"}

\* The conns in PuicDialer::m_conns.
Live == {c \in Clients : conn[c] \in LiveStates}

\* The conns in PuicDialer::m_closedConns.
ClosedList == {c \in Clients : conn[c] = "closed"}

\* A UDP datagram as dispatch sees it: whether the public flags carry the
\* 8-byte connection id, its length, and the client whose id it carries.
Packets == [flags8 : BOOLEAN, len : {1, 9}, to : Clients]

NoId == "no_id"

TypeOK ==
    /\ phase \in {"init", "running", "stopping", "stopped", "failed"}
    /\ listening \in BOOLEAN
    /\ cleanJobs \subseteq {c \in Clients : job[c] = "cleaned"}
    /\ dialer \in {"up", "down"}
    /\ alarm \in BOOLEAN
    /\ tcp \in [Clients -> {"none", "open", "closing", "closed"}]
    /\ job \in [Clients -> {"none", "running", "cleaned", "deleted"}]
    /\ conn \in [Clients -> {"none", "handshaking", "open", "closed", "freed"}]
    /\ data \in [Clients -> BOOLEAN]
    /\ proxied \in [Clients -> BOOLEAN]

\* ProxyManager constructed: no dialer yet, listener not started.
Init ==
    /\ phase = "init"
    /\ listening = FALSE
    /\ cleanJobs = {}
    /\ dialer = "down"
    /\ alarm = FALSE
    /\ tcp = [c \in Clients |-> "none"]
    /\ job = [c \in Clients |-> "none"]
    /\ conn = [c \in Clients |-> "none"]
    /\ data = [c \in Clients |-> FALSE]
    /\ proxied = [c \in Clients |-> FALSE]

(***************************************************************************)
(* Helpers                                                                 *)
(***************************************************************************)

\* ReadPuicSessionId: the first byte is the public flags; with the 8-byte
\* connection id flag set, the next 8 bytes are the id; otherwise, or when
\* the datagram is too short, 0.
ReadPuicSessionId(p) ==
    IF p.flags8 /\ p.len >= 9 THEN p.to ELSE NoId

\* Bug variant: clean without m_srcConn->Close().
clean_keepSrc(js) ==
    /\ job' = [c \in Clients |-> IF c \in js THEN "cleaned" ELSE job[c]]
    /\ tcp' = tcp
    /\ data' = [c \in Clients |-> IF c \in js THEN FALSE ELSE data[c]]
    /\ cleanJobs' = cleanJobs \cup js

\* ProxyJob::clean of the jobs js: m_running cleared, the AgentConn
\* Close()d (it has not closed itself in this model, so close() runs
\* uv_close), the conn's data cleared, PUICCLIENT_ConnDisconnect (the
\* caller closes that session), JobToClean.  Assigns job, tcp, data and
\* cleanJobs.
clean(js) ==
    /\ job' = [c \in Clients |-> IF c \in js THEN "cleaned" ELSE job[c]]
    /\ tcp' = [c \in Clients |-> IF c \in js THEN "closing" ELSE tcp[c]]
    /\ data' = [c \in Clients |-> IF c \in js THEN FALSE ELSE data[c]]
    /\ cleanJobs' = cleanJobs \cup js

\* Bug variant: PuicClientConn::OnClosed without the OnDisconnected call.
Notified_none(cs) == {}

\* PuicClientConn::OnClosed for the sessions cs reports OnDisconnected;
\* ProxyManager::OnPUICDisconnected reaches the job only through a
\* non-null ConnData, and OnPUICConnErr cleans it.  The jobs it cleans.
Notified(cs) == {c \in cs : data[c] /\ job[c] = "running"}

\* PuicDialer::OnConnClosed for the conns cs: the first one pushed onto an
\* empty m_closedConns arms the DeleteConnsAlarm for now; each moves from
\* m_conns to m_closedConns.  Assigns conn and alarm.
OnConnClosed(cs) ==
    /\ conn' = [c \in Clients |-> IF c \in cs THEN "closed" ELSE conn[c]]
    /\ alarm' = (alarm \/ (cs # {} /\ ClosedList = {}))

\* The sessions cs close (PuicSessionBase::OnConnectionClosed): for each,
\* PuicClientConn::OnClosed notifies the job, then the dialer.
SessionsClose(cs) ==
    /\ clean(Notified(cs))
    /\ OnConnClosed(cs)

\* PUICCLIENT_ConnDisconnect -> PuicSessionBase::Close: the connection
\* closes at once and OnConnectionClosed -> PuicClientConn::OnClosed runs
\* inside the call; the caller has cleared the ConnData, so only the
\* dialer hears of it.  Assigns conn and alarm.
ConnDisconnect(cs) == OnConnClosed(cs)

\* PuicDialer::start(), from Start or from CreateConn after an idle stop:
\* the outcomes.  A started dialer has a fresh, unarmed alarm.
StartOutcomes == IF StartMayFail THEN BOOLEAN ELSE {TRUE}

\* PuicDialer::stop() when a DeleteConnsAlarm finds m_conns empty: close
\* the socket, cancel the alarm, free m_closedConns, drop the crypto
\* config.  Assigns dialer, alarm and conn.
stop ==
    /\ dialer' = "down"
    /\ alarm' = FALSE
    /\ conn' = [c \in Clients |-> IF conn[c] = "closed" THEN "freed" ELSE conn[c]]

\* Bug variant: DeleteConns ignoring mayRestart.
DeleteConns_noRestart ==
    /\ conn' = [c \in Clients |-> IF conn[c] = "closed" THEN "freed" ELSE conn[c]]
    /\ alarm' = FALSE
    /\ dialer' = dialer

\* PuicDialer::DeleteConns(true), run by the DeleteConnsAlarm: free the
\* closed conns; when m_conns is empty too, stop() the dialer.
DeleteConns ==
    IF Live = {} THEN stop
    ELSE /\ conn' = [c \in Clients |-> IF conn[c] = "closed" THEN "freed" ELSE conn[c]]
         /\ alarm' = FALSE
         /\ dialer' = dialer

(***************************************************************************)
(* Worker, manager and dialer                                              *)
(***************************************************************************)

\* AgentServer::Start: uv_tcp_bind and uv_listen may each fail, and the
\* listener is then closed.
ListenOutcomes == BOOLEAN

\* ProxyManager::Start in _proxy_main: PUICCLIENT_CreateDialer, then
\* PUICCLIENT_DialerStart (PuicDialer::start()), then AgentServer::Start
\* (bind, listen); a failure closes the dialer and the worker returns 1.
Start ==
    /\ phase = "init"
    /\ \E dialerOk \in StartOutcomes, listenOk \in ListenOutcomes :
         IF dialerOk /\ listenOk
         THEN /\ phase' = "running" /\ listening' = TRUE /\ dialer' = "up"
         ELSE /\ phase' = "failed" /\ UNCHANGED <<listening, dialer>>
    /\ UNCHANGED <<cleanJobs, alarm, tcp, job, conn, data, proxied>>

\* PUICCLIENT_DialerClose: PuicDialer::Stop runs stop(), which (if
\* started) closes the socket, cancels the alarm and Close()s every session
\* in m_conns, whose OnClosed still reaches the jobs, then DeleteConns(false)
\* frees every closed conn; the callbacks are zeroed and the dialer deleted
\* with its alarm.  Assigns job, tcp, data, cleanJobs, conn, dialer, alarm.
DialerClose ==
    /\ IF dialer = "up"
       THEN /\ clean(Notified(Live))
            /\ conn' = [c \in Clients |->
                          IF conn[c] \in LiveStates \cup {"closed"}
                          THEN "freed" ELSE conn[c]]
       ELSE UNCHANGED <<job, tcp, data, cleanJobs, conn>>
    /\ dialer' = "down"
    /\ alarm' = FALSE

\* AgentServer::Close: the listening socket is uv_close()d and the
\* callback cleared.  Assigns listening.
ListenerClose == listening' = FALSE

\* SIGINT or SIGTERM ends the first uv_run; ProxyManager::Stop closes the
\* listener and the dialer, and the monitor is stopped.
Stop ==
    /\ phase = "running"
    /\ phase' = "stopping"
    /\ ListenerClose
    /\ DialerClose
    /\ UNCHANGED proxied

\* Bug variant: Monitor deleting the jobs without clearing m_cleanJobs.
Monitor_keepQueue ==
    /\ phase = "running"
    /\ cleanJobs # {}
    /\ job' = [c \in Clients |-> IF c \in cleanJobs THEN "deleted" ELSE job[c]]
    /\ UNCHANGED <<cleanJobs, phase, listening, dialer, alarm, tcp, conn, data, proxied>>

\* The monitor prepare callback: ProxyManager::Monitor deletes the queued
\* jobs.  It runs only during the first uv_run.
Monitor ==
    /\ phase = "running"
    /\ cleanJobs # {}
    /\ job' = [c \in Clients |-> IF c \in cleanJobs THEN "deleted" ELSE job[c]]
    /\ cleanJobs' = {}
    /\ UNCHANGED <<phase, listening, dialer, alarm, tcp, conn, data, proxied>>

\* The second uv_run returns once no handle is left: every AgentConn has
\* completed its uv_close (the dialer's handles are closed by Stop).
Exit ==
    /\ phase = "stopping"
    /\ \A c \in Clients : tcp[c] \in {"none", "closed"}
    /\ phase' = "stopped"
    /\ UNCHANGED <<listening, cleanJobs, dialer, alarm, tcp, job, conn, data,
                   proxied>>

\* The DeleteConnsAlarm fires (only an existing dialer's alarm can).
DeleteConnsAlarm ==
    /\ alarm
    /\ DeleteConns
    /\ UNCHANGED <<phase, listening, cleanJobs, tcp, job, data, proxied>>

(***************************************************************************)
(* Per client                                                              *)
(***************************************************************************)

\* PuicDialer::CreateConn: a stopped dialer is start()ed first, and the
\* call fails when that fails; otherwise a client session is created and
\* its PuicClientConn inserted into m_conns.  Whether it succeeds.
CreateConnOutcomes == IF dialer = "up" THEN {TRUE} ELSE StartOutcomes

\* CreatePuicClientSession: a QuicConnection under a fresh random
\* connection id with its own PuicPerSessionWriter, and a client session
\* that PuicDialer::CreateConn wraps in a PuicClientConn in m_conns.
\* Assigns conn.
CreatePuicClientSession(c) == conn' = [conn EXCEPT ![c] = "handshaking"]

\* PUICCLIENT_CreateConn for a dialer that is (now) up: the server address
\* was parsed at startup, so the call returns the conn.  Assigns conn and
\* dialer.
CreateConn(c) ==
    /\ CreatePuicClientSession(c)
    /\ dialer' = "up"

\* PUICCLIENT_SetConnData.  Assigns data.
SetConnData(c, v) == data' = [data EXCEPT ![c] = v]

\* ProxyJob::Start: m_running set, PUICCLIENT_CreateConn (PuicDialer::
\* CreateConn restarts a stopped dialer first and fails with it), then
\* SetConnData(job) and ConnConnect; a failed CreateConn goes through
\* OnPUICConnErr to clean.  Assigns job, tcp, data, cleanJobs, conn and
\* dialer.
ProxyJobStart(c) ==
    \E up \in CreateConnOutcomes :
        IF up
        THEN /\ job' = [job EXCEPT ![c] = "running"]
             /\ tcp' = [tcp EXCEPT ![c] = "open"]
             /\ CreateConn(c)
             /\ SetConnData(c, TRUE)
             /\ UNCHANGED cleanJobs
        ELSE /\ clean({c})
             /\ UNCHANGED <<conn, dialer>>

\* ProxyManager::OnAgentConnAccept: a new ProxyJob for the AgentConn is
\* started.
OnAgentConnAccept(c) == ProxyJobStart(c)

\* AgentConn::Accept: uv_accept failing marks the conn closed and closes
\* it; success reports OnAgentConnAccept (client_handshaked), where the
\* ProxyManager creates and starts a job.
Accept(c, ok) ==
    IF ok THEN OnAgentConnAccept(c)
    ELSE /\ tcp' = [tcp EXCEPT ![c] = "closing"]
         /\ UNCHANGED <<job, data, cleanJobs, conn, dialer>>

\* AgentServer::on_uv_connection on an open listener, for a new client.
OnUvConnection(c) ==
    /\ listening
    /\ tcp[c] = "none"
    /\ \E ok \in BOOLEAN : Accept(c, ok)
    /\ UNCHANGED <<phase, listening, alarm, proxied>>

\* ProxyManager::OnPUICConnected reaches the job through its ConnData,
\* and ProxyJob::OnPUICConnConnected Proxy()s the AgentConn and starts
\* reading.  Assigns proxied.
OnPUICConnected(c) ==
    proxied' = [proxied EXCEPT ![c] = data[c]]

\* PuicClientConn::OnHandshaked (the preset stream now exists) reports
\* OnConnected.  Assigns conn and proxied.
OnHandshaked(c) ==
    /\ conn' = [conn EXCEPT ![c] = "open"]
    /\ OnPUICConnected(c)

\* PuicSessionBase::OnCryptoHandshakeEvent(HANDSHAKE_CONFIRMED): the
\* client opens the preset stream and tells its delegate.
OnCryptoHandshakeEvent(c) == OnHandshaked(c)

\* PuicDialer::on_uv_recv and dispatch: a datagram on the open socket is
\* routed by ReadPuicSessionId to a conn still in m_conns (anything else is
\* dropped); the session either completes its handshake or learns that
\* the peer has closed it.
Recv(p) ==
    /\ dialer = "up"
    /\ LET c == ReadPuicSessionId(p) IN
         /\ c \in Live
         /\ \/ /\ conn[c] = "handshaking"
               /\ OnCryptoHandshakeEvent(c)
               /\ UNCHANGED <<job, tcp, data, cleanJobs, alarm>>
            \/ /\ SessionsClose({c})
               /\ UNCHANGED proxied
    /\ UNCHANGED <<phase, listening, dialer>>

\* The QUIC connection's own alarms close a live session (handshake or
\* idle timeout, a write error).
SessionTimeout(c) ==
    /\ c \in Live
    /\ SessionsClose({c})
    /\ UNCHANGED <<phase, listening, dialer, proxied>>

\* AgentConn::on_uv_read with an error: ProxyJob::OnAgentConnErr cleans
\* the job, whose PUICCLIENT_ConnDisconnect closes the session at once; its
\* OnClosed finds the ConnData cleared and only tells the dialer.
TcpError(c) ==
    /\ job[c] = "running"
    /\ proxied[c]
    /\ tcp[c] = "open"
    /\ clean({c})
    /\ ConnDisconnect({c})
    /\ UNCHANGED <<phase, listening, dialer, proxied>>

\* AgentConn::on_uv_close: m_callback cleared; the conn, marked m_closed,
\* deletes itself.
TcpClosed(c) ==
    /\ tcp[c] = "closing"
    /\ tcp' = [tcp EXCEPT ![c] = "closed"]
    /\ proxied' = [proxied EXCEPT ![c] = FALSE]
    /\ UNCHANGED <<phase, listening, cleanJobs, dialer, alarm, job, conn, data>>

\* The worker process has returned, or its second uv_run is blocked
\* waiting for an event (whether that wait ends is WorkerQuits).
Terminated ==
    /\ phase \in {"stopping", "stopped", "failed"}
    /\ UNCHANGED vars

Next ==
    \/ Start \/ Stop \/ Monitor \/ Exit \/ DeleteConnsAlarm
    \/ \E c \in Clients :
         \/ OnUvConnection(c) \/ SessionTimeout(c) \/ TcpError(c)
         \/ TcpClosed(c)
    \/ \E p \in Packets : Recv(p)
    \/ Terminated

\* Loop callbacks are fair once enabled; signals, accepts, datagrams,
\* timeouts and TCP errors are the environment's.
Fairness ==
    /\ WF_vars(Start) /\ WF_vars(Monitor) /\ WF_vars(Exit)
    /\ WF_vars(DeleteConnsAlarm)
    /\ \A c \in Clients : WF_vars(TcpClosed(c))

Spec == Init /\ [][Next]_vars /\ Fairness

(***************************************************************************)
(* Properties                                                              *)
(***************************************************************************)

\* A job runs exactly while its PuicClientConn is in m_conns with the job
\* as its ConnData: every way a session closes (peer close, timeout, TCP
\* error, the dialer's Stop) reaches the job through OnDisconnected, and a
\* cleaned job is never left as the data of a live conn.
JobConnConsistent ==
    \A c \in Clients :
        (job[c] = "running") <=> (conn[c] \in LiveStates /\ data[c])

\* A started dialer whose last session has closed eventually frees it and
\* stops (closes its UDP socket), unless a new conn is created first: the
\* stop-when-idle behaviour that PuicDialer::OnConnClosed arms and
\* DeleteConns(true) carries out.
IdleDialerReleased ==
    (dialer = "up" /\ Live = {} /\ ClosedList # {})
        ~> (dialer = "down" \/ Live # {})

\* After the stop signal the worker's second uv_run returns: Stop closes
\* every job's AgentConn, directly or through the dialer's sessions.
WorkerQuits ==
    (phase = "stopping") ~> (phase = "stopped")

====
