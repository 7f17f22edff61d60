# TLA+ models of puic

This directory holds TLA+ models of the puic tunnel (`src/`): a TCP-over-QUIC
tunnel. Its two halves are:

- **puicagent** accepts TCP connections locally and carries each one on a PUIC
  (QUIC) session to the proxy.
- **puicproxy** accepts those sessions and connects each one to a backend TCP
  server.

Both halves are single-threaded libuv programs. Every callback runs to
completion on one event loop. The concurrency that matters is therefore the
order of callbacks, plus the re-entrant callbacks the PUIC library makes from
inside a call.

## 1. The system

| part | source | state | operations |
|---|---|---|---|
| proxy bridging job | `puicproxy/src/puic_proxy.cc` `ProxyJob` | `m_running`, `m_srcConn`, `m_dstConn` | `Start`, `clean`, `OnTCPConn{Err,Bound,EOF,Rcvd,Sent}`, `OnPUICConn{Err,CanRead,CanWrite}`, `may_puic_to_tcp`, `may_tcp_to_puic` |
| proxy TCP endpoint | same, `TCPConn` | libuv tcp handle, `m_reading`, `m_writing`, write and shutdown requests | `Start` (connect + PROXY header), `StartRead`, `StopRead`, `Write`, `Shutdown`, `Close`, `on_uv_*` callbacks |
| proxy manager | same, `ProxyManager` | `m_cleanJobs` (deferred delete queue) | `OnPUICAccept`, `OnPUICanRead/CanWrite/Disconnected` (dispatch on the conn's user data), `JobToClean`, `Monitor` (from a `uv_prepare` every loop turn) |
| server connection | `puicserver/src/puic_server.cc` `PuicServerConn`, `puic_server_lib.cc` | `m_handshaked`, `m_data` | `OnHandshaked` -> OnAccept, `OnCanRead`, `OnCanWrite`, `OnClosed` -> OnDisconnected and `delete this` |
| PUIC stream | `puicbase/puic/puic_stream.cc` | `closed_`; the QUIC sequencer and send buffer (library) | `OnDataAvailable`, `OnCanWrite` (not after FIN), `IsEOF` (calls `StopReading`), readable regions, `MarkConsumed`, `Write` |
| agent bridging job | `puicagent/src/puic_agent.cc`, `agent_server.cc` | job as above; `AgentConn` also has `m_readeof`, `m_writeof`, `m_closed` | mirror of the proxy, with the TCP side accepted locally and the PUIC side dialled |
| UDP send pools | `puicclient/src/puic_client.cc` `PuicDialer`, `puicserver/src/puic_server.cc` `PuicListener` | `m_availSendReqs` (stack of `MaxFlyingMessages` = 1024 requests), `m_writeBlocked` | `WritePacket`, `on_uv_send`, `wakeup`, dialer `start`/`stop`/`DeleteConns` auto-restart |
| per-session writer | `puicbase/puic/puic_per_session_writer.cc` | `blocked_` | `WritePacket` latches BLOCKED, `SetWritable` |
| dispatcher and sessions | `puicbase/puic/puic_dispatcher.cc`, `puic_session_base.cc`, ... | glue over the QUIC library, which is not in this repository | session creation, `Close`, `ReadPuicSessionId` |
| entry points | `*/main.cc`, `*/proxy_main.cc`, `*/multi_proxy_main.cc` | command line, logger, child processes | `multi_proxy_main` spawns one worker per listen address and respawns abnormal exits; on SIGINT/SIGTERM it sends SIGTERM to each worker and waits |

### How the parts interact

The PUIC library reports events through `PuicServerConn` to the
`ProxyManager` callbacks. These find the job through the connection's user
data (`PUICSERVER_ConnData`). `clean()` sets that user data to null before
it disconnects, so later callbacks become no-ops.

A library call made by the job can close the session synchronously when a
packet write fails (`ConnWrite`, `ConnMarkConsumed`, `ConnReadableRegions`).
The close runs `OnDisconnected -> OnPUICConnErr -> clean()` before the call
returns. This is why every continuation after such a call checks
`running()`.

The TCP side reports through `TCPConn::Callback`. `clean()` closes the
handle, and libuv delivers no callbacks once a handle is closing. The job
object is freed one loop turn later by `Monitor()`.

### Hard behaviours

- **Re-entrant close.** The session can close inside a library call, before
  that call returns.
- **Half-close in both directions.** A retransmitted FIN can re-raise
  `OnCanRead`.
- **Hysteresis backpressure.** TCP reading is stopped at 8 KiB buffered and
  restarted at 4 KiB.
- **Writes before connect.** The PROXY header is queued before `connect`
  completes.
- **One TCP write in flight.** At most one write is outstanding, and
  `MarkConsumed` must come before the next `may_puic_to_tcp`.
- **Deferred delete.** Jobs are freed later by `Monitor()`, not at once.
- **UDP send pool.** The pool unblocks only when it is completely full. The
  dialer restarts its socket when it has no conns left, and a send that
  completes after that close frees its request.

## 2. Modules

| module | models | status |
|---|---|---|
| `ProxyBridge` | one proxy tunnel: `ProxyJob`, `TCPConn`, the dispatch of `ProxyManager`, the handshaked `PuicServerConn` and its preset stream, the backend and the peer | done |
| `MCProxyBridge` | constants for TLC | done |
| `AgentBridge` | one agent tunnel: `ProxyJob` of puicagent, `AgentConn` with its EOF latches, self-close and two-sided deletion, the `PuicClientConn` callbacks and the local client | done |
| `MCAgentBridge` | constants for TLC | done |
| `Dialer` | `PuicDialer`: the UDP send pool (`m_availSendReqs`, `m_writeBlocked`, `on_uv_send`, `wakeup`), the blocked-writer list, the per-session writer, the conn registry with `DeleteConnsAlarm`, and the `start`/`stop` auto-restart | done |
| `MCDialer` | two conns as model values | done |
| `Server` | one puicproxy worker around its listener: `PuicListener` (socket, send pool, `OnNewSession`), `PuicServerConn` creation and `OnClosed`, the `ProxyManager` registry and deferred-delete queue, `Start`/`Stop` and the second `uv_run` | done |
| `MCServer` | two sessions as model values | done |
| `Agent` | one puicagent worker around its dialer: `AgentServer` accept, the `ProxyManager` (`Start`, `Stop`, `Monitor`, `ConnData` dispatch), `PuicDialer` `start`/`stop`, `CreateConn`, `dispatch`, `OnConnClosed` and the `DeleteConnsAlarm`, and the `PuicClientConn` callbacks | done |
| `MCAgent` | three clients as model values | done |
| `Supervisor` | `multi_proxy_main`: spawn loop, `child_exit_cb`, stop signal and kill loop; each worker's `_proxy_main` lifecycle | done |
| `MCSupervisor` | constants for TLC: the ip literals and the one well-formed address text | done |
| `Session` | the stream layer of one session: `PuicSessionBase`'s stream creation, cancel, reset and close, the `PuicStream` delegate callbacks, and the conn's `OnHandshaked`/`OnIncomingStream` | done |
| `IpUtil` | `parse_addr` of `src/common/ip_util.h` (`strrchr`, `strtol`, the port range, the libuv ip test) | done |
| `Tunnel` | what a tunnel promises its ends: two byte streams, each with an end mark, frozen once the tunnel is torn down; `ProxyBridge` and `AgentBridge` refine it (`TunnelSpec`) | done |

### ProxyBridge: state and actions

Data is counted in 4 KiB units. `PUICCONN_WRITEBUF_LOWER` and `_UPPER` are
therefore 1 and 2 units.

Variables are grouped by the object they belong to:

- **The job:** `job`, plus two ghost variables.
  - `fault` records a use of a cleaned job or of a null `m_dstConn`; this is
    undefined behaviour in C++.
  - `misuse` records a teardown caused by an error that the job's own call
    provoked.
- **`TCPConn` and its libuv handle:** `tcp`, `reading`, `writing`, `uvEof`,
  `shutReq`, and `outQ`, the ordered libuv write queue of PROXY header, data
  and shutdown requests.
- **The backend:** what it has received (`bOff`, `bFirst`, `bEof`) and what
  it sent (`upAvail`, `upEof`).
- **The session and stream:** `sess`, `connData`, received/consumed counters,
  FIN and StopReading flags, the send buffer and the transmitted count.

Each action is one callback run to completion, including everything it
calls:

- `TcpRead` is `on_uv_read` -> `OnTCPConnRcvd` -> `ConnWrite` ->
  `may_tcp_to_puic` -> `StopRead`/`StartRead`.
- `BackendRecv` is completion of the head of the write queue: `on_uv_write`
  -> `OnTCPConnSent` -> `ConnMarkConsumed` -> `may_puic_to_tcp`.

The helpers `ConnWrite` and `ConnMarkConsumed` are the library calls
`PUICSERVER_ConnWrite` and `PUICSERVER_ConnMarkConsumed` (in `AgentBridge`,
their `PUICCLIENT_` twins). `ConnWrite` appends the bytes to the stream's
send buffer, and the stream may transmit any part of that buffer at once.
Its `FinSent` refusal is not enumerated. A FIN is written only at `UV_EOF`,
and no read callback follows `UV_EOF`.

Each library call that can close the session has two outcomes: normal, or
`clean()` followed by the `running()` early return. The constant `SyncClose`
switches the second outcome on.

The callbacks a real loop would deliver are these actions:

- `OnPUICAccept`, `OnUvConnect`, `TcpRead`, `TcpEof`, `BackendRecv`;
- `PeerData`, `PeerFin`, `PeerDupFin` (a retransmitted FIN);
- `StreamCanWrite` (the session sends buffered data, then
  `PuicStream::OnCanWrite`);
- `SessionClosed` (idle timeout, peer close or network error) and `TcpError`;
- `OnUvClose` and `Monitor`.

`BackendSend` and `BackendShutdown` are the backend's own behaviour.

The helpers `Write`, `Shutdown` (`TCPConn`), `OnPUICanWrite`,
`OnPUICConnCanWrite` and `OnPUICConnErr` are the calls these actions make,
each a translation of its own method.

### AgentBridge: state and actions

The agent is the mirror of the proxy: the TCP side is accepted from a local
client, and the PUIC side is dialled, so there is a handshake that can fail
or time out (`HandshakeFailed`). The units, the stream variables and
`SyncClose` are as in `ProxyBridge`.

`AgentConn` differs from `TCPConn` in ways that matter:

- **EOF latches.** `m_readeof` and `m_writeof` make `StartRead`, `Write` and
  `Shutdown` (helpers of `may_puic_to_tcp` of the same names) no-ops once
  set, so a retransmitted FIN cannot tear the tunnel
  down here (the second `uv_shutdown`'s error is ignored).
- **Self-close.** When both latches are set (`on_uv_read` EOF after
  `OnAgentConnEOF`, or `on_uv_shutdown`), the connection calls its own
  `close()` (`SelfClose`). The job keeps running until the session closes.
- **Two-sided deletion.** `conn` is `open`, `closing`, `closed` (libuv
  closed it, `Close()` not yet called) or `freed`. `Close()` from `clean()`
  and `on_uv_close` each delete the object if the other came first.
- **`m_callback`** (`cb`) is null until `OnPUICConnConnected` calls
  `Proxy(this)`, and `on_uv_close` nulls it again.

The ghost variable `fault` records every undefined behaviour: a callback
through a null or dangling `m_callback`, a call into a freed `AgentConn`, and
a second `uv_close`.

`close()` calls `m_callback->OnAgentConnClosed()`, a method declared nowhere
in the repository. The constant `OnClosedCleans` chooses what it does: nothing
(`FALSE`), or clean the job (`TRUE`), which is what a job must do when its
client connection goes away.

### Dialer: state and actions

`PuicDialer` (`puicclient/src/puic_client.cc`) owns one UDP socket shared by
all client sessions. `Conns` is a set of model values, each a
`PuicClientConn` with its session.

| variable | code |
|---|---|
| `started` | the socket is open (`start()` ran, `stop()` not since) |
| `pool` | `m_availSendReqs.size()`, out of `N` (`MaxFlyingMessages`) |
| `writeBlocked` | `m_writeBlocked`; `TRUE` before `start()` |
| `inflight`, `orphaned` | `uv_udp_send` requests not yet completed, issued before or after the last `stop()` |
| `conn[c]` | `none`, `live`, `closed` (in `m_closedConns`) or `deleted` |
| `blocked` | `m_blockedConns`, a sequence kept in insertion order |
| `pending[c]` | packets queued in the session while its writer is blocked (`blocked_` is `pending[c] > 0`) |
| `alarm` | `DeleteConnsAlarm` armed |
| `gone` | the dialer was stopped from outside (`Stop`) |

Actions: `CreateConn` (`start()` if needed, which clears the latch, then the
handshake write),
`SessionWrite`, `SessionClose` (silent, or with a CONNECTION_CLOSE write),
`SendDone` (`on_uv_send` on an open socket, with the `wakeup` loop `Wake`),
`OrphanDone` (`on_uv_send` after `stop()`: the request is freed),
`DeleteConns` (the alarm: closed conns are deleted, and `stop()` runs when no
live conn remains) and `Stop`. `WritePacket` is shared by every write: it pops
a request or latches `writeBlocked` and returns BLOCKED. With `SyncSendFail`
a synchronous `uv_udp_send` failure is also enumerated.

### Server: state and actions

`Server` puts several sessions behind one `PuicListener`, where
`ProxyBridge` follows one tunnel in detail. A `ProxyJob` is reduced to
`job[s]` (`running`, `cleaned` and queued on `m_cleanJobs`, `deleted`)
and its backend `TCPConn` to `tcp[s]` (`open`, `closing`, `closed`).

| variable | code |
|---|---|
| `phase` | `_proxy_main`: `init`, `running` (first `uv_run`), `stopping` (second `uv_run`), `stopped`, `failed` (`Start` failed, exit 1) |
| `writeBlocked`, `pool`, `inflight`, `orphaned` | the listener's send pool, as in `Dialer` |
| `sess[s]` | the QUIC session: `none`, `handshaking`, `open`, `closed` |
| `sconn[s]`, `handshaked[s]` | its `PuicServerConn` (`live`, `deleted`) and `m_handshaked` |
| `blockedW` | sessions whose `PuicPerSessionWriter` is blocked |
| `cleanJobs` | `ProxyManager::m_cleanJobs` |

Actions:
- `Start` and `Stop` (`ProxyManager`) call `ListenerStart` and
  `ListenerStop` (`PuicListener`).
- `SendDone` and `OrphanDone` are `on_uv_send`; `Monitor` drains
  `m_cleanJobs`; `Exit` is the end of the second `uv_run`.
- The sessions act through `NewSession` (`on_uv_recv` -> `OnNewSession`),
  `Handshaked` (`OnHandshaked` -> `OnPUICAccept`), `SessionWrite`,
  `SessionClose`, and the backend through `TcpError` and `TcpClosed`.
- `OnClosed` is `PuicServerConn::OnClosed` with its `m_handshaked` early
  return, and is shared by every way a session closes.

The dispatcher's own code is modelled as helpers of these actions:
`CreateQuicSession` in `NewSession`, `DispatcherClose` in `ListenerStop`,
`OnTransportCanWrite` in `SendDone`, and `CreatePuicDispatcher` in
`ListenerStart`. `CreatePuicDispatcher` arms the buffered-sessions alarm
through `ProcessBufferedSessions` and `SetImpl`. The variable `dispTimer`
is that alarm's uv timer. `ListenerStop` deletes the dispatcher, and its
`DeleteAlarm` closes the timer. `TimerClosed` is the close callback, and
`Exit` waits for it, as the second `uv_run` does.

The QUIC library is not in the repository. `QuicDispatcher::OnCanWrite`,
which `OnTransportCanWrite` calls, is taken to give every blocked session
its chance to write: `blockedW` is cleared, and those sessions write again
through `SessionWrite`. A close is taken to be synchronous, as in
`ProxyBridge`.

### Agent: state and actions

`Agent` is the agent worker's counterpart of `Server`: several clients
behind one `AgentServer` and one `PuicDialer`. Each client is accepted once
and gets one `ProxyJob` (`job[c]`: `running`, `cleaned`, `deleted`), one
`AgentConn` (`tcp[c]`) and one `PuicClientConn` (`conn[c]`). The data plane
of a job is `AgentBridge`'s and the send pool is `Dialer`'s.

| variable | code |
|---|---|
| `phase` | the agent's `_proxy_main`, as in `Server` |
| `listening` | the `AgentServer` listener is open (`on_uv_connection` checks `uv_is_closing`) |
| `dialer`, `alarm` | `m_cryptoConfig` set with the socket open; `m_deleteConnsAlarm` armed |
| `conn[c]` | `handshaking` or `open` (in `m_conns`), `closed` (in `m_closedConns`), `freed` |
| `data[c]` | `PUICCLIENT_ConnData(conn)` is the job (cleared by `clean`) |
| `proxied[c]` | `AgentConn::Proxy(job)` and `StartRead` ran, so TCP errors can reach the job |

Actions:
- `Start` and `Stop` (`ProxyManager`); `Stop` calls `DialerClose`, which is
  `PuicDialer::Stop` and `stop()`. `Monitor` and `Exit` are as in `Server`.
- `OnUvConnection` is `on_uv_connection`, then `Accept` (a failed
  `uv_accept` closes the conn), then `OnAgentConnAccept` and
  `ProxyJobStart`. `CreateConnOutcomes` restarts a dialer that stopped when
  idle, and that restart may fail. On success, `CreateConn`
  (`PUICCLIENT_CreateConn`, `CreatePuicClientSession`) adds the conn, and
  `SetConnData` attaches the job.
- `Recv` is `on_uv_recv` and `dispatch`. `ReadPuicSessionId` routes the
  datagram to a conn in `m_conns`, and the datagram completes the handshake
  (`OnCryptoHandshakeEvent`, `OnHandshaked`, then `OnPUICConnected`) or
  closes the session.
- `SessionTimeout` is a session closed by its own alarms. `TcpError` is
  `OnAgentConnErr`. `TcpClosed` is `on_uv_close`.
- `SessionsClose` is `PuicClientConn::OnClosed`: `Notified` (the jobs
  `OnPUICDisconnected` reaches through a non-null `ConnData`), then
  `OnConnClosed`. `DeleteConnsAlarm` runs `DeleteConns(true)`, which calls
  `stop` when `m_conns` is empty.

A session close is taken to be synchronous, as elsewhere. So `clean`'s
`PUICCLIENT_ConnDisconnect` (`ConnDisconnect`) moves the conn to `m_closedConns` in the same
step, and the `OnClosed` it re-enters finds `ConnData` already null. Once
`phase` is `stopping`, `Terminated` lets the second `uv_run` wait. A worker
stuck there is a `WorkerQuits` violation, not a deadlock.

### Supervisor: state and actions

`phase` is the supervisor's place in `multi_proxy_main`: `args` (checking its
arguments), `badargs` (an address failed `parse_addr`; it returned 1), `init`, `running`
(first `uv_run`), `stopping` (second `uv_run`), `done`, or `failed` (a
`uv_spawn` of the spawn loop failed and its error was returned). `proc[i]` is
worker `i`'s process: `idle`, `starting` (no SIGTERM handler yet),
`serving`, `quitting` (shutting down after SIGTERM) or `exited` (its
`exit_cb` not yet run). `last[i]` says how its last process ended.

`arg` is the text of the one argument in question and `argZero` says
whether it is the agent's `-o`, whose port may be 0; the other arguments
are taken to be well-formed. Init picks `arg` from `AddrTexts`.

Actions: `ParseArgs` (the `parse_addr` checks of `-l`, `-o` and `-f`,
returning 1 at the first failure), `Spawn` (the spawn loop), `ExitCb` (`child_exit_cb`: exit 0 or 1
without a signal is left alone, anything else is respawned), `StopSignal`
(`stop_signal_cb`, then `uv_process_kill(SIGTERM)` to every worker),
`Exit` (the second `uv_run` returns). For the workers, `WorkerStart`
(handlers, `ProxyManager::Start`, exit 1 on failure), `WorkerQuit` (exit 0
after SIGTERM) and `WorkerCrash` (a fatal signal, at most `MaxCrashes`
times).

### Session: state and actions

`sess` is the QUIC connection (`handshaking`, `open`, `closed`). `stream[s]`
is stream `s`'s place in the session's stream maps (`none`, `active`,
`closed`), plus whether its `delegate_` is set. `fault` records a
`PuicStream` callback made through a null `delegate_`. The stream ids are
the preset stream (`kPresetStreamId`) and the ids in `Extra` that the peer
may open.

The QUIC library is not in the repository. Its events are the environment,
and the model assumes what Chromium's `QuicSession` does:

- a new peer stream id goes through `CreateIncomingDynamicStream`;
- `IsOpenStream` holds only for streams in the active map;
- a close, a sent or received reset, and the connection's close call the
  stream's `OnClose`.

Each call is a value operator that maps a state `[m, f]` to the next one, so
the nesting in the code stays visible. For example,
`CreateDataStream` gives `OnIncomingStream` (`CancelStream`, `ResetStream`)
the map before `ActivateDataStream`.

Actions:

- `OnCryptoHandshakeEvent`: the preset stream is created and activated, as
  incoming on the server and outgoing on the client, and then `OnHandshaked`
  calls `SetDelegate`.
- `PeerOpensStream`: the peer opens an extra stream.
- `StreamData`: `OnDataAvailable` runs.
- `PeerResetStream`: `CloseStream` runs.
- `OnConnectionClosed`: `OnClose` runs on every active stream.
- `Terminated`: the session is gone.

### Abstractions

- **The QUIC stream sequencer and send buffer** are counters.
  - `MaybeCloseStream` is `FinArrived`.
  - `QuicStream::OnStreamFrame` drops frames once the read side is closed.
    That is the guard of `PeerDupFin`.
- **Readable regions** are modelled only by their total length, and any
  prefix may be written. Up to 4 regions are always at least one unit.
- **Errors that cannot happen are left out:**
  - a synchronous `uv_write` failure on an open, writable socket;
  - `PUISRVERR_FIN` from `ConnWrite`, because a FIN is written only once,
    on TCP EOF, and no read follows it.

## 3. Runs

| run | cfg | expect | shows |
|---|---|---|---|
| `proxy_tunnel` | `MCProxyBridge.cfg` | pass | the tunnel's safety and liveness properties (below) |
| `agent_tunnel` | `MCAgentBridge.cfg` | pass | the same properties for the agent tunnel, `TunnelSpec` included, with `NoUseAfterFree` in place of `NoUseAfterClean` and `NoSelfInflictedTeardown` |
| `agent_self_close_double_close` | `MCAgentBridgeClosedCleans.cfg` | violation | with `OnAgentConnClosed` cleaning the job, a tunnel whose two halves have closed makes `AgentConn::close()` call `uv_close` twice (7 steps) |
| `proxy_both_halves_closed` | `MCProxyBridgeHalfClose.cfg` | violation | spec 4.5: a job whose two halves have both closed should close; the code keeps it until the idle timeout |
| `dialer_send_pool` | `MCDialer.cfg` | pass | the send pool, the blocked-writer list and the deletion of closed conns (below) |
| `dialer_blocked_forever` | `MCDialerBlockedForever.cfg` | violation | a restart while a send is in flight loses its request for good (`on_uv_send` frees it because the handle is closing, against spec invariant 6); after such a loss the pool never refills to `MaxFlyingMessages`, so `wakeup` never runs again and a blocked session waits for ever |
| `server_worker` | `MCServer.cfg` | pass | the worker's listener and job registry (below) |
| `server_conn_leak` | `MCServerLeak.cfg` | violation | spec section 1 (resources reclaimed on any failure): a session closing during its handshake leaks its `PuicServerConn` |
| `server_sync_send_failure` | `MCServerSendFail.cfg` | violation | spec invariant 6 (free requests plus sends in flight equal `MaxFlyingMessages` while the socket is open): a synchronous `uv_udp_send` failure loses a request for good (3 steps: start, new session, failed write) |
| `session_extra_stream` | `SessionExtraStream.cfg` | violation | spec 6.4 says an extra incoming stream is cancelled. In the code, `OnIncomingStream` cancels it before it is active, so the cancel does nothing, and the stream's first callback goes through a null `delegate_` (3 steps: handshake, peer opens `x1`, data on `x1`) |
| `agent_worker` | `MCAgent.cfg` | pass | the agent worker's job registry and dialer life cycle (below) |
| `supervisor_stop_hangs` | `MCSupervisorStop.cfg` | violation | spec section 7: SIGINT/SIGTERM ends the supervisor once all workers quit; a worker killed by the SIGTERM before installing its handler is respawned and the supervisor never exits |

`proxy_tunnel` checks the following properties:

- **`DownstreamInOrder`:** every data write queued on the TCP socket starts
  exactly where the bytes already delivered to the backend, plus the
  earlier queued writes, end. So there are no duplicates and no gaps.
- **`EofAfterAllData`:** the backend sees the FIN only after every byte the
  peer sent.
- **`ProxyHeaderFirst`:** the PROXY header reaches the backend before any
  data. This holds even though data may be queued before connect completes.
- **`SendBufBounded`:** the stream's send buffer never exceeds
  `UPPER - 1 + ReadChunk`.
- **`NoUseAfterClean`:** no callback or continuation touches a cleaned job
  or a null `m_dstConn`.
- **`NoSelfInflictedTeardown`:** a retransmitted FIN never makes the proxy
  call `uv_shutdown` twice (ENOTCONN). `uv_read_start` is never called after
  EOF either. Either mistake would tear down a healthy half-closed tunnel.
- **`TunnelSpec`:** the job refines the abstract `Tunnel` (spec 8.1, no
  lost bytes) under the mapping `Tun` in `ProxyBridge`. Down is the peer's
  units as they reach the stream (`dRecv`) and the backend (`bOff`), with
  the peer's FIN and the backend's EOF. Up is the units read from the
  backend (`upXmit + sendBuf`) and the ones the stream has transmitted
  (`upXmit`), with libuv's EOF and the job's FIN once the buffer is empty.
  The tunnel is open until `clean()`. In every step, in each direction,
  the receiver holds a prefix of what was sent, the end mark arrives last,
  and nothing moves after `clean()`. One callback may move both directions
  and close the tunnel, so a `Tunnel` step may do all three.
- **Liveness:**
  - `DownDelivered`: every unit from the peer reaches the backend.
  - `DownEofDelivered`: the peer's FIN reaches the backend as a TCP
    shutdown.
  - `UpDelivered`: every unit from the backend is transmitted on the
    stream, even after reading was stopped by backpressure.

  Each holds unless the tunnel closes.

`agent_tunnel` checks `DownstreamInOrder`, `EofAfterAllData`,
`SendBufBounded` and the three liveness properties as above, against the
local client. It also checks:

- **`NoUseAfterFree`:** no `AgentConn` callback goes through a null or
  dangling `m_callback`; nothing calls into an `AgentConn` deleted by
  `Close()` or `on_uv_close`; and `uv_close` is never called twice.
- **`TunnelSpec`:** the agent's job refines the same `Tunnel` under the
  mapping `Tun` in `AgentBridge`. Down is the proxy's units on the stream
  (`dRecv`) and at the local client (`cOff`), with the proxy's FIN and the
  client's EOF. Up is as in the proxy, except that its end mark is the FIN
  the job writes (`finW`). `m_readeof` cannot serve: `on_uv_close` sets it
  too. The check matters here because `AgentConn` can close itself while
  the job still runs, and `Close()` and `on_uv_close` may come in either
  order.

`dialer_send_pool` checks:

- **`WakeupListExact`:** `m_blockedConns` holds exactly the live conns whose
  writer is blocked, and is non-empty only while `m_writeBlocked` is set.
  So no blocked session is forgotten, and none is woken twice.
- **`WriterWokenUnlessLost`:** a blocked conn is eventually unblocked or
  gone, unless a send request is gone for good. A request is lost when a
  synchronous `uv_udp_send` failure drops it, or when `on_uv_send` frees it
  on a socket that has been closed. So a lost request is the only way a
  writer can stay blocked for ever, and a synchronous failure is one such
  way (`dialer_blocked_forever` shows the other).
- **`ClosedConnsDeleted`:** every closed conn is eventually deleted by the
  alarm.

`server_worker` checks:

- **`NoOrphanJob`:** no job runs for a closed session. The
  `m_handshaked` flag and `OnDisconnected` are what close it.
- **`BlockedSessionWoken`:** a blocked session is eventually woken or
  closed, unless a request has been lost (`RequestLost`: the stack and
  the sends in flight hold fewer than `MaxFlyingMessages`). `on_uv_send`
  wakes only on a full stack, so a lost request is the one excuse.
  `MCServer.cfg` enumerates synchronous send failures, so the run covers
  sessions that block both before and after a request is lost.
- **`WorkerQuits`:** after SIGTERM the second `uv_run` returns.

`agent_worker` checks:

- **`JobConnConsistent`:** a job runs exactly while its `PuicClientConn`
  is in `m_conns` with the job as its `ConnData`. This holds on every path
  that closes a session: a peer close, a timeout, a TCP error, a failed
  dialer restart and `Stop`. So no job outlives its conn, and no live conn
  points at a cleaned job.
- **`IdleDialerReleased`:** once the last session has closed, the dialer
  frees it and closes its UDP socket, unless a new conn arrives first.
- **`WorkerQuits`:** after the stop signal the second `uv_run` returns.
- `TypeOK` also requires that `m_cleanJobs` holds only cleaned, undeleted
  jobs. A second delete would otherwise be possible.

The supervisor has no passing run. `supervisor_stop_hangs` is its run.
`parse_addr` (`IpUtil`) is part of its `ParseArgs` step. Spec section 1
puts argument parsing out of scope and gives no address grammar, so no
property says which texts the parser should refuse. What the code
accepts is listed as a hazard in `PROJECT.json`. It accepts an empty port
as 0 for the agent's `-o`, a port with white space or a sign, and an IPv6
address with no port whose last group is decimal.

`A` stands for an IPv4 literal, and `::` and `::1` are the IPv6 literals.

Each property has a bug variant of the code (see `mutants` in
`PROJECT.json`) that TLC shows violates it:

| property | bug variant |
|---|---|
| `DownstreamInOrder` | `MarkConsumed` after `may_puic_to_tcp` |
| `EofAfterAllData` | EOF on FIN arrival |
| `ProxyHeaderFirst` | no header |
| `SendBufBounded` | `>` for `>=` |
| `NoUseAfterClean` | `clean` without `Close` |
| `NoSelfInflictedTeardown` | `IsEOF` without `StopReading` |
| `DownDelivered` | no pump after a write |
| `DownEofDelivered` | FIN-only frame raises no `OnDataAvailable` |
| `UpDelivered` | inverted test in `StartRead` |
| `TunnelSpec` | `clean` without `Close`: the backend still receives queued data after the job is cleaned |
| `TunnelSpec` (agent) | `clean` without `ConnDisconnect`: the stream still transmits after the job is cleaned |
| `NoUseAfterFree` (agent) | `on_uv_close` deletes even before `Close()` |
| `TypeOK` (dialer) | `WritePacket` pops a request even when it returns BLOCKED |
| `WakeupListExact` | a closed conn left in the list |
| `WriterWokenUnlessLost` | `wakeup` wakes only the head of the list |
| `ClosedConnsDeleted` | the alarm armed only when the list was non-empty |
| `TypeOK` (server) | `WritePacket` without the empty-stack test |
| `NoOrphanJob` | `OnHandshaked` without `m_handshaked = true` |
| `BlockedSessionWoken` | the stack size tested before the push in `on_uv_send` |
| `WorkerQuits` | `PuicListener::Stop` clears the callbacks before closing the dispatcher |
| `TypeOK` (agent) | `Monitor` deletes the jobs but leaves `m_cleanJobs` full |
| `JobConnConsistent` | `PuicClientConn::OnClosed` without `OnDisconnected` |
| `IdleDialerReleased` | `DeleteConns` ignores `mayRestart` |
| `WorkerQuits` (agent) | `clean` without `m_srcConn->Close()` |

The other agent properties use the same variants as the proxy.

### Bounds

| constant | value | why it is enough |
|---|---|---|
| `MaxUp` | 4 units | a read of `ReadChunk` = 2 units can cross `UPPER` = 2, and the buffer can reach its bound of 3 |
| `MaxDown` | 3 units | several writes, so that a write completes while more data is readable |
| `MaxDupFin` | 1 | one retransmitted FIN |
| dialer `Conns`, `N` | 2 conns, 2 requests | two conns can both block, and the pool can run empty and refill |
| `MaxPending`, `MaxSends` | 2, 6 | a blocked session queues a second packet; enough writes for create, close, restart and create again |
| server `Sessions`, `N`, `MaxSends` | 2, 2, 5 | both sessions can block on an empty pool, and one can close while the other is blocked; the bound leaves room for a stop with sends in flight |
| agent `Clients` | 3 | one client's session closes and the dialer stops while it is idle; a later client restarts it, possibly failing; a third is still live when the stop signal arrives |
| `NWorkers`, `MaxCrashes` | 2, 0 | two workers, both of which can be killed by the stop signal before their handlers are installed |

All other cases are enumerated: every split of a send, every prefix of the
readable data, and every outcome of every library call.

### Fairness

Weak fairness is assumed on the callbacks the loop delivers once their event
is ready:

- connect completion, reads, EOF, write completions, the session sending
  buffered data, `on_uv_close`, and `Monitor`, which runs every loop turn;
- `OnPUICAccept`, which the handshake calls at once.

The peer, the backend, errors and timeouts get no fairness: a peer may stay
silent for ever.

In the dialer, `on_uv_send` completions and the zero-delay alarm are fair;
sessions and their peers are not. In the server, the listener's send completions, the
monitor, `on_uv_close`, the alarm timer's close callback and the worker's own start and exit are fair. The
clients, the backend and QUIC's timeouts are not fair. No symmetry is
declared, because `MCServer.cfg` checks liveness. In the supervisor, the argument check, `child_exit_cb`, the
spawn loop, the second `uv_run` and each worker's own progress are fair;
crashes and the stop signal are not. In the agent worker, `Start`, `Monitor`,
`Exit`, `on_uv_close` and the zero-delay `DeleteConnsAlarm` are fair.
Accepts, datagrams, timeouts, TCP errors and the signal are not fair. `MCSupervisor*.cfg` turn deadlock
checking off: a supervisor whose respawned worker serves after the stop
has no step left, which is the hang `StopTerminates` reports.

`StreamCanWrite` being fair assumes that the QUIC peer keeps acknowledging.
Without that, flow control could block the stream for ever, and the liveness
properties are stated "unless the tunnel closes" for that reason.

## 4. Not modelled

- The QUIC library itself: crypto, loss recovery and congestion control.
- The command line, logging, and the single-address fast path of
  `multi_proxy_main`.
- pid reuse after a worker's exit: the kill loop signals every worker,
  including exited ones, by their old pid.
- The vendored base headers.
- Time and connection ids. Alarms are events that may fire, and conns are
  named by client. The early alarm from millisecond truncation, listed in
  `PROJECT.json`, goes unchecked. A random 64-bit connection id that is 0
  or collides is left out, because it happens with chance about 2^-64 per
  connection.
- `resolve_ipany` (network interface enumeration, I/O), and the ip literal
  syntax of `uv_ip4_addr`/`uv_ip6_addr`, which is libuv's: `IpLiterals` is a
  constant. `parse_addr` is checked in the supervisor only; the workers'
  `proxy_main` repeats the same calls.
- `strtol`'s saturation at `LONG_MAX` is modelled as saturation at 65536,
  which every later test treats alike.
- The bridges (`ProxyBridge`, `AgentBridge`) see only the preset stream.
  `Session` checks extra streams separately.
- Session and dispatcher construction (`puic_server_session.cc`,
  `puic_client_session.cc`, `DummyProofSource` and the QUIC configuration in
  `puic_dispatcher.cc`). This code only fills in QUIC configuration objects.
  It changes no state that a property here tells apart.
- A failed `uv_udp_bind` in `PuicDialer::start()`. `CreateConn` then returns
  nullptr and the dialer is left as it was, so the model treats it as a
  stuttering step.
- What the supervisor should do when `uv_spawn` fails partway through its
  spawn loop. `Supervisor` models the early return, and the workers spawned
  before it keep running. The spec states no requirement for this case, so
  no run checks it.
