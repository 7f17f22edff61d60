------------------------------- MODULE Dialer -------------------------------
(***************************************************************************)
(* The PUIC client dialer of puicclient (src/puicclient/src/puic_client.cc)*)
(* seen from its UDP socket: the pool of MaxFlyingMessages send requests   *)
(* (m_availSendReqs) and the m_writeBlocked latch, the per-session writers *)
(* (PuicPerSessionWriter) of its conns, the insertion-ordered list of      *)
(* write-blocked conns (m_blockedConns) that wakeup() drains, the registry *)
(* of conns (m_conns, m_closedConns) with the zero-delay DeleteConnsAlarm, *)
(* and the auto-restart: when the last conn is deleted the dialer stops    *)
(* (closes its socket) and the next CreateConn starts it again.            *)
(*                                                                         *)
(* A send request is a count: the stack's order does not matter.  The     *)
(* sessions are abstract: each may write a packet at any time (handshake,  *)
(* stream data, an ack, a retransmission) or close.                        *)
(***************************************************************************)
EXTENDS Naturals, Sequences, SequencesExt

CONSTANTS
    Conns,          \* the PuicClientConn objects a run creates (once each)
    N,              \* MaxFlyingMessages
    MaxPending,     \* packets a write-blocked session queues, at most
    MaxSends,       \* packets the sessions write in a run, at most
    SyncSendFail    \* whether uv_udp_send may fail synchronously

ASSUME N \in Nat \ {0} /\ MaxPending \in Nat \ {0} /\ MaxSends \in Nat
ASSUME SyncSendFail \in BOOLEAN

VARIABLES
    started,        \* m_cryptoConfig != nullptr: start() succeeded
    writeBlocked,   \* m_writeBlocked
    pool,           \* m_availSendReqs.size()
    inflight,       \* uv_udp_send requests on the current socket
    orphaned,       \* requests on sockets stop() has closed
    conn,           \* "none", "live" (m_conns), "closed" (m_closedConns),
                    \* "deleted"
    blocked,        \* m_blockedConns, in insertion order
    pending,        \* packets a session queued while its writer is blocked
    alarm,          \* m_deleteConnsAlarm is armed
    gone,           \* PUICCLIENT_DialerClose deleted the dialer
    sends           \* packets written so far (bound)

vars == <<started, writeBlocked, pool, inflight, orphaned, conn, blocked,
          pending, alarm, gone, sends>>

Live == {c \in Conns : conn[c] = "live"}

TypeOK ==
    /\ started \in BOOLEAN /\ writeBlocked \in BOOLEAN
    /\ pool \in 0..N /\ inflight \in 0..N /\ orphaned \in 0..N
    /\ conn \in [Conns -> {"none", "live", "closed", "deleted"}]
    /\ blocked \in Seq(Conns) /\ Len(blocked) = Cardinality(ToSet(blocked))
    /\ pending \in [Conns -> 0..MaxPending]
    /\ alarm \in BOOLEAN /\ gone \in BOOLEAN
    /\ sends \in 0..MaxSends

\* PuicDialer::PuicDialer: MaxFlyingMessages requests, write-blocked until
\* started, no socket.
Init ==
    /\ started = FALSE /\ writeBlocked = TRUE
    /\ pool = N /\ inflight = 0 /\ orphaned = 0
    /\ conn = [c \in Conns |-> "none"]
    /\ blocked = <<>> /\ pending = [c \in Conns |-> 0]
    /\ alarm = FALSE /\ gone = FALSE /\ sends = 0

(***************************************************************************)
(* Helpers                                                                 *)
(***************************************************************************)

\* PuicDialer::OnConnWriteBlocked: insert into the QuicLinkedHashMap; a
\* conn already there keeps its place.
InsertBlocked(q, c) == IF c \in ToSet(q) THEN q ELSE Append(q, c)

\* The outcomes of PuicDialer::WritePacket for one packet: BLOCKED when
\* latched or when the stack is empty; otherwise a request is popped and
\* uv_udp_send either queues it or fails at once.
WriteOutcomes(wb) ==
    IF wb \/ pool = 0 THEN {"blocked"}
    ELSE IF SyncSendFail THEN {"ok", "error"} ELSE {"ok"}

\* Bug variant: a BLOCKED write counted as a send in flight.
WritePacket_countBlocked(st, wb) ==
    /\ writeBlocked' = (wb \/ pool = 0)
    /\ pool' = IF st = "blocked" THEN pool ELSE pool - 1
    /\ inflight' = IF st = "error" THEN inflight ELSE inflight + 1

\* PuicDialer::WritePacket with outcome st, m_writeBlocked being wb.  An empty stack latches
\* m_writeBlocked; a failed uv_udp_send returns WRITE_STATUS_ERROR without
\* pushing the popped request back.  Assigns writeBlocked, pool, inflight.
WritePacket(st, wb) ==
    /\ writeBlocked' = (wb \/ pool = 0)
    /\ pool' = IF st = "blocked" THEN pool ELSE pool - 1
    /\ inflight' = IF st = "ok" THEN inflight + 1 ELSE inflight

\* Bug variant: wakeup() with an if for its while, waking one conn only.
Wake_headOnly(q, p, pend, fl) ==
    IF q = <<>> \/ pend[Head(q)] > p
    THEN [blocked |-> q, pool |-> p, pending |-> pend, inflight |-> fl,
          writeBlocked |-> q # <<>>]
    ELSE [blocked |-> Tail(q), pool |-> p - pend[Head(q)],
          pending |-> [pend EXCEPT ![Head(q)] = 0],
          inflight |-> fl + pend[Head(q)], writeBlocked |-> FALSE]

\* PuicDialer::wakeup() from state (q, p, pend, fl): take the oldest
\* blocked conn off the list, OnTransportCanWrite -> SetWritable on its
\* per-session writer and write its queued packets.  When the stack runs
\* out before they are all written, the packet that finds it empty latches
\* m_writeBlocked, the session blocks again and re-inserts itself at the
\* end, and the loop stops.  Yields the new list, stack size, queued
\* packets, in-flight count and m_writeBlocked.
RECURSIVE Wake(_, _, _, _)
Wake(q, p, pend, fl) ==
    IF q = <<>>
    THEN [blocked |-> q, pool |-> p, pending |-> pend, inflight |-> fl,
          writeBlocked |-> FALSE]
    ELSE LET c == Head(q)
         IN  IF pend[c] <= p
             THEN Wake(Tail(q), p - pend[c], [pend EXCEPT ![c] = 0],
                       fl + pend[c])
             ELSE [blocked |-> Append(Tail(q), c), pool |-> 0,
                   pending |-> [pend EXCEPT ![c] = pend[c] - p],
                   inflight |-> fl + p, writeBlocked |-> TRUE]

\* Bug variant: the closed conn is not erased from m_blockedConns.
OnConnClosed_keepBlocked(c, cs, q) ==
    /\ alarm' = IF \A d \in Conns : cs[d] # "closed" THEN TRUE ELSE alarm
    /\ conn' = [cs EXCEPT ![c] = "closed"]
    /\ blocked' = q

\* Bug variant: the alarm armed only when closed conns already wait.
OnConnClosed_armInverted(c, cs, q) ==
    /\ alarm' = IF \E d \in Conns : cs[d] = "closed" THEN TRUE ELSE alarm
    /\ conn' = [cs EXCEPT ![c] = "closed"]
    /\ blocked' = Remove(q, c)

\* PuicDialer::OnConnClosed, the registry being cs: arm the zero-delay
\* alarm if no closed conn waits for it yet, move the conn to
\* m_closedConns and erase it from m_blockedConns.
\* Assigns conn, blocked and alarm.
OnConnClosed(c, cs, q) ==
    /\ alarm' = IF \A d \in Conns : cs[d] # "closed" THEN TRUE ELSE alarm
    /\ conn' = [cs EXCEPT ![c] = "closed"]
    /\ blocked' = Remove(q, c)

\* Session c, whose per-session writer is not blocked, writes one packet,
\* m_writeBlocked being wb and the registry cs: PuicPerSessionWriter::
\* WritePacket -> PuicDialer::WritePacket.  BLOCKED latches the session's
\* writer, the packet stays queued and QuicConnection reports
\* OnWriteBlocked -> PuicClientConn::OnWriteBlocked -> OnConnWriteBlocked;
\* WRITE_STATUS_ERROR closes the connection silently (OnClosed ->
\* OnConnClosed).  Assigns writeBlocked, pool, inflight, conn, blocked,
\* alarm and pending.
SendPacket(c, wb, cs) ==
    \E st \in WriteOutcomes(wb) :
        /\ WritePacket(st, wb)
        /\ CASE st = "ok" ->
                    /\ conn' = cs /\ UNCHANGED <<blocked, alarm, pending>>
             [] st = "blocked" ->
                    /\ pending' = [pending EXCEPT ![c] = 1]
                    /\ blocked' = InsertBlocked(blocked, c)
                    /\ conn' = cs /\ UNCHANGED alarm
             [] st = "error" ->
                    /\ OnConnClosed(c, cs, blocked)
                    /\ UNCHANGED pending

\* PuicDialer::stop() on its socket: uv_close (the sends still pending
\* will be called back on a closing handle) and m_writeBlocked, before the
\* sessions are closed, so that their CONNECTION_CLOSE packets are
\* BLOCKED instead of reaching uv_udp_send on the null m_socket; then the
\* alarm is cancelled and m_cryptoConfig reset.  Returns at once when not
\* started.  Assigns started, writeBlocked, inflight and orphaned.
stop ==
    IF started
    THEN /\ started' = FALSE /\ writeBlocked' = TRUE
         /\ orphaned' = orphaned + inflight /\ inflight' = 0
    ELSE UNCHANGED <<started, writeBlocked, inflight, orphaned>>

(***************************************************************************)
(* Actions                                                                 *)
(***************************************************************************)

\* PuicDialer::start(), which CreateConn calls while m_cryptoConfig is
\* null: a new socket bound and receiving, m_writeBlocked = false, a new
\* unarmed DeleteConnsAlarm and crypto config; a started dialer returns
\* PUICLIERR_STATE.  Yields the m_writeBlocked the first packet sees.
start == IF started THEN writeBlocked ELSE FALSE

\* ProxyJob::Start of puicagent: PUICCLIENT_CreateConn -> PuicDialer::
\* CreateConn, which first start()s a stopped dialer (new socket, a new
\* alarm, m_writeBlocked = false) and registers the conn; then
\* PUICCLIENT_ConnConnect writes the first handshake packet.  A start()
\* whose bind fails returns nullptr and changes nothing here.
CreateConn(c) ==
    /\ ~gone /\ conn[c] = "none" /\ sends < MaxSends
    /\ sends' = sends + 1
    /\ started' = TRUE
    /\ SendPacket(c, start, [conn EXCEPT ![c] = "live"])
    /\ UNCHANGED <<orphaned, gone>>

\* The session of a live conn writes a packet (stream data, an ack for a
\* packet PuicDialer::dispatch delivered, a retransmission).  While its
\* writer is blocked QuicConnection only queues it and reports
\* OnWriteBlocked again (the conn keeps its place in m_blockedConns).
SessionWrite(c) ==
    /\ ~gone /\ conn[c] = "live" /\ sends < MaxSends
    /\ sends' = sends + 1
    /\ IF pending[c] > 0
       THEN /\ pending[c] < MaxPending
            /\ pending' = [pending EXCEPT ![c] = @ + 1]
            /\ UNCHANGED <<writeBlocked, pool, inflight, conn, blocked, alarm>>
       ELSE SendPacket(c, writeBlocked, conn)
    /\ UNCHANGED <<started, orphaned, gone>>

\* The session closes: handshake or idle timeout, a close from the peer,
\* or PUICCLIENT_ConnDisconnect.  A local close first writes a
\* CONNECTION_CLOSE packet unless its writer is blocked; then OnClosed ->
\* OnConnClosed.
SessionClose(c) ==
    /\ ~gone /\ conn[c] = "live"
    /\ \/ /\ OnConnClosed(c, conn, blocked)
          /\ UNCHANGED <<writeBlocked, pool, inflight, pending, sends>>
       \/ /\ pending[c] = 0 /\ sends < MaxSends
          /\ sends' = sends + 1
          /\ \E st \in WriteOutcomes(writeBlocked) :
                /\ WritePacket(st, writeBlocked)
                /\ OnConnClosed(c, conn, blocked)
          /\ UNCHANGED pending
    /\ UNCHANGED <<started, orphaned, gone>>

\* PuicDialer::on_uv_send on the open socket: push the request back; if
\* the dialer was write-blocked and the stack is full again, clear the
\* latch and wakeup().
SendDone ==
    /\ inflight > 0
    /\ IF writeBlocked /\ pool + 1 = N
       THEN LET w == Wake(blocked, pool + 1, pending, inflight - 1)
            IN  /\ pool' = w.pool /\ inflight' = w.inflight
                /\ blocked' = w.blocked /\ pending' = w.pending
                /\ writeBlocked' = w.writeBlocked
       ELSE /\ pool' = pool + 1 /\ inflight' = inflight - 1
            /\ UNCHANGED <<blocked, pending, writeBlocked>>
    /\ UNCHANGED <<started, orphaned, conn, alarm, gone, sends>>

\* PuicDialer::on_uv_send for a request of a socket stop() closed: the
\* handle is closing, so the request is freed.
OrphanDone ==
    /\ orphaned > 0
    /\ orphaned' = orphaned - 1
    /\ UNCHANGED <<started, writeBlocked, pool, inflight, conn, blocked,
                   pending, alarm, gone, sends>>

\* DeleteConnsAlarm -> PuicDialer::DeleteConns(true): delete the closed
\* conns and, when no conn is left, stop() the dialer.
DeleteConns ==
    /\ alarm /\ ~gone
    /\ conn' = [c \in Conns |-> IF conn[c] = "closed" THEN "deleted"
                                ELSE conn[c]]
    /\ alarm' = FALSE
    /\ IF Live = {}
       THEN stop
       ELSE UNCHANGED <<started, writeBlocked, inflight, orphaned>>
    /\ UNCHANGED <<pool, blocked, pending, gone, sends>>

\* ProxyManager::Stop at exit -> PUICCLIENT_DialerClose: Stop() ->
\* stop(), whose loop closes every live session (OnConnClosed re-arms the
\* alarm) and DeleteConns(false) deletes them; then the dialer and its
\* alarm are deleted.
Stop ==
    /\ ~gone
    /\ gone' = TRUE
    /\ stop
    /\ conn' = [c \in Conns |-> IF started /\ conn[c] \in {"live", "closed"}
                                THEN "deleted" ELSE conn[c]]
    /\ blocked' = IF started THEN <<>> ELSE blocked
    /\ alarm' = FALSE
    /\ UNCHANGED <<pool, pending, sends>>

\* The dialer is deleted and every send has been called back.
Terminated ==
    /\ gone /\ orphaned = 0
    /\ UNCHANGED vars

Next ==
    \/ \E c \in Conns : CreateConn(c) \/ SessionWrite(c) \/ SessionClose(c)
    \/ SendDone \/ OrphanDone \/ DeleteConns \/ Stop \/ Terminated

\* libuv calls every send back and fires the zero-delay timer; the
\* sessions and the program's exit get no fairness.
Fairness ==
    WF_vars(SendDone) /\ WF_vars(OrphanDone) /\ WF_vars(DeleteConns)

Spec == Init /\ [][Next]_vars /\ Fairness

(***************************************************************************)
(* Properties                                                              *)
(***************************************************************************)

\* wakeup() can only reach the conns that are in m_blockedConns: the list
\* holds exactly the live conns whose session has packets queued behind a
\* blocked writer (OnConnWriteBlocked on every BLOCKED, erased on wakeup
\* and in OnConnClosed), and it is empty unless the dialer is latched
\* write-blocked, since only on_uv_send clearing m_writeBlocked drains it.
WakeupListExact ==
    /\ ToSet(blocked) = {c \in Live : pending[c] > 0}
    /\ blocked # <<>> => writeBlocked

\* A blocked session is eventually woken by on_uv_send -> wakeup(), or
\* closes, unless a send request is gone for good: one popped by a
\* WritePacket whose uv_udp_send failed at once (never pushed back), or
\* one freed by on_uv_send on a socket stop() closed.  on_uv_send clears
\* m_writeBlocked only when all MaxFlyingMessages requests are back, so
\* no other state may leave a writer blocked for ever.
WriterWokenUnlessLost ==
    \A c \in Conns :
        (conn[c] = "live" /\ pending[c] > 0)
            ~> (pending[c] = 0 \/ conn[c] # "live"
                \/ pool + inflight + orphaned < N)

\* Spec C1: a blocked writer is woken once in-flight sends complete.  The
\* dialer clears m_writeBlocked only when all MaxFlyingMessages requests
\* are back in the stack, so this holds only while none is lost.
WriterEventuallyWoken ==
    \A c \in Conns :
        (conn[c] = "live" /\ pending[c] > 0)
            ~> (pending[c] = 0 \/ conn[c] # "live")

\* Every closed conn is eventually deleted: OnConnClosed arms the
\* DeleteConnsAlarm only for the first one, and the alarm deletes them all.
ClosedConnsDeleted ==
    \A c \in Conns : conn[c] = "closed" ~> conn[c] = "deleted"
=============================================================================
