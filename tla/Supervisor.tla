----------------------------- MODULE Supervisor -----------------------------
(***************************************************************************)
(* The multi-process supervisor of puicproxy and puicagent                 *)
(* (src/puicproxy/src/multi_proxy_main.cc; the agent's copy differs only   *)
(* in the worker's arguments) together with the life of each worker        *)
(* process (proxy_main.cc): the supervisor spawns one worker per listen    *)
(* address, respawns a worker that died abnormally from child_exit_cb,     *)
(* and on SIGINT/SIGTERM sends SIGTERM to every worker and waits for all   *)
(* of them.  A worker installs its own SIGINT/SIGTERM handlers first; a    *)
(* SIGTERM that arrives before that kills it.                              *)
(***************************************************************************)
EXTENDS Naturals, IpUtil

CONSTANTS
    NWorkers,       \* listen addresses, at least 2 (one takes the fast path)
    MaxCrashes,     \* abnormal worker deaths in a run, at most
    SpawnMayFail    \* whether uv_spawn may fail (fork or exec error)

ASSUME NWorkers \in Nat /\ NWorkers >= 2 /\ MaxCrashes \in Nat
ASSUME SpawnMayFail \in BOOLEAN

Workers == 1..NWorkers

VARIABLES
    arg,        \* the argument text multi_proxy_main checks; the others
                \* are well-formed (<<>> once checked)
    argZero,    \* it is the agent's -o, whose port may be 0
    phase,      \* supervisor: "args" (checking its arguments), "badargs"
                \* (returned 1), "init", "running" (first uv_run), "stopping"
                \* (second uv_run), "done" (returned 0), "failed" (returned
                \* the uv_spawn error)
    proc,       \* each ChildProcess: "idle" (no process), "starting" (no
                \* signal handler yet), "serving", "quitting" (handling
                \* SIGTERM), "exited" (exit_cb not yet run)
    last,       \* how its last process ended: "none", "clean" (exit 0 or
                \* 1), "signal", "spawn_failed"
    crashes     \* abnormal deaths so far

vars == <<arg, argZero, phase, proc, last, crashes>>

Alive == {"starting", "serving", "quitting"}

TypeOK ==
    /\ arg \in AddrTexts \cup {<<>>} /\ argZero \in BOOLEAN
    /\ phase \in {"args", "badargs", "init", "running", "stopping", "done",
                  "failed"}
    /\ proc \in [Workers -> Alive \cup {"idle", "exited"}]
    /\ last \in [Workers -> {"none", "clean", "signal", "spawn_failed"}]
    /\ crashes \in 0..MaxCrashes
    \* an exited process has an exit status or a terminating signal
    /\ \A i \in Workers : proc[i] = "exited" => last[i] \in {"clean", "signal"}

\* multi_proxy_main with two or more listen addresses: one ChildProcess
\* per address, none spawned yet.
Init ==
    /\ arg \in AddrTexts /\ argZero \in BOOLEAN
    /\ phase = "args"
    /\ proc = [i \in Workers |-> "idle"]
    /\ last = [i \in Workers |-> "none"]
    /\ crashes = 0

\* The outcomes of uv_spawn.
SpawnOutcomes == IF SpawnMayFail THEN {TRUE, FALSE} ELSE {TRUE}

(***************************************************************************)
(* Supervisor                                                              *)
(***************************************************************************)

\* multi_proxy_main checks every listen address, the agent's output
\* address (port 0 allowed) and the forward address with parse_addr, and
\* prints an error and returns 1 at the first that fails.
ParseArgs ==
    /\ phase = "args"
    /\ phase' = IF parse_addr(arg, argZero).ok THEN "init" ELSE "badargs"
    /\ arg' = <<>> /\ argZero' = FALSE
    /\ UNCHANGED <<proc, last, crashes>>

\* _multi_proxy_main: uv_spawn each worker in order; the first failure
\* returns its error at once (k is that worker, NWorkers + 1 if none
\* fails), leaving the workers already spawned running.
Spawn ==
    /\ phase = "init"
    /\ \E k \in 1..(NWorkers + 1) :
         /\ k <= NWorkers => SpawnMayFail
         /\ proc' = [i \in Workers |-> IF i < k THEN "starting" ELSE "idle"]
         /\ phase' = IF k = NWorkers + 1 THEN "running" ELSE "failed"
         /\ last' = [i \in Workers |-> IF i = k THEN "spawn_failed"
                                       ELSE last[i]]
    /\ UNCHANGED <<arg, argZero, crashes>>

\* child_exit_cb, run by the supervisor's loop in either uv_run: a worker
\* that exited with code 0 or 1 and no signal is left alone; any other
\* exit is logged and the worker respawned with the same options,
\* whether or not the supervisor is shutting down.
ExitCb(i) ==
    /\ phase \in {"running", "stopping"}
    /\ proc[i] = "exited"
    /\ IF last[i] = "clean"
         THEN /\ proc' = [proc EXCEPT ![i] = "idle"]
              /\ UNCHANGED last
         ELSE \E ok \in SpawnOutcomes :
                /\ proc' = [proc EXCEPT ![i] = IF ok THEN "starting" ELSE "idle"]
                /\ last' = IF ok THEN last
                           ELSE [last EXCEPT ![i] = "spawn_failed"]
    /\ UNCHANGED <<arg, argZero, phase, crashes>>

\* SIGINT or SIGTERM to the supervisor: stop_signal_cb ends the first
\* uv_run, and each worker gets SIGTERM through uv_process_kill.  A worker
\* that has not yet installed its handlers dies of it; one that has
\* starts its shutdown; the supervisor then enters its second uv_run.
StopSignal ==
    /\ phase = "running"
    /\ phase' = "stopping"
    /\ proc' = [i \in Workers |->
                  CASE proc[i] = "starting" -> "exited"
                    [] proc[i] = "serving"  -> "quitting"
                    [] OTHER                -> proc[i]]
    /\ last' = [i \in Workers |->
                  IF proc[i] = "starting" THEN "signal" ELSE last[i]]
    /\ UNCHANGED <<arg, argZero, crashes>>

\* The second uv_run returns once no process handle is active; the
\* supervisor logs "all proxies quit" and returns 0.
Exit ==
    /\ phase = "stopping"
    /\ \A i \in Workers : proc[i] = "idle"
    /\ phase' = "done"
    /\ UNCHANGED <<arg, argZero, proc, last, crashes>>

(***************************************************************************)
(* Worker process (_proxy_main)                                            *)
(***************************************************************************)

\* The worker installs its SIGINT/SIGTERM handlers, builds the
\* ProxyManager and starts it; a failed Start returns 1.
WorkerStart(i) ==
    /\ proc[i] = "starting"
    /\ \/ proc' = [proc EXCEPT ![i] = "serving"]
          /\ UNCHANGED last
       \/ proc' = [proc EXCEPT ![i] = "exited"]
          /\ last' = [last EXCEPT ![i] = "clean"]
    /\ UNCHANGED <<arg, argZero, phase, crashes>>

\* A worker that got SIGTERM leaves its first uv_run, stops the manager,
\* drains its loop and returns 0.
WorkerQuit(i) ==
    /\ proc[i] = "quitting"
    /\ proc' = [proc EXCEPT ![i] = "exited"]
    /\ last' = [last EXCEPT ![i] = "clean"]
    /\ UNCHANGED <<arg, argZero, phase, crashes>>

\* A worker dies abnormally (a fatal signal) at any point of its life.
WorkerCrash(i) ==
    /\ proc[i] \in Alive
    /\ crashes < MaxCrashes
    /\ proc' = [proc EXCEPT ![i] = "exited"]
    /\ last' = [last EXCEPT ![i] = "signal"]
    /\ crashes' = crashes + 1
    /\ UNCHANGED <<arg, argZero, phase>>

\* The supervisor has returned and the workers it leaves have ended.
Terminated ==
    /\ phase \in {"badargs", "done", "failed"}
    /\ \A i \in Workers : proc[i] \in {"idle", "exited"}
    /\ UNCHANGED vars

Next ==
    \/ ParseArgs
    \/ Spawn
    \/ StopSignal
    \/ Exit
    \/ Terminated
    \/ \E i \in Workers :
         \/ ExitCb(i)
         \/ WorkerStart(i)
         \/ WorkerQuit(i)
         \/ WorkerCrash(i)

\* The supervisor's loop runs every callback that is ready, and the
\* kernel runs every worker; crashes and the stop signal are the
\* environment's and get no fairness.
Fairness ==
    /\ WF_vars(ParseArgs)
    /\ WF_vars(Spawn)
    /\ WF_vars(Exit)
    /\ \A i \in Workers :
         /\ WF_vars(ExitCb(i))
         /\ WF_vars(WorkerStart(i))
         /\ WF_vars(WorkerQuit(i))

Spec == Init /\ [][Next]_vars /\ Fairness

(***************************************************************************)
(* Properties                                                              *)
(***************************************************************************)

\* Spec: the supervisor exits with code 0 on SIGINT/SIGTERM once all
\* workers have quit; a stop signal (StopSignal, then the kills of
\* _multi_proxy_main) eventually ends the second uv_run.
StopTerminates == (phase = "stopping") ~> (phase = "done")

=============================================================================
