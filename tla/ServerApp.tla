------------------------------ MODULE ServerApp ------------------------------
(***************************************************************************)
(* The server around its sessions: accepting connections and shutting down *)
(* (src/server/server-app.cpp), the one GPU lease with its cancellation    *)
(* tokens (gpu-lease.cpp), the one worker slot, the HTTP session of a      *)
(* connection with its batch request (http-session.cpp), and main.         *)
(*                                                                         *)
(* One I/O thread runs every handler to its end, so a handler is one       *)
(* action; the worker thread takes one action per access to shared state.  *)
(* A realtime session appears by what it does to this state: it starts the *)
(* worker, finishes, or goes away (RealtimeSession models its inside).     *)
(***************************************************************************)
EXTENDS Naturals, FiniteSets

CONSTANTS
    Conns,   \* bound: connections, each makes one request
    Nobody   \* no connection

ASSUME ServerAssumption == Nobody \notin Conns /\ IsFiniteSet(Conns)

VARIABLES
    server,     \* "up", "stopping", "stopped" (io_context), "exited" (main)
    accepting,  \* an async_accept waits for a connection
    sessions,   \* keys of sessions_
    doneposts,  \* posted on_worker_finished handlers
    mode,       \* GpuLeaseManager::mode_
    active,     \* whose token active_cancellation_ is
    lease,      \* who holds a connection's GpuLease: "none", "session", "worker"
    token,      \* reason of the Cancellation of a connection's lease
    stage,      \* what a connection's session waits for
    closed,     \* closed_
    watch,      \* its wait for readability while a batch runs
    outcome,    \* the batch result posted to it
    sent,       \* the response it began to write
    stirred,    \* history: its client sent bytes or left while a batch ran
    wpc,        \* where the worker thread is
    owner,      \* whose task it runs
    wresult     \* the result of a batch task

appVars    == << server, accepting, sessions, doneposts >>
leaseVars  == << mode, active, lease, token >>
connVars   == << stage, closed, watch, outcome, sent, stirred >>
workerVars == << wpc, owner, wresult >>
vars == << appVars, leaseVars, connVars, workerVars >>

-----------------------------------------------------------------------------
(* Gpu lease and worker slot. *)

\* Cancellation::request: the first reason stays.
Requested(t, reason) == IF t = "none" THEN reason ELSE t

\* GpuLeaseManager::try_acquire of a free lease, with a new token.
Acquired(c, m, holder) ==
    /\ mode' = m /\ active' = c
    /\ lease' = [lease EXCEPT ![c] = holder]
    /\ token' = [token EXCEPT ![c] = "none"]

\* The mode after GpuLeaseManager::release(m).
ModeAfter(m) == IF mode = m THEN "free" ELSE mode

ModeOf(c) == IF stage[c] \in {"realtime", "ended"} THEN "realtime" ELSE "batch"

\* GpuLease::reset of a connection's lease.
Released(c) ==
    /\ mode' = ModeAfter(ModeOf(c)) /\ active' = Nobody
    /\ lease' = [lease EXCEPT ![c] = "none"]

\* running_ of the worker slot: false again before the completion is posted.
Running == wpc \in {"task", "release", "post", "free"}

\* WorkerSlot::start joins the old thread, which posts its completion first.
JoinOld == doneposts' = IF wpc = "notify" THEN doneposts + 1 ELSE doneposts

Launched(c) == wpc' = "task" /\ owner' = c /\ wresult' = "none" /\ JoinOld
StartThrows == wpc' = "idle" /\ owner' = Nobody /\ wresult' = "none" /\ JoinOld

-----------------------------------------------------------------------------
(* Sessions and the end of a shutdown. *)

\* Something still refers to the session object: an operation or a posted
\* handler, or the worker's function until its thread has ended.
Alive(c) ==
    \/ stage[c] \in {"reading", "batch", "writing", "realtime"}
    \/ watch[c] # "off"
    \/ owner = c

\* maybe_finish_shutdown with these keys, the expired ones erased.
Settled(left) ==
    IF server = "stopping" /\ ~Running /\ { c \in left : Alive(c) } = {}
    THEN "stopped" ELSE server

\* Mutant of Close: the session is not unregistered.
Close_Forgotten(c) ==
    IF closed[c] THEN UNCHANGED << server, sessions, closed >>
    ELSE /\ closed' = [closed EXCEPT ![c] = TRUE]
         /\ UNCHANGED << server, sessions >>

\* HttpSession::close and finish_session's end: unregister_session.
Close(c) ==
    IF closed[c] THEN UNCHANGED << server, sessions, closed >>
    ELSE /\ closed' = [closed EXCEPT ![c] = TRUE]
         /\ sessions' = sessions \ {c}
         /\ server' = Settled(sessions \ {c})

\* Closing or cancelling the socket aborts a wait that has not completed.
Aborted(c) == IF watch[c] = "armed" THEN "aborted" ELSE watch[c]

\* send_response, or nothing on a closed session.
Respond(c, what) ==
    IF closed[c]
    THEN stage' = [stage EXCEPT ![c] = "over"] /\ UNCHANGED sent
    ELSE /\ stage' = [stage EXCEPT ![c] = "writing"]
         /\ sent' = [sent EXCEPT ![c] = what]

Init ==
    /\ server = "up" /\ accepting = TRUE /\ sessions = {} /\ doneposts = 0
    /\ mode = "free" /\ active = Nobody
    /\ lease = [c \in Conns |-> "none"] /\ token = [c \in Conns |-> "none"]
    /\ stage = [c \in Conns |-> "none"] /\ closed = [c \in Conns |-> FALSE]
    /\ watch = [c \in Conns |-> "off"] /\ outcome = [c \in Conns |-> "none"]
    /\ sent = [c \in Conns |-> "none"] /\ stirred = [c \in Conns |-> FALSE]
    /\ wpc = "idle" /\ owner = Nobody /\ wresult = "none"

-----------------------------------------------------------------------------
(* The I/O thread. *)

IoRuns == server \in {"up", "stopping"}

\* The system completes the async_accept; its handler is queued.
Connect(c) ==
    /\ server = "up" /\ accepting /\ stage[c] = "none"
    /\ accepting' = FALSE
    /\ stage' = [stage EXCEPT ![c] = "accepted"]
    /\ UNCHANGED << server, sessions, doneposts, leaseVars, closed, watch, outcome,
                    sent, stirred, workerVars >>

\* The accept handler; one already queued runs although the server stops.
OnAccept(c) ==
    /\ IoRuns /\ stage[c] = "accepted"
    /\ stage' = [stage EXCEPT ![c] = "reading"]
    /\ sessions' = sessions \cup {c}
    /\ accepting' = (server = "up")
    /\ UNCHANGED << server, doneposts, leaseVars, closed, watch, outcome, sent, stirred,
                    workerVars >>

\* on_read with an error: the peer left, the idle timeout, or the session closed
\* its socket.
ReadFails(c) ==
    /\ IoRuns /\ stage[c] = "reading"
    /\ stage' = [stage EXCEPT ![c] = "left"]
    /\ Close(c)
    /\ UNCHANGED << accepting, doneposts, leaseVars, watch, outcome, sent, stirred,
                    workerVars >>

\* A request that is answered at once: /health, a bad path, method, upgrade,
\* token, size, format or type.
ReadOther(c) ==
    /\ IoRuns /\ stage[c] = "reading"
    /\ Respond(c, "other")
    /\ UNCHANGED << appVars, leaseVars, closed, watch, outcome, stirred, workerVars >>

\* handle_batch and handle_realtime_upgrade without the lease.
ReadRefused(c) ==
    /\ IoRuns /\ stage[c] = "reading"
    /\ server = "stopping" \/ mode # "free"
    /\ Respond(c, IF server = "stopping" THEN "stopping" ELSE "busy")
    /\ UNCHANGED << appVars, leaseVars, closed, watch, outcome, stirred, workerVars >>

\* handle_batch and start_batch: the lease, the worker, the disconnect watch.
ReadBatch(c) ==
    /\ IoRuns /\ stage[c] = "reading" /\ server = "up" /\ mode = "free"
    /\ ~Running
    /\ Acquired(c, "batch", "worker")
    /\ Launched(c)
    /\ stage' = [stage EXCEPT ![c] = "batch"]
    /\ watch' = [watch EXCEPT ![c] = "armed"]
    /\ UNCHANGED << server, accepting, sessions, closed, outcome, sent, stirred >>

\* start_batch when the slot is still taken by a task that has released its
\* lease, or when no thread can be started: the lease is given back.
ReadBatchUnstarted(c) ==
    /\ IoRuns /\ stage[c] = "reading" /\ server = "up" /\ mode = "free"
    /\ \/ Running /\ Respond(c, "busy") /\ UNCHANGED << doneposts, workerVars >>
       \/ ~Running /\ Respond(c, "error") /\ StartThrows
    /\ active' = Nobody
    /\ UNCHANGED << server, accepting, sessions, mode, lease, token, closed, watch,
                    outcome, stirred >>

\* handle_realtime_upgrade: the socket and the lease move to a realtime session.
ReadRealtime(c) ==
    /\ IoRuns /\ stage[c] = "reading" /\ server = "up" /\ mode = "free"
    /\ Acquired(c, "realtime", "session")
    /\ stage' = [stage EXCEPT ![c] = "realtime"]
    /\ UNCHANGED << appVars, closed, watch, outcome, sent, stirred, workerVars >>

\* The end of the response, or of the connection.
WriteEnds(c) ==
    /\ IoRuns /\ stage[c] = "writing"
    /\ stage' = [stage EXCEPT ![c] = "over"]
    /\ Close(c)
    /\ UNCHANGED << accepting, doneposts, leaseVars, watch, outcome, sent, stirred,
                    workerVars >>

\* While its batch runs the client leaves, or sends bytes.
ClientStirs(c) ==
    /\ watch[c] = "armed"
    /\ watch' = [watch EXCEPT ![c] = "ready"]
    /\ stirred' = [stirred EXCEPT ![c] = TRUE]
    /\ UNCHANGED << appVars, leaseVars, stage, closed, outcome, sent, workerVars >>

\* The handler of watch_batch_disconnect: ignored after the result, else the
\* session's own token is cancelled and the session closed.
OnWatch(c) ==
    /\ IoRuns /\ watch[c] = "ready"
    /\ watch' = [watch EXCEPT ![c] = "off"]
    /\ IF stage[c] = "batch"
       THEN token' = [token EXCEPT ![c] = Requested(@, "disconnect")] /\ Close(c)
       ELSE UNCHANGED << token, server, sessions, closed >>
    /\ UNCHANGED << accepting, doneposts, mode, active, lease, stage, outcome, sent,
                    stirred, workerVars >>

OnWatchAborted(c) ==
    /\ IoRuns /\ watch[c] = "aborted"
    /\ watch' = [watch EXCEPT ![c] = "off"]
    /\ UNCHANGED << appVars, leaseVars, stage, closed, outcome, sent, stirred,
                    workerVars >>

\* Mutant of OnBatchResult: the result goes out, come what may.
OnBatchResult_Always(c) ==
    /\ IoRuns /\ outcome[c] # "none"
    /\ watch' = [watch EXCEPT ![c] = Aborted(c)]
    /\ stage' = [stage EXCEPT ![c] = "writing"]
    /\ sent' = [sent EXCEPT ![c] = IF outcome[c] = "ok" THEN "result" ELSE "error"]
    /\ outcome' = [outcome EXCEPT ![c] = "none"]
    /\ UNCHANGED << appVars, leaseVars, closed, stirred, workerVars >>

\* on_batch_result: a closed session, a server that stops or a cancelled batch
\* gets no answer.
OnBatchResult(c) ==
    LET silent == closed[c] \/ server = "stopping" \/ outcome[c] = "cancelled"
    IN  /\ IoRuns /\ outcome[c] # "none"
        /\ watch' = [watch EXCEPT ![c] = Aborted(c)]
        /\ outcome' = [outcome EXCEPT ![c] = "none"]
        /\ IF silent
           THEN /\ stage' = [stage EXCEPT ![c] = "over"]
                /\ UNCHANGED sent
                /\ IF outcome[c] = "cancelled" THEN Close(c)
                   ELSE UNCHANGED << server, sessions, closed >>
           ELSE /\ Respond(c, IF outcome[c] = "ok" THEN "result" ELSE "error")
                /\ UNCHANGED << server, sessions, closed >>
        /\ UNCHANGED << accepting, doneposts, leaseVars, stirred, workerVars >>

\* What a realtime session does to the server.  Its configuration starts the
\* worker and hands it the lease, or gives the lease back.
RtConfigure(c) ==
    /\ IoRuns /\ stage[c] = "realtime" /\ ~closed[c] /\ lease[c] = "session"
    /\ \/ /\ ~Running /\ Launched(c)
          /\ lease' = [lease EXCEPT ![c] = "worker"]
          /\ UNCHANGED << mode, active >>
       \/ /\ Running /\ Released(c) /\ UNCHANGED << doneposts, workerVars >>
       \/ /\ ~Running /\ Released(c) /\ StartThrows
    /\ UNCHANGED << server, accepting, sessions, token, connVars >>

\* Mutant of RtFinish: the lease is given back although the worker has it.
RtFinish_TakesBack(c) ==
    /\ IoRuns /\ stage[c] = "realtime"
    /\ stage' = [stage EXCEPT ![c] = "ended"]
    /\ Close(c)
    /\ Released(c)
    /\ token' = [token EXCEPT ![c] = Requested(@, "disconnect")]
    /\ UNCHANGED << accepting, doneposts, watch, outcome, sent, stirred, workerVars >>

\* finish_session: a lease the worker never got is cancelled and given back.
RtFinish(c) ==
    /\ IoRuns /\ stage[c] = "realtime"
    /\ stage' = [stage EXCEPT ![c] = "ended"]
    /\ Close(c)
    /\ IF lease[c] = "session"
       THEN /\ Released(c)
            /\ token' = [token EXCEPT ![c] = Requested(@, "disconnect")]
       ELSE UNCHANGED leaseVars
    /\ UNCHANGED << accepting, doneposts, watch, outcome, sent, stirred, workerVars >>

\* A session that never finishes goes with its last reference; its key stays.
RtVanish(c) ==
    /\ server = "up" /\ stage[c] = "realtime" /\ lease[c] = "none" /\ owner # c
    /\ stage' = [stage EXCEPT ![c] = "ended"]
    /\ UNCHANGED << appVars, leaseVars, closed, watch, outcome, sent, stirred,
                    workerVars >>

\* on_worker_finished.
WorkerFinished ==
    /\ IoRuns /\ doneposts > 0
    /\ doneposts' = doneposts - 1
    /\ server' = Settled(sessions)
    /\ UNCHANGED << accepting, sessions, leaseVars, connVars, workerVars >>

\* Every live session is told: an HTTP session cancels its batch and closes, a
\* realtime session cancels and stays until its last messages are out.
TellSessions ==
    LET told == { c \in sessions : Alive(c) }
        http == { c \in told : stage[c] # "realtime" }
    IN  /\ closed' = [c \in Conns |-> closed[c] \/ c \in http]
        /\ watch' = [c \in Conns |-> IF c \in http THEN Aborted(c) ELSE watch[c]]
        /\ sessions' = told \ http
        /\ token' = [c \in Conns |->
                        IF c = active \/ (c \in told /\ stage[c] \in {"batch", "realtime"})
                        THEN Requested(token[c], "shutdown") ELSE token[c]]

\* Mutant of InitiateShutdown: the lease manager is not told.
InitiateShutdown_LeaseOpen ==
    /\ server = "up"
    /\ TellSessions
    /\ accepting' = FALSE
    /\ server' = IF ~Running /\ sessions' = {} THEN "stopped" ELSE "stopping"
    /\ UNCHANGED << doneposts, mode, active, lease, stage, outcome, sent, stirred,
                    workerVars >>

\* SIGINT or SIGTERM: begin_shutdown of the lease, the acceptor, the sessions.
InitiateShutdown ==
    /\ server = "up"
    /\ mode' = "shutdown"
    /\ TellSessions
    /\ accepting' = FALSE
    /\ server' = IF ~Running /\ sessions' = {} THEN "stopped" ELSE "stopping"
    /\ UNCHANGED << doneposts, active, lease, stage, outcome, sent, stirred, workerVars >>

\* Mutant of ForceShutdown: the deadline waits for the last session.
ForceShutdown_Patient ==
    /\ server = "stopping" /\ sessions = {}
    /\ TellSessions
    /\ server' = "stopped"
    /\ UNCHANGED << accepting, doneposts, mode, active, lease, stage, outcome, sent,
                    stirred, workerVars >>

\* force_shutdown after kShutdownTimeout: the io_context stops.
ForceShutdown ==
    /\ server = "stopping"
    /\ TellSessions
    /\ server' = "stopped"
    /\ UNCHANGED << accepting, doneposts, mode, active, lease, stage, outcome, sent,
                    stirred, workerVars >>

\* main: join_worker after io_context.run.
MainExits ==
    /\ server = "stopped" /\ wpc = "idle"
    /\ server' = "exited"
    /\ UNCHANGED << accepting, sessions, doneposts, leaseVars, connVars, workerVars >>

-----------------------------------------------------------------------------
(* The worker thread. *)

\* transcribe_batch or inference_worker returns; a batch may have met the
\* cancellation or not.
TaskEnds ==
    /\ wpc = "task"
    /\ wresult' \in (IF stage[owner] # "batch" THEN {"none"}
                     ELSE {"ok", "failed"} \cup
                          (IF token[owner] = "none" THEN {} ELSE {"cancelled"}))
    /\ wpc' = "release"
    /\ UNCHANGED << appVars, leaseVars, connVars, owner >>

ReleaseLease ==
    /\ wpc = "release"
    /\ Released(owner)
    /\ wpc' = IF wresult = "none" THEN "free" ELSE "post"
    /\ UNCHANGED << appVars, token, connVars, owner, wresult >>

\* The batch result is posted to the session.
PostResult ==
    /\ wpc = "post"
    /\ outcome' = [outcome EXCEPT ![owner] = wresult]
    /\ wpc' = "free"
    /\ UNCHANGED << appVars, leaseVars, stage, closed, watch, sent, stirred, owner,
                    wresult >>

\* The slot is free, then says so, then the thread drops its function.
FreeSlot ==
    /\ wpc = "free" /\ wpc' = "notify"
    /\ UNCHANGED << appVars, leaseVars, connVars, owner, wresult >>

Notify ==
    /\ wpc = "notify" /\ wpc' = "unwind"
    /\ doneposts' = doneposts + 1
    /\ UNCHANGED << server, accepting, sessions, leaseVars, connVars, owner, wresult >>

\* Mutant of ThreadEnds: the thread keeps its function.
ThreadEnds_KeepsFunction ==
    /\ wpc = "unwind" /\ wpc' = "idle"
    /\ UNCHANGED << appVars, leaseVars, connVars, owner, wresult >>

ThreadEnds ==
    /\ wpc = "unwind"
    /\ wpc' = "idle" /\ owner' = Nobody /\ wresult' = "none"
    /\ UNCHANGED << appVars, leaseVars, connVars >>

Peers(c) == Connect(c) \/ ReadFails(c) \/ ReadOther(c) \/ ReadRefused(c) \/ ReadBatch(c)
            \/ ReadBatchUnstarted(c) \/ ReadRealtime(c) \/ ClientStirs(c)
            \/ RtConfigure(c) \/ RtFinish(c) \/ RtVanish(c)

Ready(c) == OnAccept(c) \/ WriteEnds(c) \/ OnWatch(c) \/ OnWatchAborted(c)
            \/ OnBatchResult(c)

Worker == TaskEnds \/ ReleaseLease \/ PostResult \/ FreeSlot \/ Notify \/ ThreadEnds

Next ==
    \/ \E c \in Conns : Peers(c) \/ Ready(c)
    \/ Worker \/ WorkerFinished
    \/ InitiateShutdown \/ ForceShutdown \/ MainExits

Spec == Init /\ [][Next]_vars

\* A realtime task ends when its session has finished; an open one may wait for
\* the I/O thread.  A told session finishes within its timeouts, and a session
\* that closed its socket hears of the aborted read.
FollowsSession == wpc = "task" /\ (stage[owner] = "realtime" => closed[owner])
Told(c)        == server = "stopping" /\ stage[c] = "realtime"

FairSpec ==
    /\ Spec
    /\ WF_vars((wpc = "task" => FollowsSession) /\ Worker)
    /\ WF_vars((\E c \in Conns : Ready(c)) \/ WorkerFinished)
    /\ \A c \in Conns : WF_vars(closed[c] /\ ReadFails(c)) /\ WF_vars(Told(c) /\ RtFinish(c))
    /\ WF_vars(ForceShutdown) /\ WF_vars(MainExits)

-----------------------------------------------------------------------------
(* Properties. *)

Reasons == {"none", "disconnect", "shutdown"}

TypeOK ==
    /\ server \in {"up", "stopping", "stopped", "exited"}
    /\ accepting \in BOOLEAN /\ sessions \subseteq Conns /\ doneposts \in Nat
    /\ mode \in {"free", "batch", "realtime", "shutdown"}
    /\ active \in Conns \cup {Nobody}
    /\ lease \in [Conns -> {"none", "session", "worker"}]
    /\ token \in [Conns -> Reasons]
    /\ stage \in [Conns -> {"none", "accepted", "reading", "batch", "writing",
                            "realtime", "ended", "left", "over"}]
    /\ closed \in [Conns -> BOOLEAN] /\ stirred \in [Conns -> BOOLEAN]
    /\ watch \in [Conns -> {"off", "armed", "ready", "aborted"}]
    /\ outcome \in [Conns -> {"none", "ok", "failed", "cancelled"}]
    /\ sent \in [Conns -> {"none", "other", "busy", "stopping", "result", "error"}]
    /\ wpc \in {"idle", "task", "release", "post", "free", "notify", "unwind"}
    /\ owner \in Conns \cup {Nobody} /\ (owner = Nobody <=> wpc = "idle")
    /\ wresult \in {"none", "ok", "failed", "cancelled"}

Holders == { c \in Conns : lease[c] # "none" }

\* One user of the engine: at most one connection holds the lease, the manager
\* knows it and its mode, and only the holder's task can touch the engine, although
\* the lease is free before the slot is and a shutdown changes the mode under
\* a holder (try_acquire, release, start_batch, start_inference_worker).
OneEngineUser ==
    /\ \A c, d \in Holders : c = d
    /\ \A c \in Holders : active = c /\ mode \in {ModeOf(c), "shutdown"}
    /\ \A c \in Conns : lease[c] = "session" => stage[c] = "realtime"
    /\ Holders = {} => active = Nobody /\ mode \in {"free", "shutdown"}
    /\ wpc \in {"task", "release"} => lease[owner] = "worker"
    /\ \A c \in Conns : lease[c] = "worker" => owner = c /\ wpc \in {"task", "release"}

\* A shutdown reaches whoever holds the lease, wherever its acquisition or
\* release stands, and nobody acquires it afterwards (begin_shutdown).
ShutdownReachesHolder ==
    server # "up" => mode = "shutdown" /\ \A c \in Holders : token[c] # "none"

\* Every request is answered for itself.  A batch that was cancelled sends no
\* result; only its own client or a shutdown cancels it; and a request that gets no
\* answer lost its client while it ran, sent more than itself, or met a shutdown
\* (watch_batch_disconnect, on_batch_result).
AnsweredForItself ==
    \A c \in Conns :
        /\ token[c] # "none" => sent[c] # "result"
        /\ token[c] = "disconnect" => stirred[c] \/ closed[c]
        /\ stage[c] = "over" /\ sent[c] = "none" => stirred[c] \/ server # "up"

\* Nothing is left over when a shutdown waits: a session somebody still refers to,
\* the running worker, or a posted handler will end it (maybe_finish_shutdown
\* runs at every unregister and after every task).
ShutdownNotLost ==
    server = "stopping" =>
        \/ Running \/ wpc = "notify" \/ doneposts > 0
        \/ \E c \in sessions : Alive(c)

\* The deadline ends every shutdown: main returns unless a realtime session that
\* never finished still holds the worker (force_shutdown, join_worker).
ShutdownEnds ==
    server = "stopping" ~>
        server = "exited" \/ (server = "stopped" /\ wpc = "task" /\ stage[owner] = "realtime")
=============================================================================
