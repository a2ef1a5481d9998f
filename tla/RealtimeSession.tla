-------------------------- MODULE RealtimeSession --------------------------
(***************************************************************************)
(* One realtime WebSocket session of the server: its handlers on the single*)
(* I/O thread, its inference worker on a thread of its own, the bounded PCM*)
(* queue from the first to the second, the bounded outbound queue back to  *)
(* the client, and the server's shutdown.                                  *)
(*                                                                         *)
(* A handler runs to its end before the next one starts, so each is one    *)
(* action.  The worker takes one action per access to state it shares with *)
(* the I/O thread.  Audio is counted in worker chunks (1280 samples); the  *)
(* outbound queue is bounded by its message count.  The stream behind the  *)
(* worker is external: a feed yields some events, and may ask for a resume *)
(* or fail (StreamRuntime models it).                                      *)
(***************************************************************************)
EXTENDS Integers, Sequences, FiniteSetsExt, SequencesExt

CONSTANTS
    Capacity,       \* capacity_samples_ in chunks
    MaxOut,         \* kMaxOutboundMessages
    FrameSizes,     \* bound: chunks in one binary frame
    MaxAudio,       \* bound: chunks a client sends
    MaxSeq,         \* bound: events of the public stream before the last two
    MaxPings,       \* bound: application pings
    MaxWarnings,    \* bound: lag warnings
    TokenChoices,   \* bound: values of events.token a client may configure
    PartialChoices, \* bound: values of events.partial
    Faults,         \* TRUE when the stream may fail
    Signals,        \* bound: TRUE when the server may be told to stop
    DeadlinePasses  \* bound: TRUE when a shutdown may take ten seconds

ASSUME SessionConstants ==
    /\ Capacity \in Nat \ {0} /\ MaxAudio \in Nat /\ MaxSeq \in Nat
    /\ MaxOut \in Nat /\ MaxOut >= 3
    /\ MaxPings \in Nat /\ MaxWarnings \in Nat
    /\ FrameSizes \subseteq Nat
    /\ TokenChoices \subseteq BOOLEAN /\ PartialChoices \subseteq BOOLEAN
    /\ Faults \in BOOLEAN /\ Signals \in BOOLEAN /\ DeadlinePasses \in BOOLEAN

VARIABLES
    server,          \* "up", "stopping", "stopped": the io_context's life
    accepted,        \* on_accept ran
    configured,      \* configured_
    tokenEvents,     \* realtime_config_.token_events
    partialEvents,   \* realtime_config_.partial_events
    inputEnded,      \* input_ended_
    reading,         \* read_in_progress_
    pending,         \* chunks of pending_audio_ past its offset
    received,        \* received_samples_ in chunks
    configTimer,     \* configuration_timer_ is armed
    idleTimer,       \* idle_timer_ is armed
    idleDue,         \* an expired idle timer's handler is queued
    closed,          \* closed_
    closeStarted,    \* close_started_
    closeAfterDrain, \* close_after_drain_
    lease,           \* who holds the GPU lease: "session", "worker", "free"
    reason,          \* reason_ of the lease's Cancellation
    queued,          \* chunks in input_queue_
    pcmFinishing,    \* its finishing_
    pcmCancelled,    \* its cancelled_
    outbound,        \* outbound_
    writing,         \* the message of the write in progress, if any
    outboundClosed,  \* outbound_closed_
    postedWrite,     \* a posted maybe_write is queued
    postedSpace,     \* a posted notify_input_space handler is queued
    postedDone,      \* the worker slot's completion is queued
    wpc,             \* where the worker is
    wphase,          \* what its drain belongs to: "feed" or "tail"
    wfrom,           \* what enqueues: see EnqueueReturns
    wmsg,            \* the message it enqueues
    asleep,          \* it waits on outbound_space_
    events,          \* events in the public stream's queue
    stalled,         \* the last feed answered QUEUE_FULL
    seq,             \* sequence of the last polled event
    tokenCount,      \* terminal.token_count
    fed,             \* chunks handed to the stream
    sent,            \* history: messages the client took
    pings,           \* history: pings read
    warnings,        \* history: warnings raised
    clientCancelled, \* history: a session.cancel was handled
    destroyed,       \* the session object is gone although it never finished
    broken           \* history: the connection broke

configVars == <<accepted, configured, tokenEvents, partialEvents>>
audioVars == <<pending, received>>
inputVars == <<inputEnded, reading, audioVars>>
idleVars == <<idleTimer, idleDue>>
timerVars == <<configTimer, idleVars>>
closingVars == <<closeStarted, closeAfterDrain>>
closeVars == <<closed, closingVars>>
pcmVars == <<queued, pcmFinishing, pcmCancelled>>
outVars == <<outbound, writing, outboundClosed>>
postVars == <<postedWrite, postedSpace, postedDone>>
streamVars == <<events, stalled, seq, tokenCount, fed>>
taskVars == <<wphase, wfrom, wmsg>>
workVars == <<wpc, taskVars, streamVars>>
countVars == <<pings, warnings>>
fateVars == <<clientCancelled, broken, destroyed>>
history == <<sent, countVars, fateVars>>
clientVars == <<configVars, inputVars>>
ioVars == <<server, clientVars, timerVars, closed, closeStarted, pcmFinishing,
            pcmCancelled, writing, outboundClosed, sent, pings, fateVars>>
restVars == <<pcmFinishing, writing, postVars, workVars, history>>
vars == <<server, clientVars, timerVars, closeVars, lease, reason, pcmVars,
          outVars, postVars, workVars, asleep, history>>

-----------------------------------------------------------------------------
(* Messages, the outbound queue and the cancellation token.                *)

Message(kind, n, k) == [kind |-> kind, n |-> n, k |-> k]
Plain(kind) == Message(kind, 0, 0)
NoMessage == Plain("none")

\* Cancellation::request: the first reason wins.
Requested(r) == IF reason = "none" THEN r ELSE reason
Cancelling == reason # "none"

Partials(q) == {i \in DOMAIN q : q[i].kind = "partial"}

\* Mutant of HasRoom: the write in progress does not count.
HasRoom_QueueOnly(q) == Len(q) < MaxOut

\* has_queue_capacity_locked: the write in progress counts.
HasRoom(q) == Len(q) + Len(writing) < MaxOut

\* Mutant of Trimmed: the newest message gives way, whatever it is.
Trimmed_Newest(q) == IF HasRoom(q) \/ q = <<>> THEN q ELSE Front(q)

\* enqueue_from_io gives up the newest queued snapshot before it gives up.
Trimmed(q) == IF HasRoom(q) \/ Partials(q) = {} THEN q
              ELSE RemoveAt(q, Max(Partials(q)))

IoAccepts == ~outboundClosed /\ HasRoom(Trimmed(outbound))

Running == wpc # "none"

Init ==
    /\ server = "up" /\ accepted = FALSE /\ configured = FALSE
    /\ tokenEvents = FALSE /\ partialEvents = FALSE
    /\ inputEnded = FALSE /\ reading = FALSE /\ pending = 0 /\ received = 0
    /\ configTimer = FALSE /\ idleTimer = FALSE /\ idleDue = FALSE
    /\ closed = FALSE /\ closeStarted = FALSE /\ closeAfterDrain = FALSE
    /\ lease = "session" /\ reason = "none"
    /\ queued = 0 /\ pcmFinishing = FALSE /\ pcmCancelled = FALSE
    /\ outbound = <<>> /\ writing = <<>> /\ outboundClosed = FALSE
    /\ postedWrite = FALSE /\ postedSpace = FALSE /\ postedDone = FALSE
    /\ wpc = "none" /\ wphase = "feed" /\ wfrom = "drain"
    /\ wmsg = NoMessage /\ asleep = FALSE
    /\ events = <<>> /\ stalled = FALSE /\ seq = 0 /\ tokenCount = 0 /\ fed = 0
    /\ sent = <<>> /\ pings = 0 /\ warnings = 0 /\ clientCancelled = FALSE
    /\ broken = FALSE /\ destroyed = FALSE

-----------------------------------------------------------------------------
(* What handlers share.                                                    *)

\* Everything finish_session decides about.
endVars == <<closed, outboundClosed, outbound, queued, pcmCancelled, reason,
             lease, server>>

\* Mutant of FinishSession: the lease stays with the session object.
FinishSession_KeepsLease(r) ==
    IF closed THEN UNCHANGED endVars
    ELSE /\ closed' = TRUE /\ outboundClosed' = TRUE /\ outbound' = <<>>
         /\ queued' = 0 /\ pcmCancelled' = TRUE /\ reason' = r
         /\ UNCHANGED <<server, lease>>

\* finish_session, after the handler's earlier requests left reason r; its end,
\* unregister_session, lets a shutdown that waited for it finish.
FinishSession(r) ==
    IF closed
    THEN /\ reason' = r
         /\ UNCHANGED <<server, closed, lease, queued, pcmCancelled, outbound,
                        outboundClosed>>
    ELSE /\ closed' = TRUE
         /\ queued' = 0 /\ pcmCancelled' = TRUE
         /\ outbound' = <<>> /\ outboundClosed' = TRUE
         /\ reason' = IF lease = "session" /\ r = "none" THEN "disconnect" ELSE r
         /\ lease' = IF lease = "session" THEN "free" ELSE lease
         /\ server' = IF server = "stopping" /\ ~Running THEN "stopped"
                      ELSE server

\* Mutant of WakeOnClose: the waiting worker is not told.
WakeOnClose_Never == UNCHANGED asleep

\* finish_session wakes the worker that waits for room.
WakeOnClose == asleep' = (asleep /\ ~closed')

\* protocol_failure: stop the input and the worker, send a fatal error, close
\* when it is out; without room for it the session ends at once.
ProtocolFailure(r) ==
    IF closed
    THEN UNCHANGED <<endVars, inputEnded, closeAfterDrain, postedWrite,
                     asleep>>
    ELSE /\ inputEnded' = TRUE /\ asleep' = FALSE
         /\ IF IoAccepts
            THEN /\ reason' = Requested(r)
                 /\ queued' = 0 /\ pcmCancelled' = TRUE
                 /\ outbound' = Append(Trimmed(outbound), Plain("error"))
                 /\ closeAfterDrain' = TRUE /\ postedWrite' = TRUE
                 /\ UNCHANGED <<server, closed, lease, outboundClosed>>
            ELSE /\ FinishSession(Requested(r))
                 /\ UNCHANGED <<closeAfterDrain, postedWrite>>

\* The guard of read_next, with the given number of chunks waiting.
CanRead(waiting) ==
    ~closed /\ ~closeAfterDrain /\ ~inputEnded /\ waiting = 0

\* PcmQueue::push_some of n chunks takes this many.
Accepted(n) ==
    IF pcmCancelled \/ pcmFinishing THEN 0
    ELSE IF n < Capacity - queued THEN n ELSE Capacity - queued

\* pump_pending_audio with n chunks waiting, then read_next when none is left;
\* busy says whether a read is in progress already.
PumpPendingAudio(n, busy) ==
    LET a == IF closed THEN 0 ELSE Accepted(n)
    IN  /\ pending' = n - a
        /\ queued' = queued + a
        /\ reading' = (busy \/ CanRead(n - a))

\* close_transport: with a read in progress the socket is closed under it,
\* otherwise the closing handshake starts.
CloseTransport ==
    IF closed \/ closeStarted
    THEN UNCHANGED <<endVars, configTimer, idleTimer, closeStarted>>
    ELSE /\ closeStarted' = TRUE /\ idleTimer' = FALSE /\ configTimer' = FALSE
         /\ IF reading THEN FinishSession(reason) ELSE UNCHANGED endVars

\* maybe_write when no write is in progress.
WriteNext ==
    \/ /\ closed
       /\ writing' = <<>>
       /\ UNCHANGED <<endVars, configTimer, idleTimer, closeStarted>>
    \/ /\ ~closed /\ outbound = <<>>
       /\ writing' = <<>>
       /\ IF closeAfterDrain THEN CloseTransport
          ELSE UNCHANGED <<endVars, configTimer, idleTimer, closeStarted>>
    \/ /\ ~closed /\ outbound # <<>>
       /\ writing' = <<Head(outbound)>>
       /\ outbound' = Tail(outbound)
       /\ UNCHANGED <<server, configTimer, idleTimer, closed, closeStarted,
                      lease, reason, queued, pcmCancelled, outboundClosed>>

-----------------------------------------------------------------------------
(* The handlers of the I/O thread.                                         *)

IoRuns == server # "stopped"

\* on_accept
Accept ==
    /\ IoRuns /\ ~accepted
    /\ accepted' = TRUE /\ configTimer' = TRUE
    /\ reading' = CanRead(pending)
    /\ UNCHANGED <<endVars, configured, tokenEvents, partialEvents, inputEnded,
                   audioVars, idleVars, closingVars, restVars, asleep>>

AcceptFails ==
    /\ IoRuns /\ ~accepted
    /\ accepted' = TRUE
    /\ FinishSession(reason)
    /\ WakeOnClose
    /\ UNCHANGED <<configured, tokenEvents, partialEvents, inputVars,
                   timerVars, closingVars, restVars>>

\* session.configure did not arrive within five seconds.
ConfigTimeout ==
    /\ IoRuns /\ configTimer /\ ~configured /\ ~closed
    /\ configTimer' = FALSE
    /\ ProtocolFailure("protocol")
    /\ UNCHANGED <<configVars, reading, audioVars, idleVars, closeStarted,
                   pcmFinishing, writing, postedSpace, postedDone, workVars,
                   history>>

\* The idle timer expires: from now on its handler is queued, and re-arming or
\* cancelling the timer no longer stops it.  finish_session cancels both timers,
\* so an armed timer of a closed session does not expire.
IdleExpires ==
    /\ IoRuns /\ idleTimer /\ ~closed
    /\ idleTimer' = FALSE /\ idleDue' = TRUE
    /\ UNCHANGED <<endVars, clientVars, configTimer, closingVars, restVars,
                   asleep>>

IdleHandler ==
    /\ IoRuns /\ idleDue
    /\ idleDue' = FALSE
    /\ IF inputEnded
       THEN UNCHANGED <<endVars, inputEnded, closeAfterDrain, postedWrite,
                        asleep>>
       ELSE ProtocolFailure("protocol")
    /\ UNCHANGED <<configVars, reading, audioVars, configTimer, idleTimer,
                   closeStarted, pcmFinishing, writing, postedSpace,
                   postedDone, workVars, history>>

\* on_read with an error: the peer closed, or the connection broke.
ReadFails ==
    /\ IoRuns /\ reading
    /\ reading' = FALSE /\ broken' = TRUE
    /\ FinishSession(Requested("disconnect"))
    /\ WakeOnClose
    /\ UNCHANGED <<configVars, inputEnded, audioVars, timerVars, closingVars,
                   pcmFinishing, writing, postVars, workVars, sent, countVars,
                   clientCancelled, destroyed>>

\* on_read aborted because the session closed its socket.
ReadAborted ==
    /\ IoRuns /\ reading /\ closed
    /\ reading' = FALSE
    /\ UNCHANGED <<endVars, configVars, inputEnded, audioVars, timerVars,
                   closingVars, restVars, asleep>>

\* on_read of a message the protocol forbids: too big, malformed, of an unknown
\* type, audio before session.configure, an odd number of bytes.
ReadInvalid ==
    /\ IoRuns /\ reading
    /\ reading' = FALSE
    /\ idleTimer' \in {idleTimer, configured /\ ~closed /\ ~inputEnded}
    /\ ProtocolFailure("protocol")
    /\ UNCHANGED <<configVars, audioVars, configTimer, idleDue, closeStarted,
                   pcmFinishing, writing, postedSpace, postedDone, workVars,
                   history>>

\* on_read re-arms the idle timer of a configured session.
TouchIdleTimeout == idleTimer' = (idleTimer \/ (~closed /\ ~inputEnded))

\* session.configure: answer it, hand the lease to the worker and start it, or
\* fail because the worker slot is still taken.  kMaxOutboundMessages is far
\* above the few messages an unconfigured session can hold, so both fit.
ReadConfigure ==
    /\ IoRuns /\ reading /\ ~configured
    /\ configured' = TRUE /\ configTimer' = FALSE
    /\ tokenEvents' \in TokenChoices /\ partialEvents' \in PartialChoices
    /\ idleTimer' = (~closed /\ ~inputEnded)
    /\ \/ /\ ~IoAccepts
          /\ FinishSession(reason)
          /\ reading' = FALSE
          /\ UNCHANGED <<inputEnded, closeAfterDrain, postedWrite, wpc>>
       \/ /\ IoAccepts
          /\ outbound' = Append(outbound, Plain("created"))
          /\ lease' = "worker" /\ wpc' = "create"
          /\ postedWrite' = TRUE
          /\ reading' = CanRead(pending)
          /\ UNCHANGED <<server, inputEnded, closed, closeAfterDrain, reason,
                         queued, pcmCancelled, outboundClosed>>
       \/ /\ IoAccepts /\ Len(outbound) + Len(writing) + 1 < MaxOut
          /\ outbound' = outbound \o <<Plain("created"), Plain("error")>>
          /\ lease' = "free"
          /\ reason' = Requested("protocol")
          /\ queued' = 0 /\ pcmCancelled' = TRUE
          /\ inputEnded' = TRUE /\ closeAfterDrain' = TRUE
          /\ postedWrite' = TRUE /\ reading' = FALSE
          /\ UNCHANGED <<server, closed, outboundClosed, wpc>>
    /\ UNCHANGED <<accepted, audioVars, idleDue, closeStarted, pcmFinishing,
                   writing, postedSpace, postedDone, taskVars, streamVars,
                   asleep, history>>

\* ping: a pong, or the end of a session whose outbound queue is full.
ReadPing ==
    /\ IoRuns /\ reading /\ configured /\ pings < MaxPings
    /\ pings' = pings + 1
    /\ TouchIdleTimeout
    /\ IF IoAccepts
       THEN /\ outbound' = Append(Trimmed(outbound), Plain("pong"))
            /\ postedWrite' = TRUE
            /\ reading' = CanRead(pending)
            /\ UNCHANGED <<server, closed, lease, reason, queued, pcmCancelled,
                           outboundClosed>>
       ELSE /\ FinishSession(reason)
            /\ reading' = FALSE
            /\ UNCHANGED postedWrite
    /\ WakeOnClose
    /\ UNCHANGED <<configVars, inputEnded, audioVars, configTimer, idleDue,
                   closingVars, pcmFinishing, writing, postedSpace, postedDone,
                   workVars, sent, warnings, fateVars>>

\* Mutant of ReadFinish: the session reads on after the end of input.
ReadFinish_ReadsOn ==
    /\ IoRuns /\ reading /\ configured /\ ~inputEnded
    /\ pcmFinishing' = TRUE
    /\ UNCHANGED <<endVars, clientVars, timerVars, closingVars, writing,
                   postVars, workVars, asleep, history>>

\* input_audio.end: no read follows it.
ReadFinish ==
    /\ IoRuns /\ reading /\ configured
    /\ reading' = FALSE /\ inputEnded' = TRUE
    /\ idleTimer' = FALSE
    /\ pcmFinishing' = TRUE
    /\ UNCHANGED <<endVars, configVars, audioVars, configTimer, idleDue,
                   closingVars, writing, postVars, workVars, asleep, history>>

\* session.cancel
ReadCancel ==
    /\ IoRuns /\ reading /\ configured
    /\ reading' = FALSE /\ inputEnded' = TRUE
    /\ TouchIdleTimeout
    /\ reason' = Requested("client")
    /\ pcmCancelled' = TRUE /\ queued' = 0
    /\ asleep' = FALSE
    /\ clientCancelled' = TRUE
    /\ UNCHANGED <<server, configVars, audioVars, configTimer, idleDue,
                   closeVars, lease, pcmFinishing, outVars, postVars, workVars,
                   sent, countVars, broken, destroyed>>

\* A binary frame of n chunks; an empty one is a no-op.
ReadAudio(n) ==
    /\ IoRuns /\ reading /\ configured /\ received + n <= MaxAudio
    /\ received' = received + n
    /\ TouchIdleTimeout
    /\ PumpPendingAudio(n, FALSE)
    /\ UNCHANGED <<server, configVars, inputEnded, configTimer, idleDue,
                   closeVars, lease, reason, restVars, pcmCancelled, outbound,
                   outboundClosed, asleep>>

\* The handler notify_input_space posts.
InputSpace ==
    /\ IoRuns /\ postedSpace
    /\ postedSpace' = FALSE
    /\ IF closed THEN UNCHANGED <<reading, pending, queued>>
       ELSE PumpPendingAudio(pending, reading)
    /\ UNCHANGED <<server, configVars, inputEnded, received, timerVars,
                   closeVars, lease, reason, pcmFinishing, pcmCancelled,
                   outVars, postedWrite, postedDone, workVars, asleep,
                   history>>

\* A posted maybe_write.
MaybeWrite ==
    /\ IoRuns /\ postedWrite
    /\ postedWrite' = FALSE
    /\ IF writing # <<>>
       THEN UNCHANGED <<endVars, configTimer, idleTimer, closeStarted,
                        writing>>
       ELSE WriteNext
    /\ WakeOnClose
    /\ UNCHANGED <<clientVars, idleDue, closeAfterDrain, pcmFinishing,
                   postedSpace, postedDone, workVars, history>>

\* on_write: the client took the message; the worker may have room now.  A
\* write that starts behind the closing handshake never succeeds.
WriteDone ==
    /\ IoRuns /\ writing # <<>> /\ ~closeStarted
    /\ sent' = sent \o writing
    /\ asleep' = FALSE
    /\ WriteNext
    /\ UNCHANGED <<clientVars, idleDue, closeAfterDrain, pcmFinishing,
                   postVars, workVars, countVars, fateVars>>

\* on_write with an error: the connection broke, or the socket was closed.
WriteFails ==
    /\ IoRuns /\ writing # <<>>
    /\ writing' = <<>> /\ broken' = TRUE
    /\ asleep' = FALSE
    /\ FinishSession(Requested("disconnect"))
    /\ UNCHANGED <<clientVars, timerVars, closingVars, pcmFinishing, postVars,
                   workVars, sent, countVars, clientCancelled, destroyed>>

\* The closing handshake ended, or timed out.
CloseDone ==
    /\ IoRuns /\ closeStarted /\ ~closed
    /\ FinishSession(reason)
    /\ WakeOnClose
    /\ UNCHANGED <<clientVars, timerVars, closingVars, restVars>>

Gone == closed \/ destroyed

\* RealtimeSession::initiate_shutdown
InitiateShutdown ==
    IF Gone
    THEN UNCHANGED <<closeAfterDrain, queued, pcmCancelled, outbound,
                     postedWrite, asleep>>
    ELSE /\ queued' = 0 /\ pcmCancelled' = TRUE
         /\ asleep' = FALSE
         /\ outbound' = IF IoAccepts
                        THEN Append(Trimmed(outbound), Plain("error"))
                        ELSE outbound
         /\ postedWrite' = TRUE /\ closeAfterDrain' = TRUE

\* SIGINT or SIGTERM: the lease's token is cancelled, then the session told;
\* with nothing left to wait for the server stops at once.
Shutdown ==
    /\ server = "up" /\ Signals
    /\ reason' = IF Gone /\ lease = "free" THEN reason
                 ELSE Requested("shutdown")
    /\ InitiateShutdown
    /\ server' = IF Gone /\ ~Running THEN "stopped" ELSE "stopping"
    /\ UNCHANGED <<clientVars, timerVars, closed, closeStarted, lease,
                   pcmFinishing, writing, outboundClosed, postedSpace,
                   postedDone, workVars, history>>

\* force_shutdown after ten seconds: the session is told again and the
\* io_context stops: no handler runs any more.
ShutdownTimeout ==
    /\ server = "stopping" /\ DeadlinePasses
    /\ reason' = IF Gone THEN reason ELSE Requested("shutdown")
    /\ InitiateShutdown
    /\ server' = "stopped"
    /\ UNCHANGED <<clientVars, timerVars, closed, closeStarted, lease,
                   pcmFinishing, writing, outboundClosed, postedSpace,
                   postedDone, workVars, history>>

\* The session object goes with its last reference: no operation, no timer, no
\* posted handler and no worker holds it.  Its destructor closes the socket.
LastReference ==
    /\ IoRuns /\ accepted /\ ~closed /\ ~closeStarted /\ ~destroyed
    /\ ~reading /\ writing = <<>> /\ ~postedWrite /\ ~postedSpace
    /\ ~configTimer /\ ~idleTimer /\ ~idleDue /\ ~Running
    /\ destroyed' = TRUE
    /\ lease' = IF lease = "session" THEN "free" ELSE lease
    /\ UNCHANGED <<server, clientVars, timerVars, closeVars, reason, pcmVars,
                   outVars, postVars, workVars, asleep, sent, countVars,
                   clientCancelled, broken>>

\* Mutant of WorkerFinished: the end of the worker does not end the shutdown.
WorkerFinished_Ignored ==
    /\ IoRuns /\ postedDone
    /\ postedDone' = FALSE
    /\ UNCHANGED <<ioVars, closeAfterDrain, lease, reason, queued, outbound,
                   postedWrite, postedSpace, workVars, asleep, warnings>>

\* on_worker_finished
WorkerFinished ==
    /\ IoRuns /\ postedDone
    /\ postedDone' = FALSE
    /\ server' = IF server = "stopping" /\ Gone THEN "stopped" ELSE server
    /\ UNCHANGED <<clientVars, timerVars, closeVars, lease, reason, pcmVars,
                   outVars, postedWrite, postedSpace, workVars, asleep,
                   history>>

-----------------------------------------------------------------------------
(* The worker's thread.                                                    *)

\* A worker step that touches nothing it shares, but for asleep.
Alone == UNCHANGED <<ioVars, closeAfterDrain, lease, reason, queued, outbound,
                     postVars, warnings>>

\* EngineStream::feed and finish append one of these to the stream's queue.
Batches == {b \in {<<>>, <<"token">>, <<"token", "partial">>} :
               seq + Len(events) + Len(b) <= MaxSeq}

CreateStream ==
    /\ wpc = "create"
    /\ wpc' \in {"pop"} \cup (IF Faults THEN {"fail"} ELSE {})
    /\ Alone /\ UNCHANGED <<taskVars, streamVars, asleep>>

\* Mutant of PopAudio: the session is not told of the space.
PopAudio_Silent ==
    /\ wpc = "pop" /\ ~pcmCancelled /\ queued > 0 /\ ~Cancelling
    /\ queued' = queued - 1 /\ fed' = fed + 1 /\ wpc' = "feed"
    /\ UNCHANGED <<ioVars, closeAfterDrain, lease, reason, outbound, postVars,
                   taskVars, events, stalled, seq, tokenCount, asleep,
                   warnings>>

\* A chunk leaves the queue, which makes room for the audio that waits.
PopAudio ==
    /\ wpc = "pop" /\ ~pcmCancelled /\ queued > 0 /\ ~Cancelling
    /\ queued' = queued - 1 /\ fed' = fed + 1
    /\ postedSpace' = TRUE
    /\ wpc' = "feed"
    /\ UNCHANGED <<ioVars, closeAfterDrain, lease, reason, outbound,
                   postedWrite, postedDone, taskVars, events, stalled, seq,
                   tokenCount, asleep, warnings>>

\* Mutant of PopEnds: the end of input does not wait for the queue.
PopEnds_FinishFirst ==
    /\ wpc = "pop"
    /\ \/ pcmCancelled /\ wpc' = "cancel"
       \/ pcmFinishing /\ wpc' = IF Cancelling THEN "cancel" ELSE "finish"
    /\ UNCHANGED <<ioVars, closeAfterDrain, lease, reason, queued, outbound,
                   postVars, taskVars, streamVars, asleep, warnings>>

\* Cancelled, or the end of input once the queue is empty.  A chunk popped
\* under a requested cancellation is dropped.
PopEnds ==
    /\ wpc = "pop"
    /\ \/ pcmCancelled /\ wpc' = "cancel" /\ UNCHANGED queued
       \/ /\ ~pcmCancelled /\ queued > 0 /\ Cancelling
          /\ queued' = queued - 1 /\ wpc' = "cancel"
       \/ /\ ~pcmCancelled /\ queued = 0 /\ pcmFinishing
          /\ wpc' = IF Cancelling THEN "cancel" ELSE "finish"
          /\ UNCHANGED queued
    /\ UNCHANGED <<ioVars, closeAfterDrain, lease, reason, outbound, postVars,
                   taskVars, streamVars, asleep, warnings>>

\* feed_audio hands the chunk to the stream; resume_backpressure calls again
\* with none until the stream takes what it stashed.  A failure is its event.
FeedStream ==
    /\ wpc \in {"feed", "resume"}
    /\ IF Cancelling
       THEN wpc' = "back" /\ UNCHANGED <<events, stalled>>
       ELSE /\ wpc' = "drain"
            /\ \/ \E b \in Batches :
                    /\ events' = events \o b
                    /\ stalled' \in (IF b = <<>> THEN {FALSE} ELSE BOOLEAN)
               \/ /\ Faults
                  /\ events' = Append(events, "error") /\ stalled' = FALSE
    /\ Alone /\ UNCHANGED <<taskVars, seq, tokenCount, fed, asleep>>

\* finish: the worker never leaves the stream stalled, so it answers OK or
\* fails; the tail, the final text and the completion are queued together.
FinishStream ==
    /\ wpc = "finish"
    /\ \/ /\ Cancelling
          /\ wpc' = "cancel" /\ UNCHANGED <<wphase, events>>
       \/ /\ ~Cancelling /\ Faults
          /\ wpc' = "fail" /\ UNCHANGED <<wphase, events>>
       \/ /\ ~Cancelling
          /\ wpc' = "drain" /\ wphase' = "tail"
          /\ \E b \in Batches : events' = events \o b \o <<"final", "completed">>
    /\ Alone
    /\ UNCHANGED <<wfrom, wmsg, stalled, seq, tokenCount, fed, asleep>>

Enqueue(from, message) == wpc' = "enqueue" /\ wfrom' = from /\ wmsg' = message

\* The final text and the completion carry the numbers their events had.
FinalMessage == Message("final", seq - 1, 0)

CompletedMessage == Message("completed", seq, 0)

\* One poll of drain_events.
PollEvent ==
    /\ wpc = "drain" /\ ~Cancelling /\ events # <<>>
    /\ events' = Tail(events)
    /\ seq' = seq + 1
    /\ tokenCount' = IF Head(events) = "token" THEN tokenCount + 1 ELSE tokenCount
    /\ \/ /\ Head(events) = "token" /\ tokenEvents
          /\ Enqueue("drain", Message("token", seq', tokenCount'))
       \/ /\ Head(events) = "partial" /\ partialEvents
          /\ Enqueue("drain", Message("partial", seq', tokenCount'))
       \/ Head(events) = "error" /\ wpc' = "fail" /\ UNCHANGED <<wfrom, wmsg>>
       \/ /\ \/ Head(events) = "token" /\ ~tokenEvents
             \/ Head(events) = "partial" /\ ~partialEvents
             \/ Head(events) \in {"final", "completed"}
          /\ UNCHANGED <<wpc, wfrom, wmsg>>
    /\ Alone /\ UNCHANGED <<wphase, stalled, fed, asleep>>

\* drain_events returns: to a resume, to the lag check, to the end of the
\* transcript, or FALSE under a cancellation.
DrainReturns ==
    /\ wpc = "drain" /\ (Cancelling \/ events = <<>>)
    /\ IF Cancelling
       THEN wpc' = "back" /\ UNCHANGED <<wfrom, wmsg>>
       ELSE \/ stalled /\ wpc' = "resume" /\ UNCHANGED <<wfrom, wmsg>>
            \/ ~stalled /\ wphase = "feed" /\ wpc' = "lag" /\ UNCHANGED <<
                                                                          wfrom,
                                                                          wmsg>>
            \/ ~stalled /\ wphase = "tail" /\ Enqueue("final", FinalMessage)
    /\ Alone /\ UNCHANGED <<wphase, streamVars, asleep>>

\* A FALSE from feed_audio or from the last drain.
ReturnsFalse ==
    /\ wpc = "back"
    /\ wpc' = IF Cancelling /\ wphase = "feed" THEN "cancel" ELSE "exit"
    /\ Alone /\ UNCHANGED <<taskVars, streamVars, asleep>>

\* observe_lag; the backlog that decides is a matter of time.
ObserveLag ==
    /\ wpc = "lag"
    /\ \/ /\ wpc' = "pop"
          /\ UNCHANGED <<reason, wfrom, wmsg, warnings>>
       \/ /\ warnings < MaxWarnings /\ warnings' = warnings + 1
          /\ Enqueue("warning", Plain("warning"))
          /\ UNCHANGED reason
       \/ /\ reason' = Requested("capacity")
          /\ Enqueue("lag", Plain("error"))
          /\ UNCHANGED warnings
    /\ UNCHANGED <<ioVars, closeAfterDrain, lease, queued, outbound, postVars,
                   wphase, streamVars, asleep>>

\* Where the worker goes when enqueue_from_worker returns.
AfterEnqueue(ok) ==
    CASE wfrom = "drain" -> IF ok THEN "drain" ELSE "back"
      [] wfrom = "warning" -> IF ok THEN "pop" ELSE "cancel"
      [] wfrom = "final" -> IF ok THEN "enqueue" ELSE "fail"
      [] wfrom = "completed" -> IF ok THEN "close" ELSE "fail"
      [] wfrom \in {"lag", "cancelled", "error"} -> "close"

\* coalesce_partial_locked: a newer snapshot takes the place of the newest
\* queued one.
Coalesced(q, message) == [q EXCEPT ![Max(Partials(q))] = message]

\* enqueue_from_worker puts its message in place.
EnqueueAccepts ==
    /\ wpc = "enqueue" /\ ~asleep
    /\ ~outboundClosed /\ reason # "disconnect"
    /\ \/ /\ wmsg.kind = "partial" /\ Partials(outbound) # {}
          /\ outbound' = Coalesced(outbound, wmsg)
       \/ /\ wmsg.kind # "partial" \/ Partials(outbound) = {}
          /\ HasRoom(outbound)
          /\ outbound' = Append(outbound, wmsg)
    /\ postedWrite' = TRUE
    /\ wpc' = AfterEnqueue(TRUE)
    /\ IF wfrom = "final"
       THEN wfrom' = "completed" /\ wmsg' = CompletedMessage
       ELSE UNCHANGED <<wfrom, wmsg>>
    /\ UNCHANGED <<ioVars, closeAfterDrain, lease, reason, queued, postedSpace,
                   postedDone, wphase, streamVars, asleep, warnings>>

\* It gives up on a session that ended.
EnqueueFails ==
    /\ wpc = "enqueue" /\ ~asleep
    /\ outboundClosed \/ reason = "disconnect"
    /\ wpc' = AfterEnqueue(FALSE)
    /\ Alone /\ UNCHANGED <<taskVars, streamVars, asleep>>

\* It waits for room.  A notification sent without the mutex may come too early
\* to be heard; each that matters is repeated under the mutex.
EnqueueWaits ==
    /\ wpc = "enqueue" /\ ~asleep
    /\ ~outboundClosed /\ reason # "disconnect"
    /\ ~HasRoom(outbound)
    /\ wmsg.kind # "partial" \/ Partials(outbound) = {}
    /\ asleep' = TRUE
    /\ Alone /\ UNCHANGED workVars

\* request_close_after_drain
RequestClose ==
    /\ wpc = "close"
    /\ closeAfterDrain' = TRUE /\ postedWrite' = TRUE
    /\ wpc' = IF wfrom = "lag" THEN "cancel" ELSE "exit"
    /\ UNCHANGED <<ioVars, lease, reason, queued, outbound, postedSpace,
                   postedDone, taskVars, streamVars, asleep, warnings>>

\* Mutant of HandleCancellation: the client is not answered.
HandleCancellation_Silent ==
    /\ wpc = "cancel"
    /\ \/ reason \in {"client", "capacity"} /\ wpc' = "close" /\ wfrom' = "error"
       \/ reason \notin {"client", "capacity"} /\ wpc' = "exit" /\ UNCHANGED wfrom
    /\ Alone /\ UNCHANGED <<wphase, wmsg, streamVars, asleep>>

\* handle_worker_cancellation
HandleCancellation ==
    /\ wpc = "cancel"
    /\ CASE reason = "client" -> Enqueue("cancelled", Plain("cancelled"))
         [] reason = "capacity" -> wpc' = "close" /\ wfrom' = "error" /\ UNCHANGED wmsg
         [] OTHER -> wpc' = "exit" /\ UNCHANGED <<wfrom, wmsg>>
    /\ Alone /\ UNCHANGED <<wphase, streamVars, asleep>>

\* worker_failure
WorkerFailure ==
    /\ wpc = "fail"
    /\ IF Cancelling
       THEN wpc' = "exit" /\ UNCHANGED <<wfrom, wmsg>>
       ELSE Enqueue("error", Plain("error"))
    /\ Alone /\ UNCHANGED <<wphase, streamVars, asleep>>

\* The task releases the lease, then the slot is free and says so.
ReleaseLease ==
    /\ wpc = "exit" /\ lease = "worker"
    /\ lease' = "free"
    /\ UNCHANGED <<ioVars, closeAfterDrain, reason, queued, outbound, postVars,
                   workVars, asleep, warnings>>

WorkerExits ==
    /\ wpc = "exit" /\ lease = "free"
    /\ wpc' = "none" /\ postedDone' = TRUE
    /\ UNCHANGED <<ioVars, closeAfterDrain, lease, reason, queued, outbound,
                   postedWrite, postedSpace, taskVars, streamVars, asleep,
                   warnings>>

Worker ==
    \/ CreateStream \/ PopAudio \/ PopEnds \/ FeedStream \/ FinishStream
    \/ PollEvent \/ DrainReturns \/ ReturnsFalse \/ ObserveLag
    \/ EnqueueAccepts \/ EnqueueFails \/ EnqueueWaits \/ RequestClose
    \/ HandleCancellation \/ WorkerFailure \/ ReleaseLease \/ WorkerExits

Client ==
    \/ ReadFails \/ ReadInvalid \/ ReadConfigure \/ ReadPing
    \/ ReadFinish \/ ReadCancel \/ \E n \in FrameSizes : ReadAudio(n)

\* What happens without the client.  The handshake, the closing handshake and,
\* through the keep-alive pings, every write end within a timeout.
Ready ==
    \/ Accept \/ AcceptFails \/ IdleHandler \/ ReadAborted \/ InputSpace
    \/ MaybeWrite \/ WriteDone \/ WriteFails \/ CloseDone \/ LastReference
    \/ WorkerFinished

Timeouts == ConfigTimeout \/ IdleExpires \/ ShutdownTimeout

Next == Client \/ Ready \/ Timeouts \/ Shutdown \/ Worker

Spec == Init /\ [][Next]_vars

\* The io_context does not rest while a handler is ready, the kernel runs the
\* worker, and the stream's calls return.  Nothing is assumed of the client, and
\* no session has to be saved by its timers.
FairSpec == Spec /\ WF_vars(Ready) /\ WF_vars(Worker)

-----------------------------------------------------------------------------
(* Properties.                                                             *)

MessageKinds == {"created", "pong", "token", "partial", "final", "completed",
                 "cancelled", "warning", "error"}
Messages == [kind : MessageKinds, n : 0 .. MaxSeq + 3, k : 0 .. MaxSeq]
Reasons == {"none", "client", "disconnect", "protocol", "shutdown", "capacity"}

\* Types, the bound of the outbound queue and of the PCM queue.
TypeOK ==
    /\ server \in {"up", "stopping", "stopped"}
    /\ \A b \in {accepted, configured, tokenEvents, partialEvents, inputEnded,
                 reading, configTimer, idleTimer, idleDue, closed, closeStarted,
                 closeAfterDrain, pcmFinishing, pcmCancelled, outboundClosed,
                 postedWrite, postedSpace, postedDone, asleep, stalled,
                 clientCancelled, broken, destroyed} : b \in BOOLEAN
    /\ queued \in 0 .. Capacity
    /\ {pending, received, fed} \subseteq 0 .. MaxAudio
    /\ lease \in {"session", "worker", "free"} /\ reason \in Reasons
    /\ \A i \in DOMAIN outbound : outbound[i] \in Messages
    /\ \A i \in DOMAIN writing : writing[i] \in Messages
    /\ Len(writing) <= 1 /\ Len(outbound) + Len(writing) <= MaxOut
    /\ wmsg \in Messages \cup {NoMessage}
    /\ wpc \in {"none", "create", "pop", "feed", "resume", "drain", "back",
                "finish", "lag", "enqueue", "close", "cancel", "fail", "exit"}
    /\ wphase \in {"feed", "tail"}
    /\ wfrom \in {"drain", "warning", "lag", "final", "completed", "cancelled",
                  "error"}
    /\ seq \in 0 .. MaxSeq + 3 /\ tokenCount \in 0 .. MaxSeq
    /\ pings \in 0 .. MaxPings /\ warnings \in 0 .. MaxWarnings

\* What the session has accepted for the client, oldest first.
Outgoing == sent \o writing \o outbound
Has(q, kinds) == \E i \in DOMAIN q : q[i].kind \in kinds
Positions(q, kinds) == {i \in DOMAIN q : q[i].kind \in kinds}

\* Among the messages of these kinds the sequence numbers rise.
Ascending(q, kinds) ==
    \A i, j \in Positions(q, kinds) : i < j => q[i].n < q[j].n

\* An accepted frame is never dropped: while nothing is cancelled, every chunk
\* was handed to the stream, is queued or waits (pump_pending_audio, push_some).
FramesNotDropped ==
    ~pcmCancelled /\ ~Cancelling => received = fed + queued + pending

\* A final transcript covers all the audio the session read
\* (PcmQueue::pop, inference_worker).
FinalCoversInput == Has(Outgoing, {"final", "completed"}) => fed = received

\* The tokens of a queue count 1, 2, 3, ... without a gap or a repetition.
TokensCount(q) ==
    LET at == Positions(q, {"token"})
    IN  /\ \A i, j \in at : i < j => q[i].k < q[j].k
        /\ \A i \in at : \A c \in 1 .. q[i].k : \E j \in at : q[j].k = c

\* A token is polled but its message is not in the outbound queue yet.
HoldsToken == wpc = "enqueue" /\ wmsg.kind = "token"

\* Token events reach the outbound queue each once, in order and without a gap,
\* whatever is coalesced or dropped around them (enqueue_from_worker,
\* enqueue_from_io, remove_optional_partial_locked).
TokensNotLost ==
    tokenEvents =>
        /\ TokensCount(Outgoing)
        /\ ~outboundClosed /\ reason # "disconnect" =>
               {Outgoing[i].k : i \in Positions(Outgoing, {"token"})} =
                   1 .. (IF HoldsToken THEN tokenCount - 1 ELSE tokenCount)

\* Among themselves snapshots keep their order, and so do the other transcript
\* events: tokens, then the final text, then the completion
\* (coalesce_partial_locked, drain_events).
OrderKept ==
    /\ Ascending(Outgoing, {"partial"})
    /\ Ascending(Outgoing, {"token", "final", "completed"})

\* What the session reads reaches the stream, all of it before a final transcript
\* (pump_pending_audio, PcmQueue::push_some and pop).
InputNotLost == FramesNotDropped /\ FinalCoversInput

\* What the stream produces reaches the client's queue, each token once and in
\* order (enqueue_from_worker, remove_optional_partial_locked).
OutputNotLost == TokensNotLost /\ OrderKept

\* A cancelled session never produces a final transcript, although the worker
\* may be anywhere when session.cancel is read (handle_control).
CancelWithoutFinal == clientCancelled => ~Has(Outgoing, {"final", "completed"})

\* Until a shutdown, a session that closes by handshake has told the client why:
\* the completion, the cancellation or an error went out before
\* (request_close_after_drain, maybe_write).
CloseAfterTerminal ==
    closeStarted /\ server = "up" => Has(sent, {"completed", "cancelled", "error"})

\* What docs/server-api.md says: session.cancel emits session.cancelled, or, when
\* the session failed at the same time, an error (worker_failure,
\* handle_worker_cancellation).
CancelAcknowledged ==
    clientCancelled /\ reason = "client" ~>
        Has(sent, {"cancelled", "error"}) \/ broken \/ server # "up"

\* The GPU lease is held by an open session or by its worker, never by a session
\* that is gone (finish_session, start_inference_worker).
LeaseNotLeaked ==
    /\ Gone /\ ~Running => lease = "free"
    /\ lease = "worker" => Running

\* A session leaves nothing open when it ends: the client was told why, the lease
\* is free or with a running worker (request_close_after_drain, finish_session).
EndsCleanly == CloseAfterTerminal /\ LeaseNotLeaked

\* A session whose input ended, was cancelled or failed comes to its end, and its
\* end reaches the worker wherever it waits: for audio, or for room in the outbound
\* queue (request_close_after_drain, finish_session, enqueue_from_worker).
SessionEnds ==
    /\ inputEnded ~> closed \/ server = "stopped"
    /\ closed ~> ~Running

\* Audio that waits for space moves on when the worker makes some
\* (notify_input_space, pump_pending_audio).
WaitingAudioMoves ==
    pending > 0 ~> pending = 0 \/ pcmCancelled \/ server = "stopped"

\* What docs/server-api.md says of SIGINT and SIGTERM: the active stream is
\* cancelled, its connection closed and the worker joined
\* (initiate_shutdown, maybe_finish_shutdown, main).
ShutdownEnds == server = "stopping" ~> server = "stopped" /\ ~Running

=============================================================================
