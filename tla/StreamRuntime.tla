--------------------------- MODULE StreamRuntime ---------------------------
(***************************************************************************)
(* The streaming session runtime: one voxtral_stream driven through the    *)
(* public C API (feed / finish / cancel / reset / poll), with its bounded  *)
(* event queue, the encoder-output and audio-embedding rings and the       *)
(* adapter + decoder pump.                                                 *)
(*                                                                         *)
(* Audio is counted in groups: one group is 1280 samples (80 ms), four     *)
(* encoder frames, one audio embedding and one decoder position.  A ring   *)
(* row remembers which group of which reset generation was written last,   *)
(* so a decoder step shows what it really read.                            *)
(*                                                                         *)
(* A call of the API runs in several steps (pc tells where it is); the     *)
(* client acts only between calls, as the threading contract requires and  *)
(* op_guard enforces.                                                      *)
(***************************************************************************)
EXTENDS Integers, Sequences, FiniteSetsExt, SequencesExt

CONSTANTS
    MaxEvents,    \* event_queue_capacity
    Headroom,     \* kTerminalEventHeadroom
    LeftPad,      \* VOXTRAL_N_LEFT_PAD_TOKENS; also the encoder's startup block
    Delay,        \* VOXTRAL_N_DELAY_TOKENS
    RightPad,     \* VOXTRAL_N_RIGHT_PAD_TOKENS
    EncRing,      \* VOXTRAL_ENC_OUT_RING_CAP in groups
    AembRing,     \* VOXTRAL_AEMB_RING_CAP
    SliceGroups,  \* kAudioDrainSlice in groups
    FeedSizes,    \* bound: the group counts the client passes to one feed
    MaxAudio,     \* largest sample position of a generation, in groups
    MaxGen,       \* bound: reset generations
    Faults        \* TRUE when backend calls may fail

ASSUME StreamConstants ==
    /\ MaxEvents \in Nat \ {0} /\ LeftPad \in Nat \ {0}
    /\ Delay \in Nat \ {0} /\ RightPad \in Nat \ {0}
    /\ EncRing \in Nat \ {0} /\ AembRing \in Nat \ {0}
    /\ SliceGroups \in Nat \ {0} /\ MaxAudio \in Nat \ {0}
    /\ MaxGen \in Nat \ {0}
    /\ FeedSizes \subseteq Nat
    /\ Headroom \in Nat
    /\ Headroom >= 2 * (RightPad + 1) + 2
    /\ Faults \in BOOLEAN

\* The encoder ring keeps the startup block with a slice behind it, or the tail;
\* the embedding ring a prompt one group short and a slice or the tail; the right
\* pad makes up for the delay.
ASSUME RingConstants ==
    /\ LeftPad + SliceGroups - 1 <= EncRing /\ RightPad + 1 <= EncRing
    /\ LeftPad + Delay - 1 + SliceGroups <= AembRing
    /\ LeftPad + Delay + RightPad <= AembRing
    /\ Delay <= RightPad + 1

VARIABLES
    state,          \* lifecycle.state
    queue,          \* events.queue
    finalizing,     \* events.finalizing_flush
    backpressured,  \* events.decoder_backpressured
    aggressive,     \* events.aggressive_partial_coalescing
    pushed,         \* groups handed to the Mel frontend, pads included
    emitted,        \* groups the encoder has written to its output ring
    encRing,        \* enc_out_ring: slot -> row
    received,       \* lifecycle.total_samples_received
    committed,      \* decoder.adapter_groups_committed
    aemb,           \* audio_emb_ring: slot -> row
    prefilled,      \* decoder.decoder_prefill_done
    position,       \* decoder.decoder_position
    pending,        \* decoder.pending
    eos,            \* decoder.decoder_eos
    tokens,         \* decoder.tokens: the row each token was decoded from
    seqno,          \* decoder.token_sequence
    steps,          \* decoder.decoder_steps
    pc,             \* where the running call is
    after,          \* what the call does when its pump returns
    outcome,        \* what the pump returned
    asked,          \* groups of the running feed
    todo,           \* groups of the running feed not yet sliced
    full,           \* feed_common's local `backpressured`
    res,            \* status of the last call that returned
    delivered,      \* events the client polled in this generation
    gen             \* reset generation

eventVars  == <<queue, finalizing, backpressured, aggressive>>
audioVars  == <<pushed, emitted, encRing, received>>
decodeVars == <<committed, aemb, prefilled, position, pending, eos,
                tokens, seqno, steps>>
callVars   == <<after, outcome, asked, todo, full>>
clientVars == <<delivered, gen>>
vars == <<state, eventVars, audioVars, decodeVars, pc, callVars, res,
          clientVars>>

-----------------------------------------------------------------------------
(* Rows, events and the queue.                                             *)

PrefillLen == LeftPad + Delay            \* prompt_ids.size() - 1
NoRow == <<0, 0>>
Rows  == (0 .. MaxGen) \X Nat          \* <<generation, group>>

NoToken == [valid |-> FALSE, eos |-> FALSE, row |-> NoRow]

Event(t, k) == [type |-> t, n |-> k]

\* Mutant of Bound: the terminal reserve open to every push.
Bound_Open == MaxEvents + Headroom

\* The bound push_event and push_event_coalesced apply.
Bound == MaxEvents + (IF finalizing THEN Headroom ELSE 0)

PartialsIn(q) == {i \in DOMAIN q : q[i].type = "partial"}

\* push_event: a mandatory event that does not fit is not enqueued.
PushMandatory(q, e, bound) == IF Len(q) < bound THEN Append(q, e) ELSE q

\* Mutant of PushPartial: a full queue replaces the oldest snapshot.
PushPartial_Oldest(q, e, bound) ==
    IF Len(q) < bound THEN Append(q, e)
    ELSE IF PartialsIn(q) # {} THEN ReplaceAt(q, Min(PartialsIn(q)), e)
    ELSE q

\* push_event_coalesced for a PARTIAL_TEXT snapshot.
PushPartial(q, e, bound) ==
    IF aggressive /\ PartialsIn(q) # {}
    THEN Append(RemoveAt(q, Min(PartialsIn(q))), e)
    ELSE IF Len(q) < bound THEN Append(q, e)
    ELSE IF PartialsIn(q) # {} THEN ReplaceAt(q, Max(PartialsIn(q)), e)
    ELSE q

\* The enc_frames_realizable / encoder_kv_drive schedule during feed: nothing
\* before the padded startup block is complete, then one group behind the audio.
Realizable(p) == IF p - 1 < LeftPad THEN 0 ELSE p - 1

\* The last group before hi that a ring of the given size keeps in slot s.
LastInSlot(s, size, hi) == hi - 1 - ((hi - 1 - s) % size)

\* Mutant of WriteRing: one slot too many.
WriteRing_OffByOne(ring, size, lo, hi, rows) ==
    [s \in 0 .. size |->
        LET g == LastInSlot(s, size, hi)
        IN  IF g >= lo THEN rows[g] ELSE IF s < size THEN ring[s] ELSE NoRow]

\* A ring of the given size after groups lo .. hi-1 were written to their
\* slots; rows[g] is what group g brings.
WriteRing(ring, size, lo, hi, rows) ==
    [s \in 0 .. size - 1 |->
        LET g == LastInSlot(s, size, hi)
        IN  IF g >= lo THEN rows[g] ELSE ring[s]]

\* copy_chunk_to_enc_out_ring for every batch up to group e: the ring wraps
\* without looking at what the adapter still has to read.
EmitUpTo(e) ==
    /\ emitted' = e
    /\ encRing' = WriteRing(encRing, EncRing, emitted, e,
                            [g \in emitted .. e - 1 |-> <<gen, g>>])

-----------------------------------------------------------------------------
(* Initial state and the pieces a fresh generation is made of.             *)

\* Mutant of FreshDecoder: the count of committed adapter groups survives the reset.
FreshDecoder_Committed ==
    /\ prefilled' = FALSE /\ position' = 0
    /\ pending' = NoToken /\ eos' = FALSE /\ tokens' = <<>> /\ steps' = 0
    /\ seqno' = 0
    /\ UNCHANGED <<committed, aemb>>

FreshDecoder ==
    /\ committed' = 0 /\ prefilled' = FALSE /\ position' = 0
    /\ pending' = NoToken /\ eos' = FALSE /\ tokens' = <<>> /\ steps' = 0
    /\ seqno' = 0
    /\ UNCHANGED aemb

FreshStream ==
    /\ state' = "created" /\ queue' = <<>> /\ finalizing' = FALSE
    /\ backpressured' = FALSE /\ aggressive' = FALSE
    /\ pushed' = 0 /\ emitted' = 0 /\ received' = 0 /\ UNCHANGED encRing
    /\ FreshDecoder
    /\ delivered' = <<>>

Init ==
    /\ state = "created" /\ queue = <<>> /\ finalizing = FALSE
    /\ backpressured = FALSE /\ aggressive = FALSE
    /\ pushed = 0 /\ emitted = 0 /\ received = 0 /\ committed = 0
    /\ encRing = [s \in 0 .. EncRing - 1 |-> NoRow]
    /\ aemb = [s \in 0 .. AembRing - 1 |-> NoRow]
    /\ prefilled = FALSE /\ position = 0 /\ pending = NoToken
    /\ eos = FALSE /\ tokens = <<>> /\ seqno = 0 /\ steps = 0
    /\ pc = "idle" /\ after = "none" /\ outcome = "ok"
    /\ asked = 0 /\ todo = 0 /\ full = FALSE /\ res = "ok"
    /\ delivered = <<>> /\ gen = 1

\* The running call returns status r to the client.
Return(r) ==
    /\ pc' = "idle" /\ res' = r
    /\ after' = "none" /\ outcome' = "ok"
    /\ asked' = 0 /\ todo' = 0 /\ full' = FALSE

\* The running call hands over to the pump.
RunPump(k) ==
    /\ pc' = "pump" /\ after' = k
    /\ UNCHANGED <<outcome, res>>

\* fail_stream_noexcept, and the error exits of finish(): the terminal ERROR
\* event goes through the reserved headroom and the result of the push is
\* ignored.
FailStream ==
    /\ state' = "failed"
    /\ finalizing' = TRUE
    /\ aggressive' = FALSE
    /\ queue' = PushMandatory(queue, Event("error", 0), MaxEvents + Headroom)
    /\ UNCHANGED backpressured
    /\ Return("error")

-----------------------------------------------------------------------------
(* feed                                                                    *)

\* Mutant of FeedAllowed: only a finished or cancelled stream refuses audio.
FeedAllowed_AfterError == state \notin {"completed", "cancelled"}

FeedAllowed == state \in {"created", "running"}

\* How many TOKEN events a feed of n groups may cause, at most.
TokenEstimate(n) == n + RightPad + 2

\* Mutant of Eager: chosen without room for the estimated tokens.
Eager_NoRoom(n) == Len(queue) + 2 * TokenEstimate(n) > MaxEvents

\* PARTIAL_TEXT snapshots are coalesced eagerly while this feed runs when
\* they would crowd TOKEN events out of the queue and the tokens alone fit.
Eager(n) ==
    /\ Len(queue) + 2 * TokenEstimate(n) > MaxEvents
    /\ Len(queue) + TokenEstimate(n) + 1 <= MaxEvents

\* feed_common past the resume: an empty feed, the position limit, or the
\* slicing begins.
AcceptFeed(n) ==
    \/ /\ n = 0
       /\ Return("ok")
       /\ UNCHANGED aggressive
    \/ /\ n > 0 /\ received + n > MaxAudio
       /\ Return("invalid_argument")
       /\ UNCHANGED aggressive
    \/ /\ n > 0 /\ received + n <= MaxAudio
       /\ aggressive' = Eager(n)
       /\ pc' = "slice" /\ asked' = n /\ todo' = n /\ full' = FALSE
       /\ after' = "none" /\ outcome' = "ok"
       /\ UNCHANGED res

CallFeed(n) ==
    /\ pc = "idle"
    /\ \/ /\ ~FeedAllowed
          /\ Return("invalid_state")
          /\ UNCHANGED aggressive
       \/ /\ FeedAllowed /\ backpressured
          /\ RunPump("resume")
          /\ asked' = n
          /\ UNCHANGED <<todo, full, aggressive>>
       \/ /\ FeedAllowed /\ ~backpressured
          /\ AcceptFeed(n)
    /\ UNCHANGED <<state, queue, finalizing, backpressured, audioVars,
                   decodeVars, clientVars>>

\* The pump of a resuming feed returned.
FeedResumed ==
    /\ pc = "pumped" /\ after = "resume"
    /\ \/ /\ outcome = "ok"
          /\ AcceptFeed(asked)
          /\ UNCHANGED <<state, queue, finalizing, backpressured>>
       \/ /\ outcome = "queue_full"
          /\ Return("queue_full")
          /\ UNCHANGED <<state, eventVars>>
       \/ /\ outcome = "error"
          /\ FailStream
    /\ UNCHANGED <<audioVars, decodeVars, clientVars>>

SliceSize == IF todo < SliceGroups THEN todo ELSE SliceGroups
PushedAfter(n) == n + (IF pushed = 0 THEN LeftPad ELSE pushed)

\* One audio slice: left pad before the first sample, Mel, encoder; then the
\* pump, unless an earlier slice of this feed already met a full queue.
FeedSlice ==
    /\ pc = "slice" /\ todo > 0
    /\ pushed' = PushedAfter(SliceSize)
    /\ EmitUpTo(Realizable(PushedAfter(SliceSize)))
    /\ todo' = todo - SliceSize
    /\ IF full THEN UNCHANGED <<pc, after>>
               ELSE pc' = "pump" /\ after' = "slice"
    /\ UNCHANGED <<state, eventVars, received, decodeVars, outcome, asked,
                   full, res, clientVars>>

\* A slice that failed: Mel may have taken its audio before the encoder failed.
SliceLost ==
    /\ pc = "slice" /\ todo > 0
    /\ pushed' \in {pushed, PushedAfter(SliceSize)}

\* Mutant of FeedSliceFails: the public wrapper only reports the error.
FeedSliceFails_Open ==
    /\ Faults
    /\ SliceLost
    /\ aggressive' = FALSE
    /\ Return("error")
    /\ UNCHANGED <<state, queue, finalizing, backpressured, emitted, encRing,
                   received, decodeVars, clientVars>>

\* The Mel frontend or the encoder rejects a slice (also allocation failure).
FeedSliceFails ==
    /\ Faults
    /\ SliceLost
    /\ FailStream
    /\ UNCHANGED <<emitted, encRing, received, decodeVars, clientVars>>

FeedPumped ==
    /\ pc = "pumped" /\ after = "slice"
    /\ \/ /\ outcome \in {"ok", "queue_full"}
          /\ full' = (outcome = "queue_full")
          /\ pc' = "slice" /\ after' = "none" /\ outcome' = "ok"
          /\ UNCHANGED <<state, eventVars, asked, todo, res>>
       \/ /\ outcome = "error"
          /\ FailStream
    /\ UNCHANGED <<audioVars, decodeVars, clientVars>>

\* All slices consumed: the samples count as received whether or not the
\* decoder is stalled.
FeedReturns ==
    /\ pc = "slice" /\ todo = 0
    /\ received' = received + asked
    /\ state' = "running"
    /\ aggressive' = FALSE
    /\ Return(IF full THEN "queue_full" ELSE "ok")
    /\ UNCHANGED <<queue, finalizing, backpressured, pushed, emitted,
                   encRing, decodeVars, clientVars>>

-----------------------------------------------------------------------------
(* pump_incremental                                                        *)

\* The adapter groups that may be committed: the decoder's position, once it
\* is prefilled, holds the embedding ring back.
Committable ==
    LET limit == (IF prefilled THEN position ELSE 0) + AembRing
    IN  IF emitted < limit THEN emitted ELSE limit

\* 1. Commit the ready adapter groups; 2. prefill the prompt once.
PumpCommit ==
    LET c == IF Committable > committed THEN Committable ELSE committed
    IN  /\ pc = "pump"
        /\ committed' = c
        /\ aemb' = WriteRing(aemb, AembRing, committed, c,
                             [g \in committed .. c - 1 |->
                                 encRing[g % EncRing]])
        /\ prefilled' = (prefilled \/ c >= PrefillLen)
        /\ position' = IF ~prefilled /\ c >= PrefillLen THEN PrefillLen
                                                        ELSE position
        /\ pc' = "flush"
        /\ UNCHANGED <<state, eventVars, audioVars, pending, eos, tokens,
                       seqno, steps, callVars, res, clientVars>>

\* commit_pending for token t when its TOKEN event fits: TOKEN, then the
\* lossy PARTIAL_TEXT snapshot, then the position.  EOS ends the token
\* history and is not part of it.
Deliver(t) ==
    LET withToken == Append(queue, Event("token", seqno + 1))
    IN  /\ seqno' = seqno + 1
        /\ pending' = NoToken
        /\ IF t.eos
           THEN /\ eos' = TRUE
                /\ queue' = withToken
                /\ UNCHANGED <<tokens, position>>
           ELSE /\ tokens' = Append(tokens, t.row)
                /\ queue' = PushPartial(withToken,
                                        Event("partial", Len(tokens) + 1),
                                        Bound)
                /\ position' = position + 1
                /\ UNCHANGED eos

\* Mutants of Stash: the token is forgotten; the stall is not recorded.
Stash_Forgets(t) ==
    /\ backpressured' = TRUE
    /\ pc' = "pumped" /\ outcome' = "queue_full"
    /\ UNCHANGED <<pending, queue, eos, tokens, position, seqno>>
Stash_Silent(t) ==
    /\ pending' = t
    /\ pc' = "pumped" /\ outcome' = "queue_full"
    /\ UNCHANGED <<backpressured, queue, eos, tokens, position, seqno>>

\* commit_pending when the TOKEN event does not fit: stash it and stall.
Stash(t) ==
    /\ pending' = t
    /\ backpressured' = TRUE
    /\ pc' = "pumped" /\ outcome' = "queue_full"
    /\ UNCHANGED <<queue, eos, tokens, position, seqno>>

\* A token stashed by an earlier pump goes first.
PumpFlush ==
    /\ pc = "flush"
    /\ IF prefilled /\ pending.valid
       THEN IF Len(queue) < Bound
            THEN /\ Deliver(pending)
                 /\ backpressured' = FALSE
                 /\ pc' = "step"
                 /\ UNCHANGED outcome
            ELSE Stash(pending)
       ELSE /\ backpressured' = (backpressured /\ ~prefilled)
            /\ pc' = "step"
            /\ UNCHANGED <<queue, pending, eos, tokens, position, seqno,
                           outcome>>
    /\ UNCHANGED <<state, finalizing, aggressive, audioVars, committed, aemb,
                   prefilled, steps, after, asked, todo, full, res,
                   clientVars>>

\* Mutant of StepReady: the last committed position is left out.
StepReady_Short == prefilled /\ ~eos /\ position < committed - 1

StepReady == prefilled /\ ~eos /\ position <= committed - 1

\* One decoder step at the current position; it may yield end-of-stream.
PumpStep ==
    /\ pc = "step" /\ StepReady
    /\ steps' = steps + 1
    /\ \E e \in BOOLEAN :
         LET t == [valid |-> TRUE, eos |-> e, row |-> aemb[position % AembRing]]
         IN  IF Len(queue) < Bound
             THEN /\ Deliver(t)
                  /\ UNCHANGED <<backpressured, pc, outcome>>
             ELSE Stash(t)
    /\ UNCHANGED <<state, finalizing, aggressive, audioVars, committed, aemb,
                   prefilled, after, asked, todo, full, res, clientVars>>

PumpReturns ==
    /\ pc = "step" /\ ~StepReady
    /\ pc' = "pumped" /\ outcome' = "ok"
    /\ UNCHANGED <<state, eventVars, audioVars, decodeVars, after, asked,
                   todo, full, res, clientVars>>

\* The adapter commit, the prefill or a decoder step fails on the backend.
PumpFails ==
    /\ Faults
    /\ \/ pc = "pump" /\ Committable > committed
       \/ pc = "step" /\ StepReady
    /\ pc' = "pumped" /\ outcome' = "error"
    /\ UNCHANGED <<state, eventVars, audioVars, decodeVars, after, asked,
                   todo, full, res, clientVars>>

-----------------------------------------------------------------------------
(* finish, cancel, reset, poll                                             *)

\* emit_final_and_completed: two pushes whose results are not looked at.
FinalAndCompleted(q) ==
    PushMandatory(PushMandatory(q, Event("final", Len(tokens)),
                                MaxEvents + Headroom),
                  Event("completed", 0), MaxEvents + Headroom)

\* Entering `finishing`: an empty stream completes at once, otherwise the
\* right pad and the encoder tail go in and the pump runs once more.
EnterFinishing ==
    /\ finalizing' = TRUE
    /\ UNCHANGED <<backpressured, aggressive, received>>
    /\ IF received = 0
       THEN /\ queue' = FinalAndCompleted(queue)
            /\ state' = "completed"
            /\ Return("ok")
            /\ UNCHANGED <<pushed, emitted, encRing>>
       ELSE /\ state' = "finishing"
            /\ pushed' = pushed + RightPad
            /\ EmitUpTo(pushed + RightPad)
            /\ RunPump("tail")
            /\ UNCHANGED <<queue, asked, todo, full>>

CallFinish ==
    /\ pc = "idle"
    /\ \/ /\ state \in {"completed", "cancelled"}
          /\ Return("ok")
          /\ UNCHANGED <<state, eventVars, audioVars>>
       \/ /\ state = "failed"
          /\ Return("invalid_state")
          /\ UNCHANGED <<state, eventVars, audioVars>>
       \/ /\ FeedAllowed /\ backpressured
          /\ RunPump("drain")
          /\ UNCHANGED <<state, eventVars, audioVars, asked, todo, full>>
       \/ /\ FeedAllowed /\ ~backpressured
          /\ EnterFinishing
    /\ UNCHANGED <<decodeVars, clientVars>>

\* finish() first drains what an earlier feed left behind, under the ordinary
\* bound; QUEUE_FULL leaves the stream where it was.
FinishDrained ==
    /\ pc = "pumped" /\ after = "drain"
    /\ \/ /\ outcome = "ok"
          /\ EnterFinishing
          /\ UNCHANGED decodeVars
       \/ /\ outcome = "queue_full"
          /\ Return("queue_full")
          /\ UNCHANGED <<state, eventVars, audioVars, decodeVars>>
       \/ /\ outcome = "error"
          /\ FailStream
          /\ UNCHANGED <<audioVars, decodeVars>>
    /\ UNCHANGED clientVars

\* The tail pump returned: anything but ok is a failure, QUEUE_FULL included.
FinishReturns ==
    /\ pc = "pumped" /\ after = "tail"
    /\ \/ /\ outcome = "ok"
          /\ queue' = FinalAndCompleted(queue)
          /\ state' = "completed"
          /\ Return("ok")
          /\ UNCHANGED <<finalizing, backpressured, aggressive>>
       \/ /\ outcome # "ok"
          /\ FailStream
    /\ UNCHANGED <<audioVars, decodeVars, clientVars>>

CallCancel ==
    /\ pc = "idle"
    /\ \/ /\ state = "completed"
          /\ Return("invalid_state")
          /\ UNCHANGED <<state, queue, finalizing>>
       \/ /\ state \in {"cancelled", "failed"}
          /\ Return("ok")
          /\ UNCHANGED <<state, queue, finalizing>>
       \/ /\ FeedAllowed
          /\ finalizing' = TRUE
          /\ queue' = PushMandatory(queue, Event("cancelled", 0),
                                    MaxEvents + Headroom)
          /\ state' = "cancelled"
          /\ Return("ok")
    /\ UNCHANGED <<backpressured, aggressive, audioVars, decodeVars,
                   clientVars>>

\* Public reset, refused while audio is in flight; or destroy followed by
\* create on the same context, allowed in every state.  The rings keep their
\* contents: only the counters are cleared.
CallReset ==
    /\ pc = "idle" /\ gen < MaxGen
    /\ \/ /\ state = "running"
          /\ Return("invalid_state")
          /\ UNCHANGED <<state, eventVars, audioVars, decodeVars, clientVars>>
       \/ /\ state # "running"
          /\ FreshStream /\ gen' = gen + 1
          /\ Return("ok")

Recreate ==
    /\ pc = "idle" /\ gen < MaxGen
    /\ FreshStream /\ gen' = gen + 1
    /\ Return("ok")

Poll ==
    /\ pc = "idle" /\ queue # <<>>
    /\ delivered' = Append(delivered, Head(queue))
    /\ queue' = Tail(queue)
    /\ UNCHANGED <<state, finalizing, backpressured, aggressive, audioVars,
                   decodeVars, pc, callVars, res, gen>>

Pump == PumpCommit \/ PumpFlush \/ PumpStep \/ PumpReturns \/ PumpFails

Runtime ==
    \/ FeedResumed \/ FeedSlice \/ FeedSliceFails \/ FeedPumped \/ FeedReturns
    \/ Pump \/ FinishDrained \/ FinishReturns

Client ==
    \/ \E n \in FeedSizes : CallFeed(n)
    \/ CallFinish \/ CallCancel \/ CallReset \/ Recreate \/ Poll

Next == Runtime \/ Client

Spec == Init /\ [][Next]_vars

-----------------------------------------------------------------------------
(* Properties                                                              *)

States == {"created", "running", "finishing", "completed", "cancelled",
           "failed"}
EventTypes == {"token", "partial", "final", "completed", "error", "cancelled"}
Events == [type : EventTypes, n : Nat]

\* Every variable has its type; the rings have their fixed sizes.
TypeOK ==
    /\ state \in States
    /\ queue \in Seq(Events) /\ delivered \in Seq(Events)
    /\ finalizing \in BOOLEAN /\ backpressured \in BOOLEAN
    /\ aggressive \in BOOLEAN /\ full \in BOOLEAN
    /\ prefilled \in BOOLEAN /\ eos \in BOOLEAN
    /\ pushed \in Nat /\ emitted \in Nat /\ received \in Nat
    /\ committed \in Nat /\ position \in Nat /\ seqno \in Nat
    /\ steps \in Nat /\ asked \in Nat /\ todo \in Nat
    /\ encRing \in [0 .. EncRing - 1 -> Rows]
    /\ aemb \in [0 .. AembRing - 1 -> Rows]
    /\ pending \in [valid : BOOLEAN, eos : BOOLEAN, row : Rows]
    /\ tokens \in Seq(Rows)
    /\ pc \in {"idle", "slice", "pump", "flush", "step", "pumped"}
    /\ after \in {"none", "resume", "slice", "drain", "tail"}
    /\ outcome \in {"ok", "queue_full", "error"}
    /\ res \in {"ok", "queue_full", "invalid_state", "invalid_argument",
                "error"}
    /\ gen \in 1 .. MaxGen

\* While a stream accepts audio its host queue never outgrows
\* event_queue_capacity; the fixed reserve is spent by the terminal flush only.
QueueBounded ==
    Len(queue) <= MaxEvents + (IF FeedAllowed THEN 0 ELSE Headroom)

\* Everything a generation has shown or will show to the client, in order.
Log == delivered \o queue

\* Events of one type carry ever larger numbers.
Increasing(log, type) ==
    \A i, j \in DOMAIN log :
        i < j /\ log[i].type = type /\ log[j].type = type => log[i].n < log[j].n

\* TOKEN events reach the client numbered 1, 2, ... without a gap, a repeat or
\* a swap, whatever stalls and coalescing happened in between, and they are
\* exactly the committed history plus the closing end-of-stream.
TokensInOrder ==
    /\ \A k \in 1 .. seqno : \E i \in DOMAIN Log : Log[i] = Event("token", k)
    /\ \A i \in DOMAIN Log : Log[i].type = "token" => Log[i].n \in 1 .. seqno
    /\ Increasing(Log, "token")
    /\ seqno = Len(tokens) + (IF eos THEN 1 ELSE 0)

\* Partial text is monotonic: of two snapshots the later one is longer, and
\* none runs ahead of the committed history (coalescing in push_event_coalesced
\* never lets an older revision overtake a newer one).
PartialsMonotone ==
    /\ Increasing(Log, "partial")
    /\ \A i \in DOMAIN Log : Log[i].type = "partial" => Log[i].n <= Len(tokens)

\* What a client reads is in order: TOKEN numbers without a gap and ever longer
\* snapshots, whatever stalls and coalescing happened in between (push_event,
\* push_event_coalesced, commit_pending).
EventsInOrder == TokensInOrder /\ PartialsMonotone

Terminal == {"completed", "error", "cancelled"}

\* A stream that ended has its one terminal event in the log, last, preceded
\* by FINAL_TEXT if it completed; no event follows it, and none appears
\* earlier.  emit_final_and_completed and emit_error ignore whether their push
\* succeeded, so this rests on the reserved headroom.
TerminalDelivered ==
    /\ \A i \in DOMAIN Log :
          Log[i].type \in Terminal => i = Len(Log)
    /\ state = "completed" =>
          /\ Len(Log) >= 2
          /\ Log[Len(Log)].type = "completed"
          /\ Log[Len(Log) - 1] = Event("final", Len(tokens))
    /\ state = "failed" => Log # <<>> /\ Log[Len(Log)].type = "error"
    /\ state = "cancelled" => Log # <<>> /\ Log[Len(Log)].type = "cancelled"
    /\ state \notin {"completed", "failed", "cancelled"} =>
          \A i \in DOMAIN Log : Log[i].type \in {"token", "partial"}

\* No feed is longer than one slice: what the realtime worker and the batch
\* worker pass, but not what the API allows.
ShortFeeds == \A n \in FeedSizes : n <= SliceGroups

\* A decoder step at position p reads the embedding of audio group p of this
\* generation: neither ring is overwritten before it is read, and rows an
\* earlier generation left behind are never read.
DecodesOwnAudio ==
    \A i \in DOMAIN tokens : tokens[i] = <<gen, PrefillLen + i - 1>>

\* A completed stream decoded every group it accepted, pads included, unless
\* the model itself ended the stream.
WholeAudioDecoded ==
    state = "completed" /\ received > 0 /\ ~eos =>
        Len(tokens) = LeftPad + received + RightPad - PrefillLen

\* Between calls the Mel frontend holds exactly the audio the client was told
\* it consumed, so resubmitting the unconsumed suffix neither repeats nor
\* skips a sample.  A feed that fails half-way must therefore end the stream.
RetryIsExact ==
    pc = "idle" /\ FeedAllowed =>
        pushed = IF received = 0 THEN 0 ELSE LeftPad + received

\* Each decoder step's token is committed once: a step is not repeated after a
\* stall and its token is neither dropped nor committed twice.
StepsOnce == steps = seqno + (IF pending.valid THEN 1 ELSE 0)

\* Between calls a stream reports backpressure exactly while it holds a token
\* it could not deliver, and QUEUE_FULL is only answered by such a stream: the
\* retry it asks for has something to deliver.
StallHoldsToken ==
    pc = "idle" =>
        /\ backpressured <=> pending.valid
        /\ res = "queue_full" => backpressured

\* A feed that chose eager coalescing had room for all of its TOKEN events: it
\* never meets a full queue.
EagerFeedNeverStalls == aggressive => ~full /\ outcome # "queue_full"

\* The mandatory events of a log, in order.
IsMandatory(e) == e.type # "partial"
MandatoryIn(log) ==
    LET upTo[i \in 0 .. Len(log)] ==
            IF i = 0 THEN <<>>
            ELSE IF IsMandatory(log[i]) THEN Append(upTo[i - 1], log[i])
            ELSE upTo[i - 1]
    IN  upTo[Len(log)]

\* The detailed stream implements the promise of the public API.
Contract == INSTANCE StreamContract
    WITH st <- IF state \in {"completed", "failed", "cancelled"}
               THEN state ELSE "open",
         log <- MandatoryIn(Log),
         cursor <- Len(MandatoryIn(delivered))
KeepsContract == Contract!ContractSpec
=============================================================================
