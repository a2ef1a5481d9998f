# A formal model of voxtral.cpp

voxtral.cpp turns live 16 kHz PCM into text: a C library (`src/src`) that runs a
streaming encoder / adapter / decoder pipeline behind a bounded event queue, and
a server (`src/server`) that gives one client at a time access to it over HTTP
or a WebSocket.  This directory holds TLA+ modules translated from that source,
TLC configurations that check them on small instances, and TLAPS proofs about
them.  Paths below are relative to the repository's root.

## 1. Inventory of the system

| Part | State it keeps | Operations | What is hard about it | Module |
|---|---|---|---|---|
| Streaming session runtime (`src/voxtral-stream*.cpp`) | life cycle, event queue, encoder-output ring, embedding ring, decoder position, stashed token | feed, finish, cancel, reset, poll, warmup; the pump | a full queue in the middle of a call, resumption, ring reuse, terminal events at the limit, failing half-way | `StreamRuntime`, `Pipeline` |
| Public C API (`src/voxtral-c-api.cpp`) | owner context, stream lease, last error | create, destroy, wrappers with status mapping | a failed feed must fail the stream; one stream per context | `StreamRuntime` |
| Mel frontend (`src/voxtral-mel.cpp`) | rolling samples, computed frames, cursors | feed, silence, finish, discard, reset | frames independent of how the audio is cut; reflection at both ends of a buffer that forgets | `MelFrontend` |
| Encoder streaming state (`src/voxtral.cpp`) | Mel tail, schedule, K/V ring, output ring, emitted frames | push Mel, drive, finish, reset, warmup | launch plans, window trimming, ring wrap, stale device rows, a failed launch | `EncoderKv` |
| Adapter and decoder state (`src/voxtral.cpp`) | embedding ring, K/V ring and span, step graph, mask cache | commit, prefill, step, reset | writing over rows not yet read; a cached mask the device does not have | `DecoderKv` |
| GPU lease and cancellation (`server/gpu-lease.cpp`) | mode, active cancellation token | try_acquire, release, begin_shutdown, request | released by several threads, racing with shutdown | `ServerApp` |
| Worker slot, application (`server/server-app.cpp`, `main.cpp`) | running flag, thread, session table, shutdown flag and timer | start, accept, initiate / maybe_finish / force shutdown, join | shutdown while work is running or a connection is being accepted | `ServerApp` |
| HTTP session (`server/http-session.cpp`) | parser, batch token, flags | route, start_batch, on_batch_result, watch for disconnect, close | result against disconnect against shutdown | `ServerApp` |
| Batch worker (`server/batch-transcription.cpp`) | offset in the file, events counted | feed chunks, drain, resume, finish | a queue smaller than the file's tokens; a cancellation at any time | `BatchTranscription` |
| Realtime session (`server/realtime-session.cpp`) | read / write / close flags, timers, PCM queue, outbound queue | handlers on the I/O thread; the inference worker | two threads, two bounded queues, five reasons to end | `RealtimeSession` |
| PCM queue (`server/bounded-queue.h`) | samples, finishing, cancelled | push_some, pop, finish, cancel | lost wake-ups, end against cancel | `RealtimeSession` |
| Engine wrapper (`server/engine.cpp`) | model, context | create_stream, ~EngineStream | one stream per context | `BatchTranscription` |
| Reference encoder, batch encoder (`src/voxtral.cpp`) | Mel window, current chunk, accumulated frames | push Mel, drive, run a chunk, finish, reset | chunks run again and again must emit each frame once, as the batch path does | `ReferenceEncoder` |
| WAV reader, configuration, auth, JSON, logger (`server/`) | none | parse, format | boundaries of the parsers | - |
| Telemetry and diagnostics | counters | - | nothing decides by them | - |
| Kernels, quantiser, converter, command line, examples | - | - | not control logic | - |

Interactions.  The server's worker thread is the only caller of a stream; the
I/O thread talks to the worker through the PCM queue (audio), the cancellation
token (stop), the outbound queue (events) and posted handlers (space, results).
The runtime calls the Mel frontend, the encoder and the decoder synchronously;
the only thing that makes it stop half-way is a full event queue.  Every stream
of a context works on the same device rings, which are never cleared between
streams.

How the modules cover this:

    ServerApp            connections, lease, worker slot, shutdown
      RealtimeSession    one WebSocket session and its worker
      BatchTranscription one batch request; EXTENDS
        StreamRuntime    one stream: calls, event queue, pump; implements
          StreamContract
    ReferenceEncoder     Mel frames to encoder frames in recomputed chunks, and the
                         batch encoder; EXTENDS
      MelFrontend        samples to Mel frames, under the same calls
    Pipeline             Mel frames to decoder steps, under the same calls; EXTENDS
      DecoderKv          adapter and decoder on the device; EXTENDS
        EncoderKv        the K/V encoder on the device

`StreamRuntime` counts audio in groups and is exact about events; `MelFrontend`
counts samples; `Pipeline` counts Mel and encoder frames and is exact about device
rows, and lets the event queue stop the pump wherever it likes.

## 2. Modules

### StreamContract

What `docs/public-streaming-api.md` promises about the events a client may rely
on: in one reset generation they form an append-only log - TOKEN 1, 2, 3, ... -
that ends with exactly one outcome (FINAL_TEXT and COMPLETED, ERROR, or
CANCELLED), read from the front.  Queue bounds, stalls, rings and snapshots do
not appear in it.  `StreamRuntime` implements it (`KeepsContract`).

### StreamRuntime

One `voxtral_stream` behind the public C API.  A call takes several steps, and
`pc`, `after`, `outcome`, `asked`, `todo`, `full` are its local variables; the
client acts only while `pc = "idle"`, which is the API's threading contract (one
externally serialised caller per stream).

| Code | Model |
|---|---|
| `feed_common`, `map_feed_status`, `fail_stream_noexcept` | `CallFeed`, `FeedResumed`, `AcceptFeed`, `FeedSlice`, `FeedSliceFails`, `FeedPumped`, `FeedReturns`, `FailStream` |
| `pump_incremental` and its `commit_pending` | `PumpCommit`, `PumpFlush`, `PumpStep`, `PumpReturns`, `PumpFails`, `Deliver`, `Stash` |
| `push_event`, `push_event_coalesced`, `emit_*` | `PushMandatory`, `PushPartial`, `FinalAndCompleted` |
| `voxtral_stream_finish_internal` | `CallFinish`, `FinishDrained`, `EnterFinishing`, `FinishReturns` |
| cancel, reset, destroy and create, poll | `CallCancel`, `CallReset`, `Recreate`, `Poll` |
| `encoder_kv_drive`, `copy_chunk_to_enc_out_ring` | `Realizable`, `EmitUpTo`, `WriteRing` |

Abstractions.  Audio is counted in *groups* of 1280 samples: four encoder
frames, one adapter group, one decoder position; the padding that aligns a
stream's end to a group is absorbed in that unit.  A ring row is the pair
(generation, group) that was last written to it, so `tokens` - the rows the
decoder steps read - shows whether each step read its own audio.  The text of a
snapshot is represented by the number of tokens in it.  A backend failure is a
choice (`Faults`).  `delivered` is history: what the client polled.

Not modelled in this part: the reentrancy guard `op_guard` (the client is
serialised), the reference decoder mode selected by environment variable, the
lifecycle-only stream without a context, allocation failure while an event
object is built, `max_tokens` (always 0 through the public API), telemetry.

### MelFrontend

The rolling sample buffer and its two callers.  The k-th sample of the audio is
the number k and silence is 0, so a Mel frame is the *window of samples* it was
computed from; nothing else about it can differ.  `CallFeed` injects the left pad
and cuts the audio into slices (`FeedSlice`), `DrainOne` pushes stable frames into
the encoder, `CallFinish` and `DrainFinal` append the right pad, flush with the
reflection at the end and hand over the rest.  `retain_history` chooses between
the bounded frontend of production and the one that keeps the matrix.
`BatchMel(PaddedAudio(n))` is the reference: what `voxtral_mel_compute_batch`
computes from the whole padded utterance.

### ReferenceEncoder

The encoder strategy `reference`, under the calls of `MelFrontend`, whose frames it
takes: a push (`PushSlice`, `PushRest`) starts a drive, and each pass of the loop of
`encoder_stream_drive` is an action (`RunChunk`, `DriveEnds`, or `RunFails`).  A Mel
frame is its number; an encoder frame is the first Mel frame its chunk kept, the last
one it hears and its RoPE position, which is all that can differ between two ways of
cutting the same Mel into chunks.  `RunChunked` is `run_encoder_chunked`, the batch
path's loop over the same chunks.  In the code the drain's cursor moves after the
encoder has returned, here when the push begins; nothing reads it in between, and a
stream that fails there is only reset.

### EncoderKv

The production K/V encoder.  A frame is its position in its stream; a device row
is the (stream, position) that was last written there, so leftovers of earlier
streams and of failed launches are visible.  `NextLaunch` is the loop body of
`encoder_kv_drive`, `Launch` one device graph of it, `LaunchFails` one that the
backend reports as failed after any part of its writes.  `attended` records what
each row of the last graph read: its key rows through the ring segments, the
block's padding columns and the mask, and its Mel frames through the convolution.
Two graphs compute rows: the block graph (`BatchReads`) and the reusable four-row
graph (`SteadyReads`, chosen by `IsSteady`).  The output goes to the device ring
of incremental streams or to a host accumulator (`StoreOutput`).  `ScheduleFromEnv`
translates the four environment variables that select the schedule.

### DecoderKv

Adapter and decoder on the device: `AdapterGraph` fills the embedding ring from
the encoder's output ring; `PrefillGraph` reads it as a contiguous view from
column 0, `Step` by position; both write the decoder's K/V ring.  `StepMask` is the choice
of the reusable graph (masked until the cache is full, then without a mask) and
the host's cache of the uploaded mask, and `OpenSlots` what the device sees of it.
`decoded` records which embedding and which keys the last step read.

### Pipeline

One stream on one context, from stable Mel frames to decoder steps: feed, resume,
finish, reset and `voxtral_encoder_stream_warmup`, with the drain, the drive loop
and the pump as the steps of a call.  It composes `EncoderKv` and `DecoderKv`; a
stalled event queue is a choice of `StepOne` and `FlushPending`.  `MCPipeline`
names the environments of its run.

### ServerApp

The server around its sessions.  The I/O thread runs one handler at a time, so a
handler is one action; the worker takes one action per access to shared state:
`TaskEnds`, `ReleaseLease`, `PostResult`, `FreeSlot`, `Notify`, `ThreadEnds`.

| Code | Model |
|---|---|
| `GpuLeaseManager`, `GpuLease`, `Cancellation` | `mode`, `active`, `lease`, `token`; `Acquired`, `Released`, `ModeAfter`, `Requested` |
| `WorkerSlot` | `wpc`, `owner`; `Running`, `Launched`, `JoinOld`, `StartThrows` |
| `accept_next`, `register_session`, `unregister_session` | `Connect`, `OnAccept`, `Close` |
| `HttpSession` | `ReadFails`, `ReadOther`, `ReadRefused`, `ReadBatch`, `ReadBatchUnstarted`, `ReadRealtime`, `WriteEnds`, `OnWatch`, `OnWatchAborted`, `OnBatchResult` |
| shutdown | `InitiateShutdown`, `TellSessions`, `Settled`, `WorkerFinished`, `ForceShutdown`, `MainExits` |

`sessions_` holds weak references, so `Alive` says who still refers to a session
object: an operation or a posted handler of it, or the worker's function, which
`ThreadEnds` drops after the completion is posted.  A realtime session appears by
what it does to this state (`RtConfigure`, `RtFinish`, `RtVanish`);
`RealtimeSession` is its inside.  Everything that is answered without the lease
(health, wrong path, method, token, size or format) is `ReadOther`.

### BatchTranscription

`transcribe_batch` as a client of `StreamRuntime`, which it extends: `Thread` is the
worker, acting between the calls of the library, `Library` a step of the running
call, `Request` the cancellation by the I/O thread.  `late` counts the calls begun
although the request was cancelled, `broken` records a backend failure.

### RealtimeSession

One WebSocket session of the server.  The I/O thread runs one handler at a time,
so a handler is one action: the reads (`ReadConfigure`, `ReadAudio`, `ReadPing`,
`ReadFinish`, `ReadCancel`, `ReadInvalid`, `ReadFails`), the writes (`MaybeWrite`,
`WriteDone`, `WriteFails`), the timers, the posted handlers (`InputSpace`,
`WorkerFinished`), closing and shutdown.  A write or a read in progress is state
(`writing`, `reading`); a posted handler is a flag.  An expired timer whose
handler is queued is a state of its own (`idleDue`), because re-arming the timer
does not take the handler back.

The worker takes one action per access to something it shares: the PCM queue, the
cancellation token, the outbound queue under its mutex, the posted handlers.
`wpc` is its place, `wfrom` says what an enqueue belongs to, `asleep` that it
waits on the condition variable.  The stream it drives is external to this module
(`StreamRuntime` is its model): a feed appends some events and may ask for a
resume or fail.

| Code | Model |
|---|---|
| `on_read`, `handle_*`, `pump_pending_audio`, `read_next` | `Read*`, `InputSpace`, `PumpPendingAudio`, `CanRead` |
| `maybe_write`, `on_write`, `close_transport`, `finish_session` | `MaybeWrite`, `WriteNext`, `WriteDone`, `WriteFails`, `CloseTransport`, `FinishSession` |
| `protocol_failure`, `enqueue_from_io` | `ProtocolFailure`, `IoAccepts`, `Trimmed` |
| `inference_worker`, `feed_audio`, `resume_backpressure`, `drain_events` | `CreateStream`, `PopAudio`, `PopEnds`, `FeedStream`, `PollEvent`, `DrainReturns`, `ReturnsFalse`, `FinishStream` |
| `enqueue_from_worker`, `coalesce_partial_locked` | `EnqueueAccepts`, `EnqueueWaits`, `EnqueueFails`, `Coalesced` |
| `observe_lag`, `handle_worker_cancellation`, `worker_failure` | `ObserveLag`, `HandleCancellation`, `WorkerFailure` |
| `PcmQueue` | `Accepted`, `PopAudio`, `PopEnds`, `queued`, `pcmFinishing`, `pcmCancelled` |
| `ServerApp` shutdown, `WorkerSlot` | `Shutdown`, `ShutdownTimeout`, `WorkerFinished`, `WorkerExits` |

Abstractions: audio is counted in worker chunks, the outbound queue is bounded by
messages only (not by its 4 MiB), the lag is a choice, and a worker slot that is
still taken by an earlier session is a choice of `ReadConfigure` (`ServerApp` has
the slot).  `sent`, `pings`, `warnings`, `clientCancelled` and `broken` are history.

### The `_proofs` modules

Theorems about the module each is named after, with the inductive invariants and
lemmas they rest on; see section 6.

    StreamRuntime_proofs         types, queue bound, stalls, credit, event order; with
                                 short feeds rings, tail, terminal event, the contract
      BatchTranscription_proofs  the batch request above that stream; EXTENDS it
    EncoderKv_proofs             launches, device rows, what graphs read
      Pipeline_proofs            the same in the composition, and the decoder; EXTENDS it
    MelFrontend_proofs           what the frontend holds; streaming equals batch
      ReferenceEncoder_proofs    window, work, and the batch encoder's frames; EXTENDS it
    RealtimeSession_proofs       one WebSocket session
    ServerApp_proofs             the server around its sessions

## 3. Runs

| Run | Instance | Question |
|---|---|---|
| `realtime` | feeds of at most one drain slice; a queue that is small against the stream; rings at the smallest size that can hold what is in flight; failures; two generations | does a stream keep its whole contract in the regime the server and realtime clients use? |
| `batch` | files of 0 to 14 groups in four-group chunks, a queue of two events, failures, a cancellation at any time | is the answer to a batch request true, and does every request end? |
| `mel_reference` | windows of two and a half hops, feeds of 1, 3, 7 and 26 samples in any order, up to four chunks, failures, resets | are the streamed Mel frames, and the reference encoder's frames, those of the batch computation? |
| `pipeline` | every schedule mode, wrapping rings, a block shorter than the prompt, failures, warmup, reset | does every graph read its own rows, is anything refused or skipped? |
| `server` | two connections, one request each, one shutdown, with its deadline | who uses the engine, who is answered what, does the process exit? |
| `session_transcript` | one-chunk PCM queue, frames of one and two chunks, three outbound messages | is audio or a transcript event ever lost, swapped or sent after a cancellation? |
| `session_control` | pings, warnings, stream failures, both ends of a shutdown | does a handshake follow a last message, and is the lease always given back? |
| `session_liveness` | no stream failures, a shutdown that meets no deadline | does waiting audio move, do sessions, workers and the server end, is a cancellation answered? |
| `oneshot_rings` | a feed longer than the encoder ring meets a full queue | is "nothing is lost" true? No: unread encoder rows are overwritten. |
| `oneshot_finish` | the same, then `finish()` | are mandatory events never dropped? No: the terminal event can be. |
| `session_cancel` | the stream fails while `session.cancel` is handled | is every cancellation answered? No. |
| `session_deadline` | the shutdown deadline passes while the worker waits for room | does a shutdown always join the worker? No. |

What the properties say.

*Stream* (`realtime`): `EventsInOrder` - TOKEN events are numbered without gap,
repeat or swap over queue and client together, match the committed history, and a
later snapshot is never shorter; `DecodesOwnAudio` - every decoder step read the
embedding of its own position of its own generation; `WholeAudioDecoded` - a
completed stream decoded every accepted group; `RetryIsExact` - between calls Mel
holds exactly the audio the client was credited with; `StepsOnce` - stalls neither
repeat nor lose decoder steps; `StallHoldsToken` - QUEUE_FULL means there is a
token to deliver; `QueueBounded` - the reserve is for the terminal flush only;
`EagerFeedNeverStalls` - the estimate behind eager coalescing is large enough;
`KeepsContract` - the refinement of `StreamContract`.  `TerminalDelivered` - an
ended stream has its one terminal event, last - is the subject of `oneshot_finish`.

*Batch*: `ResultIsTrue` - "ok" means the whole file was fed once and decoded, every
TOKEN counted and no event left; "failed" means the backend failed, for a full
queue never becomes the answer; "cancelled" means somebody asked.  `CancelStops` -
at most one more library call begins after a cancellation.  `RequestEnds`.

*Mel*: `SameAsBatch` - same windows, once each, in order, all of them;
`DrainServedFromTail` - the drain's error branches are unreachable although samples
and frames are dropped as early as possible, and less than one window stays.
`ReferenceReplaysBatch` - what a completed reference stream hands the adapter is what
the chunked batch encoder computes from the same Mel (`ReferenceIsBatch`); its window is
never asked for a dropped frame and stays below a chunk (`WindowFollows`); running chunk
0 ahead costs at most three times what it covers, every later chunk is run once while the
stream is open, and no stream is more than a stride behind its Mel (`WorkBounded`).  It
holds although two comments about it do not.  "The realtime padding forces left-trunc = 0"
(`voxtral.cpp:4498`) is true of chunk 0 and of complete chunks only: 1500 Mel frames are
not whole adapter groups, so an unfinished chunk 1, 3, ... is truncated, and its first two
new frames are lost; the batch path loses the same two.  "The last incomplete chunk is run
once at finish()" (`:4502`): it is run by the terminal push and again by `voxtral_encoder_stream_finish`, which emits
nothing new.

*Pipeline*: `EncoderReadsRight` - each row attends exactly its causal window of its
own stream and is convolved from its real Mel frames; `NeverRefused` - no launch
fails one of the encoder's own checks; `DeviceRowsKept` - what a later graph or
reader needs is still on the device, even after a launch that failed half way;
`SameGraphsForEveryPlan` - before the end the sequence of graphs depends on the
schedule only, not on how the audio was cut; `StepReadsRight` - a decoder step reads
its own embedding and exactly the newest window of keys, before, at and after the
change of graph; `EverythingStepped` - no position is skipped or stepped twice;
`WarmupGeometry` - a warmup without a backend error only fails for schedules whose
batches do not divide the prompt's rows after the startup block.  It does fail for
those, the throughput mode among them (`VOXTRAL_ENC_KV_MODE=throughput`).

*Server*: `OneEngineUser`, `ShutdownReachesHolder`, `AnsweredForItself` (no result
after a cancellation; no cancellation for another's disconnect; no silence without a
cause of one's own), `ShutdownNotLost`, `ShutdownEnds` (which allows for the one case
`session_deadline` shows).

*Session*: `InputNotLost`, `OutputNotLost`, `CancelWithoutFinal`, `EndsCleanly`,
`SessionEnds`, `WaitingAudioMoves`, `CancelAcknowledged`, `ShutdownEnds`.

### The violated statements

The violation runs state what the repository says.  Those of the stream need one
feed of several slices that meets a full queue.  `feed_common` then goes on encoding
without pumping, so the encoder-output ring wraps over rows no adapter group has
read (`oneshot_rings`); the backlog is later released one embedding ring per
pump, which lets the terminal flush exceed its reserve (`oneshot_finish`);
`WholeAudioDecoded` fails in the same way there, since `finish()` can answer OK
with accepted audio undecoded.  Feeds of at most one slice (16000 samples), which is what the
server sends, are not affected, as `realtime` and `batch` show.

Those of the session: `worker_failure` stays silent under a
requested cancellation and leaves the closing to the requester, but
`session.cancel` does not close anything itself, so the session neither answers
nor closes and its object goes when the idle timer lets go of it
(`session_cancel`); a worker waiting for outbound space notices a closed queue or
a disconnect, but not a shutdown, and after `force_shutdown` no handler is left
to close the queue (`session_deadline`).  `EndsCleanly` asks for a last message only of
sessions that no shutdown meets: `initiate_shutdown` ignores that its error was
refused by a full queue, and then closes without it.

Two divergences from the documentation follow from one pattern and have no run of
their own.  `push_event_coalesced` (and `coalesce_partial_locked` in the server)
overwrites the newest queued snapshot where it stands, before tokens queued after
it; so in a full queue a PARTIAL_TEXT can precede the TOKEN that caused it
(`docs/public-streaming-api.md:194`), and on the wire, with token events on, sequence
numbers are not strictly increasing (`docs/server-api.md:251`).  And the comment at
`voxtral-stream-frontend.cpp:112` ("a fixed absolute Mel cadence") does not hold
literally - the last slice of a feed may be shorter than eight frames - but what it
is for does: `SameGraphsForEveryPlan`.

### Bounds

Stream.  The real values are `MaxEvents` 4096, `Headroom` 64, `LeftPad` 32, `Delay` 6,
`RightPad` 17, `EncRing` 64 groups, `AembRing` 256, `SliceGroups` about 12.
The runs scale them down and keep their relations: `Headroom >= 2 * (RightPad +
1) + 2` (the tail's tokens and snapshots, end of stream, and two last events),
the embedding ring holds the prompt and one slice, the encoder ring one slice
and the tail.  `MaxEvents` is below the events of one stream in every run, so a
stall is possible at every position of the pump; `MaxAudio` (8 to 16 groups) is
several slices and more than either
ring, so both wrap; `MaxGen = 2` gives every reset and re-creation a predecessor
whose rows remain in the rings.  `MaxAudio` also plays the part of the INT64_MAX
limit on the sample position.  In `batch` the chunk is one slice and the queue is
smaller than the tokens of one chunk, so every feed of a long file stalls at least
once; the files include the empty one, one shorter than a chunk, one of whole chunks,
and ones with a rest.

Mel and reference encoder.  The code has windows of 400 samples and hops of 160; ten and four keep the
ratio, so that windows overlap, the first two frames reflect on the left and the last
ones on the right.  Feeds of one sample and of several slices occur
in every order up to 146 samples.  A chunk of 28 Mel frames is four overlaps, seven
progressive intervals and seven tokens, and its stride of 14 is not whole tokens, as
3000, 750, 256, 8 and 1500 are related in the code; 146 samples and their padding end
in chunk 0, 1, 2 and 3, complete or not.  `Int32Span` is 2^16 instead of 2^32: far
from the samples of the run, as it is in practice for streams below 37 hours.

All these values satisfy the assumptions that the proofs use, and so do the real ones:
with 32, 6, 17, 64, 256 and 12.5 groups (`RingConstants`) a left pad and a slice need 44
of 64 encoder groups and 50 of 256 embeddings, the tail 18 and 55.

Pipeline.  A window of 5 frames, startup block of 8, groups of 2, output ring of 16,
embedding ring of 10 and decoder cache of 8 stand for 750, 128, 4, 256, 256 and
8192.  `OutCap` holds a startup block and a slice, the block is shorter than the prompt
(12 frames), and 44 Mel frames make 22 encoder frames, so the K/V ring (13), the
output ring, the embedding ring and the decoder cache all wrap and the step graph is
rebuilt in mid-stream.  `FinishSizes` has two widths, both above the
steady graph's two rows.  The feeds satisfy `ShortFeeds` - what one call adds to the
rows held back fits both rings - as a slice of 16000 samples does with the real
values: 100 Mel frames behind the left pad of 256 make 178 rows, behind a block held
back 180, and the flush 202, of 256; before the prefill the embedding ring holds 326 of
1024 rows.  `PromptAssumption` (the pads reach the prefill, the prompt the startup
block) is `304 <= 392` Mel frames and `128 <= 156 <= 256` rows there.  Two passes (a stream or the warmup, then a stream) meet every kind of
leftover; three passes give no other result.

Server.  Two connections are enough for one to compete with another at every step of
lease, slot and shutdown, since there is one lease and one slot; the proofs cover any
number.

Session.  The real values are 256 outbound messages and one second of PCM.
With `MaxOut = 3` and `Capacity = 1` every place that can find a queue full does,
and a frame of two chunks cannot be taken at once.  `MaxSeq` (one to four) counts
the public stream's events before the last two: two are enough for a token and a
snapshot in the outbound queue, four for a worker that waits for room.  One ping and
one warning reach each of their branches; more only
repeat them.  `session_transcript` leaves out signals (`Signals = FALSE`): shutdown is
the subject of the other session runs, and there it would multiply the states.

### Deadlock

The stream's own runs check it: a client can always poll, end, reset or re-create.  The
others do not: a session that has ended, a request that was answered, a server
that exited and a context whose streams are used up rightly have no further step.
That nothing there waits for ever is stated by the liveness properties.

### Fairness

`BatchTranscription`: weak fairness of `Library` (a call that is running goes on: the
library has no wait in it) and of `Thread` (the worker thread is scheduled).  Nothing
is assumed of cancellations.  `RequestEnds` therefore also says that the pump's loop
and the resume loop end.

`RealtimeSession`: weak fairness of `Ready` (the io_context does
not rest while a handler is ready; the opening and closing handshakes have
timeouts, and the keep-alive pings `run` configures end a write to a client that
no longer answers) and of `Worker` (a thread that is not waiting goes on, and the
stream's calls return, as `RequestEnds` shows of the same calls).  Nothing is
assumed of what the client sends, nor that the session's timers expire.

`ServerApp`: weak fairness of the worker's steps, of ready handlers, of the aborted
read of a session that closed its socket, of a realtime session that was told to shut
down (its transport has timeouts), of the shutdown deadline (a timer) and of `main`.
A realtime task is assumed to end only when its session has closed, since an open
session may wait for its client.  Nothing is assumed of peers or signals.

## 4. Hazards

The hazards are listed in `PROJECT.json`, each at its line, with the properties
that would catch it.  Four have none: two races of the idle timer, which need a model of
time; the int32 sample positions of the Mel window after 2^31 samples, which no
bounded run reaches (`StreamedAsBatch` is proved for audio below that length); and the
output-ring switch of a context that is never reset.  Their notes say why.

## 5. How the pieces are checked together

`KeepsContract` is a refinement: `StreamRuntime` under a mapping of its queue and
history implements `StreamContract`; it is checked and proved (`KeepsItsContract`).
`CallsDriveEncoder` is another, proved only: every behaviour of `Pipeline` is, on the
encoder's variables, a behaviour of `EncSpec`, so what is proved of the encoder alone
holds in the composition (`PipeNeverRefused`, `EncoderKeepsWithin`).  The batch run
composes `BatchTranscription` with the whole of `StreamRuntime`, and its proof uses the
stream's invariants the same way: a step of the request is a step of the stream or
leaves it alone.  The worker's chunks are the feeds there, so the stream's promises
under short feeds hold of the composition without that hypothesis
(`RequestKeepsContract`, `RequestStreamSafe`, proved only).  The pipeline run composes scheduler, encoder and decoder.
`mel_reference` composes the frontend with the reference encoder behind it, and
`EncodesUtterance` (proved only) is about both: from samples to encoder frames.

## 6. Proofs

Each invariant was checked by TLC on the run's instance before it was proved, and the
theorems hold for every value of the constants their assumptions allow.

### Assumptions

The named ones of the modules, which the runs evaluate:

- `StreamConstants`: positive sizes; the terminal reserve holds the tail's tokens and
  snapshots, the end of stream and two last events.
- `RingConstants` (`StreamRuntime`): each ring holds what can be in flight with feeds of
  one slice; used by the short-feed half of `StreamRuntime_proofs` and the
  batch request only.
- `BatchConstants`: a chunk of the batch worker is at most one slice.
- `EncoderAssumption`: the `static_assert`s of `voxtral.cpp`; the block sizes a schedule
  can name divide the startup block.  `DecoderAssumption`, `PipelineAssumption`: the prompt
  fits the rings, the pads are whole groups.  `ShortFeeds` and `PromptAssumption` of
  `Pipeline` (section 3): used for what the decoder reads, not for the encoder.
- `MelAssumption`: a window of two pads, a pad between one and two hops, whole tokens.
- `ReferenceAssumption`: a chunk of four overlaps and of whole adapter groups, an interval
  of whole groups, a token of one group (3000, 750, 256 and 8 in the code).
- `SessionConstants`: at least three outbound messages.  `ServerAssumption`: finitely
  many connections.

Two hypotheses appear in the theorems themselves.  `ShortFeeds` of `StreamRuntime` - no
feed is longer than a slice - is what the server keeps to and the API does not enforce;
the runs `oneshot_rings` and `oneshot_finish` show that the conclusions fail without it.
`ShortSignal` of `MelFrontend_proofs` - the padded audio stays below 2^31 samples, 37
hours - is what the `int32_t` positions of `fill_window` need; `ReplaysBatch` and
`EncodesUtterance` inherit it.

### Arguments

**StreamRuntime_proofs.**  Nothing here depends on feeds being short or rings being
large.  The properties are not inductive: that `QUEUE_FULL` implies a stashed token needs
to know what the pump last answered, and that the credit is exact between calls needs
to know how much of the running feed has been sliced.  `IInv` adds exactly this: `Phase`
(which call can be at which place, and that feeding calls run in open streams only),
`Reserve` (the reserve is open iff the stream no longer accepts audio, and the queue keeps
to the bound in force), `Held` (backpressure, the stashed token, `full` and `outcome`
agree at every step) and `Credit` (`RetryIsExact` in the middle of a feed).  There is
one lemma per action and shared lemmas for the shared pieces (`DeliverStep`, `StashStep`,
`FailStreamStep`, `ReturnStep`, `FreshStreamStep`).  `EventsStayInOrder` is about
the log `delivered \o queue`: a poll leaves it as it is, a push appends to it, and a
coalesced snapshot replaces one or moves it to the end; `Ordered` relates the log to
`seqno` and the committed history, and the `Log...` lemmas say what each of these does to
it.

The second half assumes feeds of one slice.  `CountInv` accounts for the groups: what is
pushed, emitted, committed, decoded and still to come at every place of a call
(`Emission`, `Place`), that nothing is left behind when a call returns without a stall
(`CaughtUp`), and that queue and reserve have room for what is ahead (`EagerRoom`,
`TailRoom`).  `RowInv` then says which row each slot of the two rings holds: distance
smaller than the ring means different slots (`DivMod`).  From it `OwnAudioDecoded`,
`AudioDecodedWhole`, `EagerNeverStalls`.  `Closed` adds that a log has a terminal event
exactly when its stream has ended, and `RoomToEnd` that the last two events find room;
hence `TerminalAlwaysDelivered`.  `KeepsItsContract`, the refinement: the abstract log is
the mandatory part of the concrete one, the abstract cursor the length of the mandatory
part of what was polled, and each step adds a promise, ends the log, moves the cursor,
starts a generation or stutters.

**BatchTranscription_proofs.**  `BatchInv` is the stream's invariants and `ThreadInv`,
stated about the place the thread is at or returns to after its drain (`Here`): how much
of the file the stream has been credited with (`Account`), what the last answer says of
the stream's state (`Answer`), that every TOKEN the thread polled is in its tally
(`Tallied`), and that a failure has the backend's fault behind it (`Blame`).  `ResultAlwaysTrue`,
`CancellationStops`.  With it a request's stream keeps the contract as well
(`RequestKeepsContract`): a feed of the worker need not be one of `FeedSizes`, but it
promises nothing and reads nothing, and every other step is one of the stream's own.

**EncoderKv_proofs.**  `NeverRefused` needs one fact about every state between launches,
`TailFollowsHead`: the Mel tail begins exactly where the convolution of the next frame
begins and ends with the received audio, and no frame runs ahead of its Mel.
`NextLaunchProperty` then bounds what the drive loop asks for and `RunnableProperty` shows
that each check passes.  The rows: before a launch the ring holds the window of the next
frame (`RingHoldsWindow`); the launch writes at most a block behind it, and window and
block together are no longer than the ring, so no slot of the window is overwritten, by a
launch that fails half way either.  A row's reads are then its causal window, since the
mask closes exactly the other columns and the padding.  `EncNeverRefused`, `EncRowsKept`,
`EncReadsOwn`.

**Pipeline_proofs.**  `PipeInv` is the encoder's invariant, the types,
`FinishRunsThrough` (an open stream's audio still fits its padding; finish never pauses),
`PrefillsOnce` (a prefill or warmup meets an empty K/V span) and `StepsEachPositionOnce`
(the span ends at the scheduler's position, one further while a token waits).  From it
`CallsDriveEncoder` and the theorems about the encoder inside, and
`DecoderNeverRefused`.  `FlowInv` adds that encoder and pump are caught up where a call
says so (`EncoderCaughtUp`, `PumpCaughtUp`, `WarmupCounts`), what the output ring, the
embedding ring and the decoder's K/V ring hold (`RingsHold`), that the host's idea of the
mask is the device's (`MaskIsDevices`), and that the graphs launched so far are a prefix
of one canonical sequence (`SequenceKept`, `CanonicalSoFar`).  `StepsReadRight`,
`NothingSkipped`, `WarmupReaches`, `OneGraphSequence`.

**MelFrontend_proofs.**  `HoldInv`: the samples held reach from the first one the next
frame may read to the last one received, the frames held from the cursor to the next one;
with it the drain's error branches are unreachable (`DrainFindsAll`).  `UtteranceInv` adds
what they are: a frame that is stable reads samples of its own position whatever follows
(`StableIsBatch`), and the frames that only `finish` completes are reflected at the padded
end as the batch path reflects them (`LastFrameReads`).  The reflection loop of
`voxtral_reflect_index` is a fixpoint equation in the model; `ReflectionExists` and
`ReflectOnce` show that it has a solution, and which one within a window of the signal.
`StreamedAsBatch`: for every cut of the audio the frames pushed are those of the batch
computation, once each and in order, and so is the matrix that is kept.

**ReferenceEncoder_proofs.**  Two loops have to agree: the batch path's, over a complete
signal, and the stream's, spread over pushes and passes.  The first gets a closed form:
`Owner(g)` is the chunk that emits frame g, `BatchFrame` what that chunk makes of it, and
`RunsToBatchFrames` says that `RunChunked` is exactly the sequence of these, which
includes that `compute_total_enc_tokens` and the loop count the same frames and the
clamp to the buffer never bites.  Of the second, `StreamInv` says where the window is
(`WindowAt`), that everything up to the overlap of the current chunk is emitted
(`EmittedFrom`), what was run for it (`Worked`), and that between drives nothing is due
(`Settled`); this gives the types, `WindowFollows` and `WorkBounded`.  `ReplayInv` then
compares the two: before the end each emitted frame is the `StableFrame`, the one a batch
run makes of it for *every* longer signal (`Stable`); after the final chunk the output is
`RunChunked` of what was pushed (`Replayed`).  The step from the one to the other is the
final drive.  A complete chunk loses nothing to truncation, since `ChunkMel` is whole
groups, and a prefix of chunk 0 loses nothing because `Prefix` rounds down to them.  The
final part of chunk 0 is whole groups too, since the padded utterance is whole tokens
(`WholeAtTheEnd`); the one of a later chunk need not be, but then stream and batch cut the
same part.  The batch loop ends right behind that chunk (`OneLeft`) or, if it has nothing
new, in front of it (`NoneLeft`).  `ReplaysBatch`; and, joined with `StreamedAsBatch`,
`EncodesUtterance`: from the samples a client sent to the frames the adapter gets,
however they were cut, the path computes the batch path's result.

**RealtimeSession_proofs.**  `LeaseHeld` says who has the lease and what a closed session
still refers to, `Control` and `WorkerFlow` where the worker can be and why,
`EventsQueued` what the stream's event queue holds in each phase.  `AudioKept` counts
the audio from the frame to the stream.  `Numbered` relates the messages
accepted for the client (`sent`, `writing` and the queue as one sequence) to the events
polled: one operator, `Placed`, covers appending and coalescing, `Carries` giving up a
snapshot for room.  `EndTold` is what `CleanEnd` needs at every step: before the server
stops, a session that is to close has something terminal for its client.  There is one
lemma per conjunct with one step per action.  `TypeCorrect`, `InputKept`, `OutputKept`,
`NoFinalAfterCancel`, `CleanEnd`.

**ServerApp_proofs.**  The invariant is the four safety properties themselves with
what they rest on: `StagesAgree` (which stage of a connection a lease, a result or an
answer belongs to), `ResultOfBatch` (a posted result is a batch's),
`SessionsRegistered` (a served connection is registered until closed; once the server
stops only sessions that will still unregister are left - the heart of
`ShutdownNotLost`) and `CancelHasCause` (a disconnect token means a closed session
whose client stirred, a shutdown token means a shutdown).  One lemma per conjunct,
one step per action.

### Model-checked only

- Liveness: `RequestEnds`, `SessionEnds`, `WaitingAudioMoves`, `CancelAcknowledged` and
  both `ShutdownEnds`.  Fairness and ENABLED are outside what the proof system covers.
- What the violation runs refute is not provable; `TerminalDelivered` is proved under
  `ShortFeeds`.

The library's induction theorems take an operator, which no installed prover can
instantiate; where an argument needs induction over numbers (a least position, the
length of a filtered log, the reflection) it is a least-element argument from
`NatLessThanWellFounded` and `WFMin`.  The batch path's chunk loop is a recursive
*function* in the model for the same reason: its number of passes is the least one at
which the loop ends (`ChunksIs`), and its values are found by counting up from 0
(`CountUp`).

## 7. Not modelled

The numerical kernels, quantiser, converter, command line and examples: sequential
tensor or file code whose correctness is not a matter of states and interleavings (which
rows each graph reads and writes is modelled).  The global-causal batch encoder, the
whole-utterance decoder and the offline Whisper model: they are not on the path of any
public stream that does not ask for them by an environment variable; of the finish-only
stream `EncoderKv` has the host accumulator.  (`run_encoder_chunk` ignores the
backend's status at `voxtral.cpp:3405`, so a failed graph goes unnoticed there; in
`ReferenceEncoder` a chunk that is computed is computed right.)  The WAV reader,
configuration and
authentication: parsers of one buffer without state, covered by table tests.
Telemetry and diagnostics: nothing reads them to decide.  JSON formatting and logging.

## 8. State and plan

1. Done: the stream (`StreamContract`, `StreamRuntime`), the realtime session, the
   server, the batch worker, the Mel frontend, both encoder strategies, the decoder and
   their composition.  Every safety property and every refinement that a passing run
   checks is also a theorem of section 6; the runs' six liveness properties are
   checked by TLC only.
2. Models next: the whole-utterance decoder against the incremental one, the WAV
   reader against a reference definition, and the idle timer of a session with a model of
   time (section 4).
3. Proofs next: a K/V encoder that implements the whole causal attention, as
   `EncodesUtterance` does for the reference strategy; today `EncReadsOwn` says it row by
   row.
