------------------------- MODULE BatchTranscription -------------------------
(***************************************************************************)
(* A batch request inside the worker (src/server/batch-transcription.cpp   *)
(* through the EngineStream wrapper of engine.cpp): a client of the        *)
(* stream of StreamRuntime that feeds a file in chunks, drains the events  *)
(* after every call, resumes the decoder when the queue was full, and      *)
(* looks at its cancellation before every poll, chunk and finish().        *)
(*                                                                         *)
(* The library runs between the steps of this thread (pc of StreamRuntime  *)
(* is not "idle"); the cancellation comes from the I/O thread at any time. *)
(***************************************************************************)
EXTENDS StreamRuntime

CONSTANTS
    ChunkGroups,  \* kBatchChunkSamples, in groups
    Files         \* bound: the lengths of the files transcribed, in groups

\* A chunk is at most one drain slice (both are a second of audio).
ASSUME BatchConstants ==
    ChunkGroups \in 1 .. SliceGroups /\ Files \subseteq 0 .. MaxAudio

VARIABLES
    file,     \* samples.size()
    offset,   \* offset
    chunk,    \* chunk_offset of the chunk being fed
    before,   \* samples the stream had received before the running feed
    at,       \* where the thread is
    ret,      \* where it goes when its events are drained
    tally,    \* result.token_count
    result,   \* the result it returns
    wanted,   \* cancellation->requested()
    late,     \* history: library calls begun although the request was cancelled
    broken    \* history: the backend failed

batchVars == << file, offset, chunk, before, at, ret, tally, result, late >>
allVars   == << vars, batchVars, wanted, broken >>

Count == Min({ChunkGroups, file - offset})

BatchInit ==
    /\ Init
    /\ file \in Files /\ offset = 0 /\ chunk = 0 /\ before = 0
    /\ at = "create" /\ ret = "none" /\ tally = 0 /\ result = "none"
    /\ wanted = FALSE /\ late = 0 /\ broken = FALSE

-----------------------------------------------------------------------------
\* The thread acts between calls of the library.
At(here) == pc = "idle" /\ at = here

\* A call of the library begins.
Calling == late' = late + (IF wanted THEN 1 ELSE 0)

Go(there) == at' = there

Finished(r) == at' = "leave" /\ result' = r

\* A cancelled request cancels its stream and ends, whatever cancel() says.
Abandon ==
    /\ CallCancel
    /\ Finished("cancelled")
    /\ UNCHANGED << file, offset, chunk, before, ret, tally, late, broken, wanted >>

\* Engine::create_stream succeeds or throws.
Create ==
    /\ At("create")
    /\ \/ Go("chunk") /\ UNCHANGED << result, broken >>
       \/ Faults /\ Finished("failed") /\ broken' = TRUE
    /\ UNCHANGED << vars, file, offset, chunk, before, ret, tally, late, wanted >>

\* The loop over the chunks.
NextChunk ==
    /\ At("chunk") /\ offset < file
    /\ IF wanted THEN Abandon
       ELSE /\ Go("feed") /\ chunk' = 0
            /\ UNCHANGED << vars, file, offset, before, ret, tally, result, late, broken, wanted >>

LastChunk ==
    /\ At("chunk") /\ offset = file
    /\ Go("finish")
    /\ UNCHANGED << vars, file, offset, chunk, before, ret, tally, result, late, broken, wanted >>

\* The loop over one chunk: the suffix the stream has not consumed.
FeedRest ==
    /\ At("feed") /\ chunk < Count
    /\ CallFeed(Count - chunk)
    /\ before' = received /\ Calling
    /\ Go("drain") /\ ret' = "fed"
    /\ UNCHANGED << file, offset, chunk, tally, result, broken, wanted >>

ChunkFed ==
    /\ At("feed") /\ chunk = Count
    /\ offset' = offset + Count
    /\ Go("chunk")
    /\ UNCHANGED << vars, file, chunk, before, ret, tally, result, late, broken, wanted >>

\* After the events of a feed are drained, its status counts.
Fed ==
    LET consumed == received - before
    IN  /\ At("fed")
        /\ chunk' = chunk + consumed
        /\ \/ res = "queue_full" /\ Go("drain") /\ ret' = "resume" /\ UNCHANGED result
           \/ res = "ok" /\ consumed > 0 /\ Go("feed") /\ ret' = "none" /\ UNCHANGED result
           \/ res = "ok" /\ consumed = 0 /\ Finished("failed") /\ UNCHANGED ret
           \/ res \notin {"ok", "queue_full"} /\ Finished("failed") /\ UNCHANGED ret
        /\ UNCHANGED << vars, file, offset, before, tally, late, broken, wanted >>

\* Mutant of DrainStep: the cancellation is looked at between chunks only.
DrainStep_Unchecked ==
    /\ At("drain")
    /\ IF queue = << >>
       THEN /\ Go(ret)
            /\ UNCHANGED << vars, file, offset, chunk, before, ret, tally, result, late, broken, wanted >>
       ELSE /\ Poll
            /\ tally' = tally + (IF Head(queue).type = "token" THEN 1 ELSE 0)
            /\ IF Head(queue).type = "error" THEN Finished("failed")
                                             ELSE UNCHANGED << at, result >>
            /\ UNCHANGED << file, offset, chunk, before, ret, late, broken, wanted >>

\* Mutant of DrainStep: one event only.
DrainStep_One ==
    /\ At("drain")
    /\ IF wanted THEN Abandon
       ELSE IF queue = << >>
       THEN /\ Go(ret)
            /\ UNCHANGED << vars, file, offset, chunk, before, ret, tally, result, late, broken, wanted >>
       ELSE /\ Poll
            /\ tally' = tally + (IF Head(queue).type = "token" THEN 1 ELSE 0)
            /\ Go(ret)
            /\ UNCHANGED << file, offset, chunk, before, ret, result, late, broken, wanted >>

\* One turn of drain_events: cancelled, nothing left, or an event; an ERROR
\* event ends the request.
DrainStep ==
    /\ At("drain")
    /\ IF wanted THEN Abandon
       ELSE IF queue = << >>
       THEN /\ Go(ret)
            /\ UNCHANGED << vars, file, offset, chunk, before, ret, tally, result, late, broken, wanted >>
       ELSE /\ Poll
            /\ tally' = tally + (IF Head(queue).type = "token" THEN 1 ELSE 0)
            /\ IF Head(queue).type = "error" THEN Finished("failed")
                                             ELSE UNCHANGED << at, result >>
            /\ UNCHANGED << file, offset, chunk, before, ret, late, broken, wanted >>

\* resume_after_backpressure, its events drained: a feed of nothing.
Resume ==
    /\ At("resume")
    /\ CallFeed(0)
    /\ before' = received /\ Calling
    /\ Go("resumed")
    /\ UNCHANGED << file, offset, chunk, ret, tally, result, broken, wanted >>

\* Mutant of Resumed: the next resume does not wait for the queue to be drained.
Resumed_NoDrain ==
    /\ At("resumed")
    /\ \/ res = "queue_full" /\ Go("resume") /\ UNCHANGED << result, ret >>
       \/ res = "ok" /\ Go("drain") /\ UNCHANGED result
          /\ ret' = IF offset < file THEN "feed" ELSE "finish"
       \/ res \notin {"ok", "queue_full"} /\ Finished("failed") /\ UNCHANGED ret
    /\ UNCHANGED << vars, file, offset, chunk, before, tally, late, broken, wanted >>

\* Again while the queue is full; at last drain once more and go on.
Resumed ==
    /\ At("resumed")
    /\ \/ received # before /\ Finished("failed") /\ UNCHANGED ret
       \/ received = before /\ res = "queue_full" /\ Go("drain") /\ ret' = "resume"
          /\ UNCHANGED result
       \/ received = before /\ res = "ok" /\ Go("drain") /\ UNCHANGED result
          /\ ret' = IF offset < file THEN "feed" ELSE "finish"
       \/ received = before /\ res \notin {"ok", "queue_full"} /\ Finished("failed")
          /\ UNCHANGED ret
    /\ UNCHANGED << vars, file, offset, chunk, before, tally, late, broken, wanted >>

Finish ==
    /\ At("finish")
    /\ IF wanted THEN Abandon
       ELSE /\ CallFinish /\ Calling
            /\ Go("ended")
            /\ UNCHANGED << file, offset, chunk, before, ret, tally, result, broken, wanted >>

\* finish() returned; a full queue is resumed and finish() called again.
Ended ==
    /\ At("ended")
    /\ \/ res = "queue_full" /\ Go("drain") /\ ret' = "resume" /\ UNCHANGED result
       \/ res = "ok" /\ Go("drain") /\ ret' = "final" /\ UNCHANGED result
       \/ res \notin {"ok", "queue_full"} /\ Finished("failed") /\ UNCHANGED ret
    /\ UNCHANGED << vars, file, offset, chunk, before, tally, late, broken, wanted >>

\* The stream must have completed; its final text is the answer.
Final ==
    /\ At("final")
    /\ Finished(IF state = "completed" THEN "ok" ELSE "failed")
    /\ UNCHANGED << vars, file, offset, chunk, before, ret, tally, late, broken, wanted >>

\* ~EngineStream cancels a stream that is still open.
Leave ==
    /\ At("leave")
    /\ IF state \in {"created", "running", "finishing"} THEN CallCancel
                                                        ELSE UNCHANGED vars
    /\ Go("done")
    /\ UNCHANGED << file, offset, chunk, before, ret, tally, result, late, broken, wanted >>

Thread ==
    \/ Create \/ NextChunk \/ LastChunk \/ FeedRest \/ ChunkFed \/ Fed
    \/ DrainStep \/ Resume \/ Resumed \/ Finish \/ Ended \/ Final \/ Leave

\* The library takes a step of the running call; a backend failure is recorded.
Library ==
    /\ Runtime
    /\ broken' = (broken \/ outcome' = "error" \/ (pc = "slice" /\ state' = "failed"))
    /\ UNCHANGED << batchVars, wanted >>

\* The I/O thread cancels the request: the client left, or the server stops.
Request ==
    /\ ~wanted /\ at # "done"
    /\ wanted' = TRUE
    /\ UNCHANGED << vars, batchVars, broken >>

BatchNext == Thread \/ Library \/ Request

BatchSpec == BatchInit /\ [][BatchNext]_allVars

\* The worker thread keeps running, inside the library and outside.
BatchFairSpec == BatchSpec /\ WF_allVars(Library) /\ WF_allVars(Thread)

-----------------------------------------------------------------------------
SuccessIsWhole ==
    /\ state = "completed" /\ received = file
    /\ queue = << >> /\ tally = seqno
    /\ received > 0 /\ ~eos => Len(tokens) = LeftPad + file + RightPad - PrefillLen

\* The result is true.  A request that succeeds has fed its file once and whole,
\* decoded every group of it unless the model ended the stream, counted every TOKEN
\* event and left no event behind; it fails only when the backend did, for a full
\* queue never becomes the answer; it is cancelled only when somebody asked
\* (transcribe_batch, resume_after_backpressure, drain_events).
ResultIsTrue ==
    /\ result = "ok" => SuccessIsWhole
    /\ result = "failed" => broken
    /\ result = "cancelled" => wanted

\* After a cancellation at most one more call of the library begins: the one
\* whose check had just passed.
CancelStops == late <= 1

\* Every request ends: each resume of a full queue makes progress, and no loop
\* waits for an event that does not come.
RequestEnds == <>(at = "done")
=============================================================================
