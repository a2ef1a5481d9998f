---------------------- MODULE BatchTranscription_proofs ----------------------
(***************************************************************************)
(* Proofs about a batch request, for every chunk length up to one drain    *)
(* slice, every file and every queue capacity: the answer it returns is    *)
(* true, and a cancellation stops it.                                      *)
(*                                                                         *)
(* Its feeds are no longer than one slice (BatchConstants), so the stream  *)
(* below it satisfies FlowInv without any further assumption.              *)
(***************************************************************************)
EXTENDS BatchTranscription, StreamRuntime_proofs

-----------------------------------------------------------------------------
(* The inductive invariant.                                                *)

\* Where the thread is, or will be when its events are drained.
Here == IF at = "drain" THEN ret ELSE at

Feeding == {"create", "chunk", "feed", "fed", "resume", "resumed", "finish"}

Open == {"created", "running", "failed"}

BatchTypeOK ==
    /\ file \in Files /\ offset \in 0 .. file
    /\ chunk \in Nat /\ before \in Nat /\ tally \in Nat /\ late \in 0 .. 1
    /\ result \in {"none", "ok", "failed", "cancelled"}
    /\ wanted \in BOOLEAN /\ broken \in BOOLEAN
    /\ at = "drain" \/ Here # "drain"
    /\ at = "drain" => ret \in {"fed", "resume", "feed", "finish", "final"}

\* Which call of the library runs.
Running ==
    pc # "idle" =>
        /\ Here = "fed" => /\ after \in {"none", "slice", "resume"}
                           /\ asked = Count - chunk /\ received = before
        /\ Here = "resumed" => after = "resume" /\ asked = 0
        /\ Here = "ended" => after \in {"drain", "tail"}
        /\ Here \in {"fed", "resumed", "ended"}

\* How much of the file the stream has: everything before the chunk, and of the
\* chunk what the feeds before were credited with.
Share == offset < file /\ chunk <= Count /\ received = offset + chunk

Whole == offset = file /\ received = file

Account ==
    /\ Here \in {"create", "chunk"} => received = offset
    /\ Here = "feed" => Share
    /\ Here \in {"resume", "resumed"} => Share \/ Whole
    /\ Here = "resumed" => before = received
    /\ Here \in {"finish", "ended", "final"} => Whole
    /\ Here = "fed" =>
          /\ offset < file /\ chunk < Count /\ before = offset + chunk
          /\ received \in {before, before + (Count - chunk)}
          /\ pc = "idle" /\ res = "ok" => received = before + (Count - chunk)

\* What the last call answered, and what it says of the stream.
Answer ==
    /\ Here \in Feeding => state \in Open
    /\ Here \in {"fed", "resumed", "ended"} /\ pc = "idle" =>
          /\ res \notin {"ok", "queue_full"} => state = "failed"
          /\ Here = "ended" /\ res = "ok" => state = "completed"
          /\ Here = "ended" /\ res = "queue_full" => state \in Open
    /\ Here = "final" => state = "completed"
    /\ at = "final" => queue = <<>>

\* A stream fails only with its backend.
Blame == state = "failed" \/ outcome = "error" => broken

\* Every TOKEN event the client read was counted.
Tallied ==
    /\ \A i \in DOMAIN delivered : delivered[i].type = "token" => delivered[i].n <= tally
    /\ \A k \in 1 .. tally : \E i \in DOMAIN delivered : delivered[i] = Event("token", k)

\* A request has a result when its thread is leaving, and not before.
Unanswered ==
    /\ at \notin {"leave", "done"} => result = "none"
    /\ at \in {"leave", "done"} => pc = "idle"

\* A call begun after the cancellation is the last one.
Latest == late = 1 => wanted /\ at \in {"drain", "resumed", "leave", "done"}

ThreadInv ==
    /\ BatchTypeOK /\ Running /\ Account /\ Answer /\ Blame /\ Tallied
    /\ Unanswered /\ Latest /\ ResultIsTrue

BatchInv == FlowInv /\ Ordered /\ Closed /\ ThreadInv
-----------------------------------------------------------------------------
(* The stream below the request.                                           *)

\* A chunk lies within the file and within a drain slice.
LEMMA CountProperty ==
    ASSUME BatchTypeOK, offset < file
    PROVE  /\ Count \in Nat /\ Count > 0 /\ Count <= SliceGroups
           /\ offset + Count <= file /\ file <= MaxAudio
  <1> DEFINE S == {ChunkGroups, file - offset}
  <1>0. file \in Nat /\ file <= MaxAudio /\ offset \in Nat
    BY BatchConstants, StreamConstants DEF BatchTypeOK
  <1>1. S \subseteq Nat /\ S # {}
    BY <1>0, BatchConstants
  <1>2. Min(S) \in S /\ \A y \in S : Min(S) =< y
    BY <1>1, MinProperty
  <1>3. Min(S) =< ChunkGroups /\ Min(S) =< file - offset /\ Min(S) \in {ChunkGroups, file - offset}
    BY <1>2
  <1>4. Count = Min(S)
    BY DEF Count
  <1> HIDE DEF S
  <1> QED  BY <1>0, <1>3, <1>4, BatchConstants, StreamConstants

\* A step of the request is a step of its stream, or none.
StreamStep ==
    \/ UNCHANGED vars \/ Runtime \/ CallFinish \/ CallCancel \/ Poll
    \/ \E n \in 0 .. SliceGroups : CallFeed(n)

LEMMA RequestSteps ==
    ASSUME ThreadInv, [BatchNext]_allVars
    PROVE  StreamStep
  <1>1. CASE UNCHANGED allVars \/ Library \/ Request
    BY <1>1 DEF allVars, Library, Request, StreamStep
  <1>2. CASE Create \/ LastChunk \/ ChunkFed \/ Fed \/ Resumed \/ Ended \/ Final
    BY <1>2 DEF Create, LastChunk, ChunkFed, Fed, Resumed, Ended, Final, StreamStep
  <1>3. CASE NextChunk \/ DrainStep \/ Finish \/ Leave
    BY <1>3 DEF NextChunk, DrainStep, Finish, Leave, Abandon, StreamStep
  <1>4. CASE Resume
    <2>1. 0 \in 0 .. SliceGroups
      BY StreamConstants
    <2> QED  BY <1>4, <2>1 DEF Resume, StreamStep
  <1>5. CASE FeedRest
    <2>1. Share /\ BatchTypeOK
      BY <1>5 DEF FeedRest, At, ThreadInv, Account, Here
    <2>2. Count - chunk \in 0 .. SliceGroups
      BY <2>1, CountProperty, StreamConstants DEF Share, BatchTypeOK
    <2> QED  BY <1>5, <2>2 DEF FeedRest, StreamStep
  <1> QED  BY <1>1, <1>2, <1>3, <1>4, <1>5 DEF BatchNext, Thread

LEMMA StreamKept ==
    ASSUME FlowInv, Ordered, Closed, StreamStep
    PROVE  FlowInv' /\ Ordered' /\ Closed'
  <1>1. CASE UNCHANGED vars
    BY <1>1, StutterFlow, OrderKept, ClosedKept
       DEF vars, eventVars, decodeVars, clientVars
  <1>2. CASE Runtime
    BY <1>2, RuntimeFlow, RuntimeOrder, RuntimeClosed DEF FlowInv
  <1>3. CASE CallFinish
    BY <1>3, CallFinishFlow, CallFinishOrder, CallFinishClosed DEF FlowInv
  <1>4. CASE CallCancel
    BY <1>4, CallCancelFlow, CallCancelOrder, CallCancelClosed DEF FlowInv
  <1>5. CASE Poll
    BY <1>5, PollFlow, PollOrder, PollClosed DEF FlowInv
  <1>6. ASSUME NEW n \in 0 .. SliceGroups, CallFeed(n)
        PROVE  FlowInv' /\ Ordered' /\ Closed'
    <2>1. n \in Nat /\ n <= SliceGroups
      BY StreamConstants
    <2> QED  BY <1>6, <2>1, CallFeedFlow, CallFeedOrder, CallFeedClosed
  <1> QED  BY <1>1, <1>2, <1>3, <1>4, <1>5, <1>6 DEF StreamStep
-----------------------------------------------------------------------------
(* What a call of the library does, from where the thread stands.          *)

\* The client's view of the stream did not change.
Quiet == UNCHANGED <<received, state>>

\* A running feed goes on, or returns with all or none of its audio.
FeedGoesOn ==
    /\ after' \in {"none", "slice", "resume"} /\ pc' # "idle"
    /\ asked' = asked /\ Quiet
    /\ after = "resume" /\ asked = 0 => after' = "resume"

FeedEnds ==
    /\ pc' = "idle" /\ received' \in {received, received + asked}
    /\ \/ res' = "ok" /\ received' = received + asked /\ state' \in {"created", "running"}
       \/ res' = "queue_full" /\ state' \in {"created", "running"}
       \/ res' = "error" /\ state' = "failed"

LEMMA FeedProgress ==
    ASSUME IInv, Runtime, after \in {"none", "slice", "resume"},
           received + asked <= MaxAudio
    PROVE  FeedGoesOn \/ FeedEnds
  <1> USE DEF FeedGoesOn, FeedEnds, Quiet, IInv, FeedAllowed
  <1>0. /\ received \in Nat /\ asked \in Nat /\ asked + received \in Nat
        /\ after \in {"slice", "resume"} => state \in {"created", "running"}
        /\ pc = "slice" => state \in {"created", "running"}
        /\ todo \in Nat
    BY DEF TypeOK, Phase
  <1>1. CASE FeedResumed /\ outcome = "ok"
    <2>1. AcceptFeed(asked) /\ UNCHANGED <<state, received>> /\ state \in {"created", "running"}
      BY <1>0, <1>1 DEF FeedResumed, audioVars
    <2>2. CASE asked = 0
      BY <1>0, <2>1, <2>2 DEF AcceptFeed, Return
    <2>3. CASE asked > 0
      <3>1. pc' = "slice" /\ asked' = asked /\ after' = "none"
        BY <1>0, <2>1, <2>3, StreamConstants DEF AcceptFeed
      <3> QED  BY <2>1, <2>3, <3>1
    <2> QED  BY <1>0, <2>2, <2>3
  <1>2. CASE FeedResumed /\ outcome # "ok"
    BY <1>0, <1>2 DEF FeedResumed, Return, FailStream, audioVars
  <1>3. CASE FeedSlice
    BY <1>0, <1>3 DEF FeedSlice, Phase
  <1>4. CASE FeedSliceFails
    BY <1>0, <1>4 DEF FeedSliceFails, FailStream, Return
  <1>5. CASE FeedPumped
    BY <1>0, <1>5 DEF FeedPumped, FailStream, Return, audioVars
  <1>6. CASE FeedReturns
    BY <1>0, <1>6 DEF FeedReturns, Return
  <1>7. CASE Pump
    BY <1>0, <1>7 DEF Pump, PumpCommit, PumpFlush, PumpStep, PumpReturns, PumpFails, Phase,
                      Stash, audioVars, callVars
  <1>8. CASE FinishDrained \/ FinishReturns
    BY <1>8 DEF FinishDrained, FinishReturns
  <1> QED  BY <1>1, <1>2, <1>3, <1>4, <1>5, <1>6, <1>7, <1>8 DEF Runtime

\* A running finish() goes on, or returns: the stream completed, or is open
\* still, or failed.
FinishGoesOn == pc' # "idle" /\ after' \in {"drain", "tail"}

FinishEnds ==
    /\ pc' = "idle"
    /\ \/ res' = "ok" /\ state' = "completed"
       \/ res' = "queue_full" /\ state' \in {"created", "running"}
       \/ res' = "error" /\ state' = "failed"

LEMMA EnterProgress ==
    ASSUME EnterFinishing
    PROVE  (FinishGoesOn \/ FinishEnds) /\ received' = received
  BY DEF EnterFinishing, FinishGoesOn, FinishEnds, RunPump, Return

LEMMA FinishProgress ==
    ASSUME IInv, Runtime, after \in {"drain", "tail"}
    PROVE  (FinishGoesOn \/ FinishEnds) /\ received' = received
  <1> USE DEF IInv, FeedAllowed
  <1>0. pc \notin {"idle", "slice"} /\ (after = "drain" => state \in {"created", "running"})
    BY DEF Phase
  <1>1. CASE FinishDrained /\ outcome = "ok"
    BY <1>1, EnterProgress DEF FinishDrained
  <1>2. CASE FinishDrained /\ outcome # "ok"
    BY <1>0, <1>2 DEF FinishDrained, FinishEnds, FailStream, Return, audioVars
  <1>3. CASE FinishReturns
    BY <1>3 DEF FinishReturns, FinishEnds, FailStream, Return, audioVars
  <1>4. CASE Pump
    BY <1>0, <1>4 DEF Pump, PumpCommit, PumpFlush, PumpStep, PumpReturns, PumpFails,
                      FinishGoesOn, Stash, audioVars, callVars
  <1>5. CASE FeedResumed \/ FeedSlice \/ FeedSliceFails \/ FeedPumped \/ FeedReturns
    BY <1>0, <1>5 DEF FeedResumed, FeedSlice, FeedSliceFails, SliceLost, FeedPumped, FeedReturns
  <1> QED  BY <1>1, <1>2, <1>3, <1>4, <1>5 DEF Runtime

\* A stream fails only when the backend does: the tail of finish() never meets
\* a full queue.
LEMMA LibraryBlame ==
    ASSUME FlowInv, Library, Blame
    PROVE  Blame'
  <1> USE DEF Blame
  <1>0. broken' = (broken \/ outcome' = "error" \/ (pc = "slice" /\ state' = "failed"))
    BY DEF Library
  <1>1. CASE FeedResumed \/ FeedPumped
    <2>1. outcome = "error" \/ state' = state
      BY <1>1 DEF FeedResumed, FeedPumped
    <2> QED  BY <1>0, <2>1
  <1>2. CASE FeedSlice \/ FeedReturns \/ Pump
    <2>1. state' = state \/ state' = "running"
      BY <1>2 DEF FeedSlice, FeedReturns, Pump, PumpCommit, PumpFlush, PumpStep, PumpReturns,
                  PumpFails
    <2> QED  BY <1>0, <2>1
  <1>3. CASE FeedSliceFails
    BY <1>0, <1>3 DEF FeedSliceFails, SliceLost
  <1>4. CASE FinishDrained
    <2>1. outcome = "error" \/ state' # "failed" \/ state' = state
      BY <1>4 DEF FinishDrained, EnterFinishing
    <2> QED  BY <1>0, <2>1
  <1>5. CASE FinishReturns
    <2>1. outcome \in {"ok", "error"}
      BY <1>5 DEF FinishReturns, FlowInv, CountInv, TailRoom, IInv, Phase, TypeOK
    <2>2. outcome = "error" \/ state' = "completed"
      BY <1>5, <2>1 DEF FinishReturns
    <2> QED  BY <1>0, <2>2
  <1> QED  BY <1>1, <1>2, <1>3, <1>4, <1>5 DEF Library, Runtime
-----------------------------------------------------------------------------
(* Steps inside the library, and calls that begin.                         *)

LEMMA RunningCall ==
    ASSUME Runtime
    PROVE  pc # "idle" /\ delivered' = delivered
  BY DEF Runtime, Pump, FeedResumed, FeedSlice, FeedSliceFails, SliceLost, FeedPumped,
         FeedReturns, PumpCommit, PumpFlush, PumpStep, PumpReturns, PumpFails, FinishDrained,
         FinishReturns, clientVars

LEMMA TalliedKept ==
    ASSUME Tallied, UNCHANGED <<delivered, tally>>
    PROVE  Tallied'
  BY DEF Tallied

\* The library takes a step.
LEMMA LibraryStep ==
    ASSUME FlowInv, ThreadInv, Library
    PROVE  ThreadInv'
  <1> USE DEF ThreadInv
  <1>1. /\ Runtime /\ pc # "idle" /\ delivered' = delivered /\ IInv
        /\ UNCHANGED <<file, offset, chunk, before, at, ret, tally, result, late, wanted>>
        /\ Here' = Here /\ Count' = Count
    BY RunningCall DEF Library, batchVars, FlowInv, Here, Count
  <1>2. Here \in {"fed", "resumed", "ended"} /\ at \in {"drain", "fed", "resumed", "ended"}
    BY <1>1 DEF Running, Here
  <1>3. Blame' /\ Tallied' /\ Latest'
    BY <1>1, LibraryBlame, TalliedKept DEF Latest
  <1>4. BatchTypeOK' /\ Unanswered' /\ ResultIsTrue'
    <2>1. broken' \in BOOLEAN
      BY DEF Library
    <2>2. BatchTypeOK'
      BY <1>1, <2>1 DEF BatchTypeOK
    <2>3. result' = "none" /\ at' \notin {"leave", "done"}
      BY <1>1, <1>2 DEF Unanswered
    <2> QED  BY <2>2, <2>3 DEF Unanswered, ResultIsTrue
  <1>5. Running' /\ Account' /\ Answer'
    <2>1. CASE Here = "fed"
      <3>1. /\ offset < file /\ chunk < Count /\ before = offset + chunk /\ received = before
            /\ asked = Count - chunk /\ after \in {"none", "slice", "resume"}
        BY <1>1, <2>1 DEF Running, Account
      <3>2. /\ received + asked <= MaxAudio /\ asked > 0 /\ received \in Nat /\ Count \in Nat
            /\ chunk \in Nat
        BY <3>1, CountProperty, BatchConstants, StreamConstants DEF BatchTypeOK
      <3>3. FeedGoesOn \/ FeedEnds
        BY <1>1, <3>1, <3>2, FeedProgress
      <3>4. CASE FeedGoesOn
        <4>1. Running' /\ Answer'
          BY <1>1, <1>2, <2>1, <3>1, <3>4 DEF FeedGoesOn, Quiet, Running, Answer, Feeding
        <4>2. Account'
          BY <1>1, <2>1, <3>1, <3>4 DEF FeedGoesOn, Quiet, Account
        <4> QED  BY <4>1, <4>2
      <3>5. CASE FeedEnds
        <4>1. Running' /\ Answer'
          BY <1>1, <1>2, <2>1, <3>5 DEF FeedEnds, Running, Answer, Feeding, Open
        <4>2. Account'
          BY <1>1, <2>1, <3>1, <3>2, <3>5 DEF FeedEnds, Account
        <4> QED  BY <4>1, <4>2
      <3> QED  BY <3>3, <3>4, <3>5
    <2>2. CASE Here = "resumed"
      <3>1. after = "resume" /\ asked = 0 /\ received \in Nat /\ (Share \/ Whole) /\ before = received
        BY <1>1, <2>2 DEF Running, Account, IInv, TypeOK
      <3>2. received <= MaxAudio
        <4>1. CASE Share
          BY <3>1, <4>1, CountProperty, BatchConstants, StreamConstants DEF Share, BatchTypeOK
        <4>2. CASE Whole
          BY <4>2, BatchConstants, StreamConstants DEF Whole, BatchTypeOK
        <4> QED  BY <3>1, <4>1, <4>2
      <3>3. FeedGoesOn \/ FeedEnds
        BY <1>1, <3>1, <3>2, FeedProgress
      <3>4. received' = received
        BY <3>1, <3>3 DEF FeedGoesOn, FeedEnds, Quiet
      <3>5. (Share \/ Whole)'
        BY <1>1, <3>1, <3>4 DEF Share, Whole
      <3>6. CASE FeedGoesOn
        <4>1. Running' /\ Answer'
          BY <1>1, <1>2, <2>2, <3>1, <3>6 DEF FeedGoesOn, Quiet, Running, Answer, Feeding
        <4>2. Account'
          BY <1>1, <2>2, <3>1, <3>4, <3>5 DEF Account
        <4> QED  BY <4>1, <4>2
      <3>7. CASE FeedEnds
        <4>1. Running' /\ Answer'
          BY <1>1, <1>2, <2>2, <3>7 DEF FeedEnds, Running, Answer, Feeding, Open
        <4>2. Account'
          BY <1>1, <2>2, <3>1, <3>4, <3>5 DEF Account
        <4> QED  BY <4>1, <4>2
      <3> QED  BY <3>3, <3>6, <3>7
    <2>3. CASE Here = "ended"
      <3>1. after \in {"drain", "tail"} /\ Whole /\ at = "ended"
        BY <1>1, <2>3 DEF Running, Account, Here, BatchTypeOK
      <3>2. (FinishGoesOn \/ FinishEnds) /\ received' = received
        BY <1>1, <3>1, FinishProgress
      <3>3. Account'
        BY <1>1, <2>3, <3>1, <3>2 DEF Account, Whole
      <3>4. Running' /\ Answer'
        BY <1>1, <2>3, <3>1, <3>2
           DEF FinishGoesOn, FinishEnds, Running, Answer, Feeding, Open
      <3> QED  BY <3>3, <3>4
    <2> QED  BY <1>2, <2>1, <2>2, <2>3
  <1> QED  BY <1>3, <1>4, <1>5

\* A feed begins.
LEMMA FeedBegins ==
    ASSUME FlowInv, NEW n \in Nat, CallFeed(n), state \in Open, received + n <= MaxAudio
    PROVE  /\ outcome' = "ok" /\ UNCHANGED <<state, received, queue, delivered, seqno>>
           /\ \/ pc' # "idle" /\ asked' = n /\ after' \in {"none", "resume"}
                 /\ (n = 0 => after' = "resume")
              \/ pc' = "idle" /\ n = 0 /\ res' = "ok"
              \/ pc' = "idle" /\ res' = "invalid_state" /\ state = "failed"
  <1>1. pc = "idle" /\ outcome = "ok" /\ received \in Nat
    BY DEF CallFeed, FlowInv, CountInv, OneSlice, IInv, TypeOK
  <1>2. UNCHANGED <<state, received, queue, delivered, seqno>>
    BY DEF CallFeed, audioVars, clientVars, decodeVars
  <1>3. CASE ~FeedAllowed
    BY <1>1, <1>2, <1>3 DEF CallFeed, Return, FeedAllowed, Open
  <1>4. CASE FeedAllowed /\ backpressured
    BY <1>1, <1>2, <1>4 DEF CallFeed, RunPump
  <1>5. CASE FeedAllowed /\ ~backpressured
    BY <1>1, <1>2, <1>5, StreamConstants DEF CallFeed, AcceptFeed, Return
  <1> QED  BY <1>3, <1>4, <1>5

\* A finish() begins.
LEMMA FinishBegins ==
    ASSUME FlowInv, CallFinish, state \in Open
    PROVE  /\ outcome' = "ok" /\ UNCHANGED <<received, delivered>>
           /\ \/ FinishGoesOn /\ state' # "failed"
              \/ pc' = "idle" /\ res' = "ok" /\ state' = "completed"
              \/ pc' = "idle" /\ res' = "invalid_state" /\ state = "failed" /\ state' = "failed"
  <1>1. pc = "idle" /\ outcome = "ok"
    BY DEF CallFinish, FlowInv, CountInv, OneSlice
  <1>2. CASE state = "failed"
    BY <1>1, <1>2 DEF CallFinish, Return, FeedAllowed, audioVars, clientVars
  <1>3. CASE FeedAllowed /\ backpressured
    BY <1>1, <1>3 DEF CallFinish, RunPump, FeedAllowed, FinishGoesOn, audioVars, clientVars
  <1>4. CASE FeedAllowed /\ ~backpressured
    BY <1>1, <1>4 DEF CallFinish, EnterFinishing, Return, RunPump, FinishGoesOn, FeedAllowed, clientVars
  <1> QED  BY <1>2, <1>3, <1>4 DEF Open, FeedAllowed

\* A cancel() begins and ends.
LEMMA CancelDoes ==
    ASSUME FlowInv, CallCancel
    PROVE  /\ pc' = "idle" /\ outcome' = "ok" /\ UNCHANGED delivered
           /\ state' = "failed" => state = "failed"
  BY DEF CallCancel, Return, clientVars
-----------------------------------------------------------------------------
(* The count of TOKEN events.                                              *)

\* The log is what the client read, then the queue.
LEMMA LogParts ==
    ASSUME IInv
    PROVE  /\ delivered \in Seq(Events) /\ queue \in Seq(Events) /\ Log \in Seq(Events)
           /\ Len(delivered) \in Nat /\ Len(queue) \in Nat
           /\ Len(Log) = Len(delivered) + Len(queue)
           /\ DOMAIN delivered = 1 .. Len(delivered) /\ DOMAIN Log = 1 .. Len(Log)
           /\ \A i \in DOMAIN delivered : i \in DOMAIN Log /\ Log[i] = delivered[i]
           /\ queue # <<>> => /\ Len(delivered) + 1 \in DOMAIN Log
                              /\ Log[Len(delivered) + 1] = Head(queue) /\ Head(queue) \in Events
           /\ queue = <<>> => Len(queue) = 0
  <1>1. delivered \in Seq(Events) /\ queue \in Seq(Events)
    BY DEF IInv, TypeOK
  <1>2. Len(delivered) \in Nat /\ Len(queue) \in Nat
    BY <1>1, LenProperties
  <1>3. /\ Log \in Seq(Events) /\ Len(Log) = Len(delivered) + Len(queue)
        /\ \A i \in 1 .. Len(delivered) + Len(queue) :
               Log[i] = IF i <= Len(delivered) THEN delivered[i] ELSE queue[i - Len(delivered)]
    BY <1>1, ConcatProperties DEF Log
  <1>4. DOMAIN delivered = 1 .. Len(delivered) /\ DOMAIN Log = 1 .. Len(Log)
    BY <1>1, <1>3, LenProperties
  <1>5. ASSUME NEW i \in DOMAIN delivered
        PROVE  i \in DOMAIN Log /\ Log[i] = delivered[i]
    <2>1. i \in 1 .. Len(delivered) + Len(queue) /\ i <= Len(delivered)
      BY <1>2, <1>4
    <2> QED  BY <1>3, <1>4, <2>1
  <1>6. ASSUME queue # <<>>
        PROVE  /\ Len(delivered) + 1 \in DOMAIN Log
               /\ Log[Len(delivered) + 1] = Head(queue) /\ Head(queue) \in Events
    <2>1. Head(queue) \in Events /\ Head(queue) = queue[1] /\ Len(queue) > 0
      BY <1>1, <1>6, HeadTailProperties, EmptySeq
    <2>2. /\ Len(delivered) + 1 \in 1 .. Len(delivered) + Len(queue)
          /\ ~(Len(delivered) + 1 <= Len(delivered)) /\ Len(delivered) + 1 - Len(delivered) = 1
      BY <1>2, <2>1
    <2> QED  BY <1>3, <1>4, <2>1, <2>2
  <1>7. queue = <<>> => Len(queue) = 0
    OBVIOUS
  <1> QED  BY <1>1, <1>2, <1>3, <1>4, <1>5, <1>6, <1>7

\* The next TOKEN the client reads is the next number.
LEMMA NextToken ==
    ASSUME IInv, Ordered, Tallied, tally \in Nat, queue # <<>>, Head(queue).type = "token"
    PROVE  Head(queue) = Event("token", tally + 1)
  <1> DEFINE h == Head(queue)
             m == Len(delivered)
  <1>1. /\ m \in Nat /\ m + 1 \in DOMAIN Log /\ Log[m + 1] = h /\ h \in Events
        /\ DOMAIN delivered = 1 .. m /\ DOMAIN Log \subseteq Nat
        /\ \A i \in DOMAIN delivered : i \in DOMAIN Log /\ Log[i] = delivered[i]
    BY LogParts
  <1>2. /\ \A k \in 1 .. seqno : \E i \in DOMAIN Log : Log[i] = Event("token", k)
        /\ h.n \in 1 .. seqno /\ seqno \in Nat
        /\ \A i, j \in DOMAIN Log : i < j /\ Log[i].type = "token" /\ Log[j].type = "token"
               => Log[i].n < Log[j].n
    BY <1>1 DEF Ordered, InOrder, Increasing, IInv, TypeOK
  <1>3. \A k \in Nat : Event("token", k).type = "token" /\ Event("token", k).n = k
    BY DEF Event
  <1>4. h = Event("token", h.n) /\ h.n \in Nat
    BY <1>1 DEF Event, Events
  <1> HIDE DEF h, m
  <1>5. h.type = "token"
    BY DEF h
  <1>6. tally < h.n
    <2>1. CASE tally = 0
      BY <1>2, <2>1
    <2>2. CASE tally # 0
      <3>1. PICK i \in DOMAIN delivered : delivered[i] = Event("token", tally)
        BY <2>2 DEF Tallied
      <3>2. i \in DOMAIN Log /\ Log[i] = Event("token", tally) /\ i < m + 1
        BY <1>1, <3>1
      <3>3. Log[i].type = "token" /\ Log[i].n = tally /\ Log[m + 1].type = "token"
        BY <1>1, <1>3, <1>5, <3>2
      <3>4. Log[i].n < Log[m + 1].n
        BY <1>1, <1>2, <3>2, <3>3
      <3> QED  BY <1>1, <3>3, <3>4
    <2> QED  BY <2>1, <2>2
  <1>7. tally + 1 \in 1 .. seqno
    BY <1>2, <1>6
  <1>8. PICK j \in DOMAIN Log : Log[j] = Event("token", tally + 1)
    BY <1>2, <1>7
  <1>9. Log[j].type = "token" /\ Log[j].n = tally + 1 /\ j \in Nat
    BY <1>1, <1>3, <1>8
  <1>10. ~(j < m + 1)
    <2> SUFFICES ASSUME j \in DOMAIN delivered
                 PROVE  FALSE
      BY <1>1, <1>9, LogParts
    <2>1. delivered[j].type = "token" /\ delivered[j].n = tally + 1
      BY <1>1, <1>9
    <2> QED  BY <2>1 DEF Tallied
  <1>11. ~(m + 1 < j)
    BY <1>1, <1>2, <1>4, <1>5, <1>6, <1>9
  <1>12. j = m + 1
    BY <1>1, <1>9, <1>10, <1>11
  <1> QED  BY <1>1, <1>8, <1>12 DEF h

LEMMA TalliedPoll ==
    ASSUME IInv, Ordered, Tallied, tally \in Nat, Poll,
           tally' = tally + (IF Head(queue).type = "token" THEN 1 ELSE 0)
    PROVE  Tallied'
  <1> DEFINE h == Head(queue)
             m == Len(delivered)
  <1>1. /\ queue # <<>> /\ delivered' = Append(delivered, h) /\ delivered \in Seq(Events)
        /\ h \in Events
    BY LogParts DEF Poll
  <1>2. /\ m \in Nat /\ DOMAIN delivered = 1 .. m /\ DOMAIN delivered' = 1 .. m + 1
        /\ delivered'[m + 1] = h /\ \A i \in 1 .. m : delivered'[i] = delivered[i]
    BY <1>1, Appended
  <1>3. h.type = "token" => h = Event("token", tally + 1) /\ h.n = tally + 1
    BY <1>1, NextToken DEF Event
  <1>4. tally' = IF h.type = "token" THEN tally + 1 ELSE tally
    OBVIOUS
  <1>5. \A i \in 1 .. m : delivered[i] \in Events /\ delivered[i].n \in Nat
    <2>1. \A i \in 1 .. m : delivered[i] \in Events
      BY <1>1, <1>2, ElementOfSeq
    <2> QED  BY <2>1 DEF Events
  <1> HIDE DEF h, m
  <1>6. ASSUME NEW i \in DOMAIN delivered', delivered'[i].type = "token"
        PROVE  delivered'[i].n <= tally'
    <2>1. CASE i = m + 1
      BY <1>2, <1>3, <1>4, <1>6, <2>1
    <2>2. CASE i # m + 1
      <3>1. i \in 1 .. m
        BY <1>2, <2>2
      <3>2. delivered[i].n <= tally /\ delivered'[i].n = delivered[i].n /\ delivered[i].n \in Nat
        BY <1>2, <1>5, <1>6, <3>1 DEF Tallied
      <3> QED  BY <1>4, <3>2
    <2> QED  BY <2>1, <2>2
  <1>7. ASSUME NEW k \in 1 .. tally'
        PROVE  \E i \in DOMAIN delivered' : delivered'[i] = Event("token", k)
    <2>1. CASE k \in 1 .. tally
      <3>1. PICK i \in DOMAIN delivered : delivered[i] = Event("token", k)
        BY <2>1 DEF Tallied
      <3> QED  BY <1>2, <3>1
    <2>2. CASE k \notin 1 .. tally
      <3>1. k = tally + 1 /\ h.type = "token"
        BY <1>4, <2>2
      <3> QED  BY <1>2, <1>3, <3>1
    <2> QED  BY <2>1, <2>2
  <1> QED  BY <1>6, <1>7 DEF Tallied

\* When the queue is empty every TOKEN was read, and counted.
LEMMA AllCounted ==
    ASSUME IInv, Ordered, Tallied, tally \in Nat, queue = <<>>
    PROVE  tally = seqno
  <1>1. /\ DOMAIN Log = DOMAIN delivered /\ \A i \in DOMAIN delivered : Log[i] = delivered[i]
    BY LogParts
  <1>2. /\ \A k \in 1 .. seqno : \E i \in DOMAIN Log : Log[i] = Event("token", k)
        /\ \A i \in DOMAIN Log : Log[i].type = "token" => Log[i].n \in 1 .. seqno
        /\ seqno \in Nat
    BY DEF Ordered, InOrder, IInv, TypeOK
  <1>3. \A k \in Nat : Event("token", k).type = "token" /\ Event("token", k).n = k
    BY DEF Event
  <1>4. ~(tally < seqno)
    <2> SUFFICES ASSUME tally < seqno
                 PROVE  FALSE
      OBVIOUS
    <2>1. PICK i \in DOMAIN Log : Log[i] = Event("token", seqno)
      BY <1>2
    <2>2. delivered[i].type = "token" /\ delivered[i].n = seqno
      BY <1>1, <1>2, <1>3, <2>1
    <2> QED  BY <1>1, <1>2, <2>2 DEF Tallied
  <1>5. ~(seqno < tally)
    <2> SUFFICES ASSUME seqno < tally
                 PROVE  FALSE
      OBVIOUS
    <2>1. PICK i \in DOMAIN delivered : delivered[i] = Event("token", tally)
      BY <1>2 DEF Tallied
    <2>2. Log[i].type = "token" /\ Log[i].n = tally
      BY <1>1, <1>3, <2>1
    <2> QED  BY <1>1, <1>2, <2>2
  <1> QED  BY <1>2, <1>4, <1>5

\* An ERROR event is read from a failed stream only.
LEMMA ErrorRead ==
    ASSUME IInv, Closed, queue # <<>>, Head(queue).type = "error"
    PROVE  state = "failed"
  <1>1. PICK i \in DOMAIN Log : Log[i].type = "error"
    BY LogParts
  <1>2. i = Len(Log)
    BY <1>1 DEF Closed, TerminalDelivered, Terminal
  <1> QED  BY <1>1, <1>2 DEF Closed, TerminalDelivered
-----------------------------------------------------------------------------
(* The steps of the thread.                                                *)

\* The thread leaves with an answer.
LEMMA Leaving ==
    ASSUME ThreadInv, NEW r \in {"ok", "failed", "cancelled"}, Finished(r), pc' = "idle",
           UNCHANGED <<file, offset, before, late, wanted>>,
           chunk' \in Nat, tally' \in Nat, broken' \in BOOLEAN, Tallied', Blame', ResultIsTrue'
    PROVE  ThreadInv'
  <1> USE DEF ThreadInv
  <1>1. at' = "leave" /\ Here' = "leave" /\ result' = r
    BY DEF Finished, Here
  <1>2. BatchTypeOK'
    BY <1>1 DEF BatchTypeOK
  <1>3. Running' /\ Account' /\ Answer' /\ Unanswered'
    BY <1>1 DEF Running, Account, Answer, Unanswered, Feeding
  <1>4. Latest'
    BY <1>1 DEF Latest
  <1> QED  BY <1>2, <1>3, <1>4

\* A cancelled request cancels its stream.
LEMMA AbandonStep ==
    ASSUME FlowInv, ThreadInv, wanted, Abandon
    PROVE  ThreadInv'
  <1>1. /\ pc' = "idle" /\ outcome' = "ok" /\ UNCHANGED <<delivered, broken, tally>>
        /\ state' = "failed" => state = "failed"
    BY CancelDoes DEF Abandon
  <1>2. Tallied' /\ Blame'
    BY <1>1 DEF ThreadInv, Tallied, Blame
  <1>3. ResultIsTrue' /\ chunk' \in Nat /\ tally' \in Nat /\ broken' \in BOOLEAN
    BY DEF Abandon, Finished, ResultIsTrue, ThreadInv, BatchTypeOK
  <1>4. Finished("cancelled") /\ UNCHANGED <<file, offset, before, late, wanted>>
    BY DEF Abandon
  <1> QED  BY <1>1, <1>2, <1>3, <1>4, Leaving

\* The thread answers that the request failed.
LEMMA FailedStep ==
    ASSUME ThreadInv, Finished("failed"), broken, pc = "idle",
           UNCHANGED <<vars, file, offset, before, tally, late, wanted, broken>>, chunk' \in Nat
    PROVE  ThreadInv'
  <1>1. /\ UNCHANGED <<state, queue, delivered, outcome, pc>>
    BY DEF vars, eventVars, callVars, clientVars
  <1>2. Tallied' /\ Blame'
    BY <1>1 DEF ThreadInv, Tallied, Blame
  <1>3. ResultIsTrue' /\ tally' \in Nat /\ broken' \in BOOLEAN
    BY DEF Finished, ResultIsTrue, ThreadInv, BatchTypeOK
  <1> QED  BY <1>1, <1>2, <1>3, Leaving

\* The thread moves on between two calls.
LEMMA MovingStep ==
    ASSUME ThreadInv, at \notin {"leave", "done"}, at' \notin {"leave", "done"}, pc = "idle",
           UNCHANGED <<vars, file, before, tally, result, late, broken, wanted>>,
           late = 1 => at' \in {"drain", "resumed"},
           BatchTypeOK', Account', Answer'
    PROVE  ThreadInv'
  <1>1. UNCHANGED <<state, queue, delivered, outcome, pc>>
    BY DEF vars, eventVars, callVars, clientVars
  <1>2. Tallied' /\ Blame' /\ Running'
    BY <1>1 DEF ThreadInv, Tallied, Blame, Running
  <1>3. ResultIsTrue' /\ Unanswered' /\ Latest'
    BY <1>1 DEF ThreadInv, ResultIsTrue, Unanswered, Latest
  <1> QED  BY <1>2, <1>3 DEF ThreadInv

LEMMA CreateStep ==
    ASSUME ThreadInv, Create
    PROVE  ThreadInv'
  <1>0. /\ pc = "idle" /\ at = "create" /\ Here = "create" /\ late # 1 /\ late' = late
        /\ UNCHANGED <<state, queue, delivered, outcome, pc, received, res, file, offset, chunk,
                       before, ret, tally, wanted>>
        /\ received = offset /\ state \in Open /\ BatchTypeOK /\ UNCHANGED vars
    BY DEF Create, At, ThreadInv, Latest, Here, Account, Answer, Feeding,
           vars, eventVars, audioVars, callVars, clientVars
  <1>1. CASE Go("chunk") /\ UNCHANGED <<result, broken>>
    <2>1. at' = "chunk" /\ Here' = "chunk"
      BY <1>1 DEF Go, Here
    <2>2. BatchTypeOK' /\ Account' /\ Answer'
      BY <1>0, <1>1, <2>1 DEF BatchTypeOK, Account, Answer, Feeding
    <2> QED  BY <1>0, <1>1, <2>1, <2>2, MovingStep
  <1>2. CASE Finished("failed") /\ broken' = TRUE
    <2>1. Tallied' /\ Blame' /\ ResultIsTrue'
      BY <1>0, <1>2 DEF ThreadInv, Tallied, Blame, ResultIsTrue, Finished
    <2> QED  BY <1>0, <1>2, <2>1, Leaving DEF BatchTypeOK
  <1> QED  BY <1>1, <1>2 DEF Create

LEMMA ChunkStep ==
    ASSUME FlowInv, ThreadInv, NextChunk \/ LastChunk
    PROVE  ThreadInv'
  <1>0. /\ pc = "idle" /\ at = "chunk" /\ Here = "chunk" /\ late # 1
        /\ received = offset /\ state \in Open /\ BatchTypeOK
    BY DEF NextChunk, LastChunk, At, ThreadInv, Latest, Here, Account, Answer, Feeding
  <1>1. CASE NextChunk /\ wanted
    BY <1>1, AbandonStep DEF NextChunk
  <1>2. CASE NextChunk /\ ~wanted
    <2>1. /\ at' = "feed" /\ Here' = "feed" /\ chunk' = 0 /\ offset < file /\ UNCHANGED vars
          /\ UNCHANGED <<state, queue, pc, received, res, file, offset,
                         before, ret, tally, result, late, broken, wanted>>
      BY <1>2 DEF NextChunk, Go, Here, vars, eventVars, audioVars
    <2>2. Count' = Count /\ Count \in Nat
      BY <1>0, <2>1, CountProperty DEF Count
    <2>3. offset + 0 = offset
      BY <1>0, BatchConstants, StreamConstants DEF BatchTypeOK
    <2>4. BatchTypeOK' /\ Account' /\ Answer'
      BY <1>0, <2>1, <2>2, <2>3 DEF BatchTypeOK, Account, Answer, Feeding, Share
    <2> QED  BY <1>0, <2>1, <2>4, MovingStep
  <1>3. CASE LastChunk
    <2>1. /\ at' = "finish" /\ Here' = "finish" /\ offset = file /\ UNCHANGED vars
          /\ UNCHANGED <<state, queue, pc, received, res, file, offset, chunk,
                         before, ret, tally, result, late, broken, wanted>>
      BY <1>3 DEF LastChunk, Go, Here, vars, eventVars, audioVars
    <2>2. BatchTypeOK' /\ Account' /\ Answer'
      BY <1>0, <2>1 DEF BatchTypeOK, Account, Answer, Feeding, Whole
    <2> QED  BY <1>0, <2>1, <2>2, MovingStep
  <1> QED  BY <1>1, <1>2, <1>3

LEMMA FeedRestStep ==
    ASSUME FlowInv, ThreadInv, FeedRest
    PROVE  ThreadInv'
  <1> USE DEF ThreadInv
  <1>0. /\ at = "feed" /\ Here = "feed" /\ late = 0 /\ chunk < Count /\ state \in Open
        /\ offset < file /\ received = offset + chunk /\ BatchTypeOK /\ result = "none"
    BY DEF FeedRest, At, Latest, Here, Account, Answer, Feeding, Share, Unanswered, BatchTypeOK
  <1>1. /\ at' = "drain" /\ ret' = "fed" /\ Here' = "fed" /\ before' = received
        /\ late' = (IF wanted THEN 1 ELSE 0)
        /\ UNCHANGED <<file, offset, chunk, tally, result, broken, wanted>>
    BY <1>0 DEF FeedRest, Calling, Go, Here
  <1>2. /\ Count \in Nat /\ offset + Count <= file /\ file <= MaxAudio /\ chunk \in Nat
        /\ offset \in Nat /\ file \in Nat /\ Count' = Count
    BY <1>0, <1>1, CountProperty, BatchConstants, StreamConstants DEF BatchTypeOK, Count
  <1>3. Count - chunk \in Nat /\ Count - chunk > 0 /\ received + (Count - chunk) <= MaxAudio
        /\ received \in Nat
    BY <1>0, <1>2, StreamConstants
  <1>4. CallFeed(Count - chunk)
    BY DEF FeedRest
  <1>5. /\ outcome' = "ok" /\ UNCHANGED <<state, received, queue, delivered, seqno>>
        /\ \/ pc' # "idle" /\ asked' = Count - chunk /\ after' \in {"none", "resume"}
           \/ pc' = "idle" /\ res' = "invalid_state" /\ state = "failed"
    BY <1>0, <1>3, <1>4, FeedBegins
  <1>6. BatchTypeOK' /\ Unanswered' /\ Latest' /\ ResultIsTrue'
    BY <1>0, <1>1, <1>3 DEF BatchTypeOK, Unanswered, Latest, ResultIsTrue
  <1>7. Running' /\ Answer'
    BY <1>0, <1>1, <1>2, <1>5 DEF Running, Answer, Feeding
  <1>8. Account'
    BY <1>0, <1>1, <1>2, <1>5 DEF Account
  <1>9. Blame' /\ Tallied'
    BY <1>1, <1>5, TalliedKept DEF Blame
  <1> QED  BY <1>6, <1>7, <1>8, <1>9

LEMMA ChunkFedStep ==
    ASSUME ThreadInv, ChunkFed
    PROVE  ThreadInv'
  <1>0. /\ pc = "idle" /\ at = "feed" /\ Here = "feed" /\ late # 1 /\ state \in Open
        /\ offset < file /\ received = offset + chunk /\ chunk = Count /\ BatchTypeOK
    BY DEF ChunkFed, At, ThreadInv, Latest, Here, Account, Answer, Feeding, Share
  <1>1. /\ at' = "chunk" /\ Here' = "chunk" /\ offset' = offset + Count /\ UNCHANGED vars
        /\ UNCHANGED <<state, queue, pc, received, res, file, chunk,
                       before, ret, tally, result, late, broken, wanted>>
    BY DEF ChunkFed, Go, Here, vars, eventVars, audioVars
  <1>2. offset' \in 0 .. file' /\ received' = offset'
    BY <1>0, <1>1, CountProperty, BatchConstants DEF BatchTypeOK
  <1>3. BatchTypeOK' /\ Account' /\ Answer'
    BY <1>0, <1>1, <1>2 DEF BatchTypeOK, Account, Answer, Feeding
  <1> QED  BY <1>0, <1>1, <1>3, MovingStep

LEMMA FedStep ==
    ASSUME FlowInv, ThreadInv, Fed
    PROVE  ThreadInv'
  <1>0. /\ pc = "idle" /\ at = "fed" /\ Here = "fed" /\ late # 1 /\ state \in Open
        /\ offset < file /\ chunk < Count /\ before = offset + chunk /\ BatchTypeOK
        /\ received \in {before, before + (Count - chunk)}
        /\ res = "ok" => received = before + (Count - chunk)
        /\ res \notin {"ok", "queue_full"} => state = "failed"
    BY DEF Fed, At, ThreadInv, Latest, Here, Account, Answer, Feeding
  <1>1. /\ chunk' = chunk + (received - before) /\ UNCHANGED vars
        /\ UNCHANGED <<state, queue, pc, received, res, file, offset,
                       before, tally, late, broken, wanted>>
    BY DEF Fed, vars, eventVars, audioVars
  <1>2. Count \in Nat /\ Count' = Count /\ chunk \in Nat /\ offset \in Nat /\ before \in Nat
        /\ received \in Nat
    BY <1>0, <1>1, CountProperty, BatchConstants, StreamConstants DEF BatchTypeOK, Count
  <1>3. chunk' \in Nat /\ chunk' <= Count /\ received = offset + chunk'
    BY <1>0, <1>1, <1>2
  <1>4. Share'
    BY <1>0, <1>1, <1>2, <1>3 DEF Share
  <1>5. CASE res = "queue_full" /\ Go("drain") /\ ret' = "resume" /\ UNCHANGED result
    <2>1. at' = "drain" /\ Here' = "resume"
      BY <1>5 DEF Go, Here
    <2>2. BatchTypeOK' /\ Account' /\ Answer'
      BY <1>0, <1>1, <1>3, <1>4, <1>5, <2>1 DEF BatchTypeOK, Account, Answer, Feeding
    <2> QED  BY <1>0, <1>1, <1>5, <2>1, <2>2, MovingStep
  <1>6. CASE res = "ok" /\ received - before > 0 /\ Go("feed") /\ ret' = "none" /\ UNCHANGED result
    <2>1. at' = "feed" /\ Here' = "feed"
      BY <1>6 DEF Go, Here
    <2>2. BatchTypeOK' /\ Account' /\ Answer'
      BY <1>0, <1>1, <1>3, <1>4, <1>6, <2>1 DEF BatchTypeOK, Account, Answer, Feeding
    <2> QED  BY <1>0, <1>1, <1>6, <2>1, <2>2, MovingStep
  <1>7. ~(res = "ok" /\ received - before = 0)
    BY <1>0, <1>2
  <1>8. CASE res \notin {"ok", "queue_full"} /\ Finished("failed")
    <2>1. broken
      BY <1>0, <1>8 DEF ThreadInv, Blame
    <2> QED  BY <1>0, <1>1, <1>3, <1>8, <2>1, FailedStep
  <1> QED  BY <1>5, <1>6, <1>7, <1>8 DEF Fed

LEMMA DrainingStep ==
    ASSUME FlowInv, Ordered, Closed, ThreadInv, DrainStep
    PROVE  ThreadInv'
  <1>0. /\ pc = "idle" /\ at = "drain" /\ Here = ret /\ BatchTypeOK
        /\ ret \in {"fed", "resume", "feed", "finish", "final"} /\ result = "none"
    BY DEF DrainStep, At, ThreadInv, Here, BatchTypeOK, Unanswered
  <1>1. CASE wanted
    BY <1>1, AbandonStep DEF DrainStep
  <1>2. CASE ~wanted /\ queue = <<>>
    <2>1. /\ at' = ret /\ Here' = Here /\ UNCHANGED vars
          /\ UNCHANGED <<state, queue, pc, received, res, file, offset, chunk,
                         before, ret, tally, result, late, broken, wanted>>
      BY <1>0, <1>2 DEF DrainStep, Go, Here, vars, eventVars, audioVars
    <2>2. late # 1
      BY <1>2 DEF ThreadInv, Latest
    <2>3. BatchTypeOK' /\ Count' = Count
      BY <1>0, <2>1 DEF BatchTypeOK, Count
    <2>4. Account'
      BY <2>1, <2>3 DEF ThreadInv, Account, Share, Whole
    <2>5. Answer'
      BY <1>2, <2>1 DEF ThreadInv, Answer
    <2> QED  BY <1>0, <2>1, <2>2, <2>3, <2>4, <2>5, MovingStep
  <1>3. CASE ~wanted /\ queue # <<>>
    <2>1. /\ Poll /\ tally' = tally + (IF Head(queue).type = "token" THEN 1 ELSE 0)
          /\ IF Head(queue).type = "error" THEN Finished("failed")
                                           ELSE UNCHANGED <<at, result>>
          /\ UNCHANGED <<file, offset, chunk, before, ret, late, broken, wanted>>
          /\ UNCHANGED <<state, pc, received, res, outcome, after, asked>>
      BY <1>3 DEF DrainStep, Poll, audioVars, callVars
    <2>2. Tallied' /\ tally' \in Nat
      BY <1>0, <2>1, TalliedPoll DEF ThreadInv, FlowInv, BatchTypeOK
    <2>3. Blame'
      BY <2>1 DEF ThreadInv, Blame
    <2>4. CASE Head(queue).type = "error"
      <3>1. broken
        BY <1>3, <2>4, ErrorRead DEF FlowInv, ThreadInv, Blame
      <3>2. ResultIsTrue'
        BY <2>1, <2>4, <3>1 DEF ResultIsTrue, Finished
      <3> QED  BY <1>0, <2>1, <2>2, <2>3, <2>4, <3>2, Leaving DEF BatchTypeOK
    <2>5. CASE Head(queue).type # "error"
      <3>1. at' = at /\ Here' = Here /\ Count' = Count /\ result' = result
        BY <2>1, <2>5 DEF Here, Count
      <3>2. BatchTypeOK' /\ Running' /\ Unanswered' /\ Latest' /\ ResultIsTrue'
        BY <1>0, <2>1, <2>2, <3>1
           DEF ThreadInv, BatchTypeOK, Running, Unanswered, Latest, ResultIsTrue
      <3>3. Account'
        BY <2>1, <3>1 DEF ThreadInv, Account, Share, Whole
      <3>4. Answer'
        BY <1>0, <2>1, <3>1 DEF ThreadInv, Answer
      <3> QED  BY <2>2, <2>3, <3>2, <3>3, <3>4 DEF ThreadInv
    <2> QED  BY <2>4, <2>5
  <1> QED  BY <1>1, <1>2, <1>3

LEMMA ResumeStep ==
    ASSUME FlowInv, ThreadInv, Resume
    PROVE  ThreadInv'
  <1> USE DEF ThreadInv
  <1>0. /\ at = "resume" /\ Here = "resume" /\ late = 0 /\ state \in Open
        /\ (Share \/ Whole) /\ BatchTypeOK /\ result = "none"
    BY DEF Resume, At, Latest, Here, Account, Answer, Feeding, Unanswered, BatchTypeOK
  <1>1. /\ at' = "resumed" /\ Here' = "resumed" /\ before' = received /\ CallFeed(0)
        /\ late' = (IF wanted THEN 1 ELSE 0)
        /\ UNCHANGED <<file, offset, chunk, ret, tally, result, broken, wanted>>
    BY <1>0 DEF Resume, Calling, Go, Here
  <1>2. received \in Nat /\ received + 0 <= MaxAudio
    <2>1. CASE Share
      BY <1>0, <2>1, CountProperty, BatchConstants, StreamConstants DEF Share, BatchTypeOK
    <2>2. CASE Whole
      BY <1>0, <2>2, BatchConstants, StreamConstants DEF Whole, BatchTypeOK
    <2> QED  BY <1>0, <2>1, <2>2
  <1>3. /\ outcome' = "ok" /\ UNCHANGED <<state, received, queue, delivered, seqno>>
        /\ \/ pc' # "idle" /\ asked' = 0 /\ after' = "resume"
           \/ pc' = "idle" /\ res' = "ok"
           \/ pc' = "idle" /\ res' = "invalid_state" /\ state = "failed"
    BY <1>0, <1>1, <1>2, FeedBegins
  <1>4. BatchTypeOK' /\ Unanswered' /\ Latest' /\ ResultIsTrue'
    BY <1>0, <1>1, <1>2, <1>3 DEF BatchTypeOK, Unanswered, Latest, ResultIsTrue
  <1>5. Running' /\ Answer'
    BY <1>0, <1>1, <1>3 DEF Running, Answer, Feeding
  <1>6. (Share \/ Whole)'
    BY <1>0, <1>1, <1>3 DEF Share, Whole, Count
  <1>7. Account'
    BY <1>1, <1>3, <1>6 DEF Account
  <1>8. Blame' /\ Tallied'
    BY <1>1, <1>3, TalliedKept DEF Blame
  <1> QED  BY <1>4, <1>5, <1>7, <1>8

LEMMA ResumedStep ==
    ASSUME FlowInv, ThreadInv, Resumed
    PROVE  ThreadInv'
  <1>0. /\ pc = "idle" /\ at = "resumed" /\ Here = "resumed" /\ state \in Open
        /\ (Share \/ Whole) /\ BatchTypeOK /\ before = received
        /\ res \notin {"ok", "queue_full"} => state = "failed"
    BY DEF Resumed, At, ThreadInv, Here, Account, Answer, Feeding
  <1>1. /\ UNCHANGED vars
        /\ UNCHANGED <<state, queue, pc, received, res, file, offset, chunk,
                       before, tally, late, broken, wanted>>
    BY DEF Resumed, vars, eventVars, audioVars
  <1>2. (Share \/ Whole)'
    BY <1>0, <1>1 DEF Share, Whole, Count
  <1>3. CASE res = "queue_full" /\ Go("drain") /\ ret' = "resume" /\ UNCHANGED result
    <2>1. at' = "drain" /\ Here' = "resume"
      BY <1>3 DEF Go, Here
    <2>2. BatchTypeOK' /\ Account' /\ Answer'
      BY <1>0, <1>1, <1>2, <1>3, <2>1 DEF BatchTypeOK, Account, Answer, Feeding
    <2> QED  BY <1>0, <1>1, <1>3, <2>1, <2>2, MovingStep
  <1>4. CASE /\ res = "ok" /\ Go("drain") /\ UNCHANGED result
             /\ ret' = IF offset < file THEN "feed" ELSE "finish"
    <2>1. at' = "drain" /\ Here' = ret'
      BY <1>4 DEF Go, Here
    <2>2. offset < file => Share'
      <3>1. offset \in Nat /\ file \in Nat
        BY <1>0, BatchConstants, StreamConstants DEF BatchTypeOK
      <3>2. offset < file => ~Whole'
        BY <1>1, <3>1 DEF Whole
      <3> QED  BY <1>2, <3>2
    <2>3. ~(offset < file) => Whole'
      BY <1>1, <1>2 DEF Share, Whole
    <2>4. BatchTypeOK' /\ Answer'
      BY <1>0, <1>1, <1>4, <2>1 DEF BatchTypeOK, Answer, Feeding
    <2>5. Account'
      BY <1>4, <2>1, <2>2, <2>3 DEF Account
    <2> QED  BY <1>0, <1>1, <1>4, <2>1, <2>4, <2>5, MovingStep
  <1>5. CASE res \notin {"ok", "queue_full"} /\ Finished("failed")
    <2>1. broken
      BY <1>0, <1>5 DEF ThreadInv, Blame
    <2> QED  BY <1>0, <1>1, <1>5, <2>1, FailedStep DEF BatchTypeOK
  <1> QED  BY <1>0, <1>3, <1>4, <1>5 DEF Resumed

LEMMA FinishStep ==
    ASSUME FlowInv, ThreadInv, Finish
    PROVE  ThreadInv'
  <1>0. /\ at = "finish" /\ Here = "finish" /\ late = 0 /\ state \in Open /\ Whole
        /\ BatchTypeOK /\ result = "none"
    BY DEF Finish, At, ThreadInv, Latest, Here, Account, Answer, Feeding, Unanswered, BatchTypeOK
  <1>1. CASE wanted
    BY <1>1, AbandonStep DEF Finish
  <1>2. CASE ~wanted
    <2> USE DEF ThreadInv
    <2>1. /\ at' = "ended" /\ Here' = "ended" /\ late' = 0 /\ CallFinish
          /\ UNCHANGED <<file, offset, chunk, before, ret, tally, result, broken, wanted>>
      BY <1>0, <1>2 DEF Finish, Calling, Go, Here
    <2>2. /\ outcome' = "ok" /\ UNCHANGED <<received, delivered>>
          /\ \/ FinishGoesOn /\ state' # "failed"
             \/ pc' = "idle" /\ res' = "ok" /\ state' = "completed"
             \/ pc' = "idle" /\ res' = "invalid_state" /\ state = "failed" /\ state' = "failed"
      BY <1>0, <2>1, FinishBegins
    <2>3. BatchTypeOK' /\ Unanswered' /\ Latest' /\ ResultIsTrue'
      BY <1>0, <2>1 DEF BatchTypeOK, Unanswered, Latest, ResultIsTrue
    <2>4. Running' /\ Answer'
      BY <2>1, <2>2 DEF Running, Answer, Feeding, FinishGoesOn
    <2>5. Account'
      BY <1>0, <2>1, <2>2 DEF Account, Whole
    <2>6. Blame' /\ Tallied'
      BY <2>1, <2>2, TalliedKept DEF Blame
    <2> QED  BY <2>3, <2>4, <2>5, <2>6
  <1> QED  BY <1>1, <1>2

LEMMA EndedStep ==
    ASSUME FlowInv, ThreadInv, Ended
    PROVE  ThreadInv'
  <1>0. /\ pc = "idle" /\ at = "ended" /\ Here = "ended" /\ Whole /\ BatchTypeOK /\ late # 1
        /\ res \notin {"ok", "queue_full"} => state = "failed"
        /\ res = "ok" => state = "completed"
        /\ res = "queue_full" => state \in Open
    BY DEF Ended, At, ThreadInv, Here, Account, Answer, Latest
  <1>1. /\ UNCHANGED vars /\ Whole'
        /\ UNCHANGED <<state, queue, pc, received, res, file, offset, chunk,
                       before, tally, late, broken, wanted>>
    BY <1>0 DEF Ended, vars, eventVars, audioVars, Whole
  <1>2. CASE res = "queue_full" /\ Go("drain") /\ ret' = "resume" /\ UNCHANGED result
    <2>1. at' = "drain" /\ Here' = "resume"
      BY <1>2 DEF Go, Here
    <2>2. BatchTypeOK' /\ Account' /\ Answer'
      BY <1>0, <1>1, <1>2, <2>1 DEF BatchTypeOK, Account, Answer, Feeding
    <2> QED  BY <1>0, <1>1, <1>2, <2>1, <2>2, MovingStep
  <1>3. CASE res = "ok" /\ Go("drain") /\ ret' = "final" /\ UNCHANGED result
    <2>1. at' = "drain" /\ Here' = "final"
      BY <1>3 DEF Go, Here
    <2>2. BatchTypeOK' /\ Account' /\ Answer'
      BY <1>0, <1>1, <1>3, <2>1 DEF BatchTypeOK, Account, Answer, Feeding
    <2> QED  BY <1>0, <1>1, <1>3, <2>1, <2>2, MovingStep
  <1>4. CASE res \notin {"ok", "queue_full"} /\ Finished("failed")
    <2>1. broken
      BY <1>0, <1>4 DEF ThreadInv, Blame
    <2> QED  BY <1>0, <1>1, <1>4, <2>1, FailedStep DEF BatchTypeOK
  <1> QED  BY <1>2, <1>3, <1>4 DEF Ended

\* A success is whole: the file was fed, every group decoded, every TOKEN read
\* and counted.
LEMMA FinalStep ==
    ASSUME FlowInv, Ordered, ThreadInv, Final
    PROVE  ThreadInv'
  <1>0. /\ pc = "idle" /\ at = "final" /\ Whole /\ BatchTypeOK
        /\ state = "completed" /\ queue = <<>> /\ Finished("ok")
    BY DEF Final, At, ThreadInv, Here, Account, Answer
  <1>1. /\ UNCHANGED <<state, queue, pc, received, seqno, eos, tokens, outcome, delivered>>
        /\ UNCHANGED <<file, offset, chunk, before, tally, late, broken, wanted>>
    BY DEF Final, vars, eventVars, audioVars, decodeVars, callVars, clientVars
  <1>2. tally = seqno
    BY <1>0, AllCounted DEF FlowInv, ThreadInv, BatchTypeOK
  <1>3. received > 0 /\ ~eos => Len(tokens) = LeftPad + file + RightPad - PrefillLen
    BY <1>0 DEF FlowInv, WholeAudioDecoded, Whole
  <1>4. SuccessIsWhole'
    BY <1>0, <1>1, <1>2, <1>3 DEF SuccessIsWhole, Whole
  <1>5. ResultIsTrue' /\ Tallied' /\ Blame'
    BY <1>0, <1>1, <1>4 DEF ResultIsTrue, Finished, ThreadInv, Tallied, Blame
  <1> QED  BY <1>0, <1>1, <1>5, Leaving DEF BatchTypeOK

LEMMA LeaveStep ==
    ASSUME FlowInv, ThreadInv, Leave
    PROVE  ThreadInv'
  <1> USE DEF ThreadInv
  <1>0. /\ pc = "idle" /\ at = "leave" /\ at' = "done" /\ Here' = "done" /\ BatchTypeOK
        /\ UNCHANGED <<file, offset, chunk, before, ret, tally, result, late, broken, wanted>>
    BY DEF Leave, At, Go, Here
  <1>1. /\ pc' = "idle" /\ UNCHANGED delivered /\ (state' = "failed" => state = "failed")
        /\ outcome' = "ok" \/ outcome' = outcome
        /\ state = "completed" => UNCHANGED <<state, queue, received, seqno, eos, tokens>>
    <2>1. CASE UNCHANGED vars
      BY <1>0, <2>1 DEF vars, eventVars, audioVars, decodeVars, callVars, clientVars
    <2>2. CASE state \in {"created", "running", "finishing"} /\ CallCancel
      BY <2>2, CancelDoes
    <2> QED  BY <2>1, <2>2 DEF Leave
  <1>2. BatchTypeOK' /\ Running' /\ Account' /\ Answer' /\ Unanswered' /\ Latest'
    BY <1>0, <1>1 DEF BatchTypeOK, Running, Account, Answer, Unanswered, Latest, Feeding
  <1>3. Blame' /\ Tallied'
    BY <1>0, <1>1, TalliedKept DEF Blame
  <1>4. ResultIsTrue'
    BY <1>0, <1>1 DEF ResultIsTrue, SuccessIsWhole
  <1> QED  BY <1>2, <1>3, <1>4

LEMMA RequestStep ==
    ASSUME ThreadInv, (Request \/ UNCHANGED allVars)
    PROVE  ThreadInv'
  <1> USE DEF ThreadInv
  <1>1. /\ UNCHANGED <<state, queue, pc, received, seqno, eos, tokens, outcome, delivered, res,
                       after, asked>>
        /\ UNCHANGED <<file, offset, chunk, before, at, ret, tally, result, late, broken>>
        /\ wanted' = wanted \/ wanted' = TRUE
    BY DEF Request, allVars, batchVars, vars, eventVars, audioVars, decodeVars, callVars, clientVars
  <1>2. Here' = Here /\ Count' = Count
    BY <1>1 DEF Here, Count
  <1>3. /\ BatchTypeOK'
        /\ Running' /\ Unanswered' /\ Latest' /\ Blame'
    <2>1. BatchTypeOK'
      BY <1>1, <1>2 DEF BatchTypeOK
    <2>2. Running'
      BY <1>1, <1>2 DEF Running
    <2>3. Unanswered' /\ Latest' /\ Blame'
      BY <1>1 DEF Unanswered, Latest, Blame
    <2> QED  BY <2>1, <2>2, <2>3
  <1>4. Account' /\ Answer'
    BY <1>1, <1>2 DEF Account, Answer, Share, Whole
  <1>5. Tallied' /\ ResultIsTrue'
    BY <1>1, TalliedKept DEF ResultIsTrue, SuccessIsWhole
  <1> QED  BY <1>3, <1>4, <1>5

-----------------------------------------------------------------------------
(* The theorems.                                                           *)

LEMMA InitBatch == BatchInit => BatchInv
  <1> SUFFICES ASSUME BatchInit
               PROVE  BatchInv
    OBVIOUS
  <1>1. FlowInv /\ Ordered /\ Closed
    BY InitFlow, FreshOrder, FreshClosed DEF BatchInit
  <1>2. Files \subseteq Nat
    BY BatchConstants, StreamConstants
  <1>3. delivered = <<>> /\ DOMAIN delivered = {} /\ state = "created" /\ pc = "idle"
        /\ received = 0 /\ outcome = "ok"
    BY DEF BatchInit, Init
  <1>4. BatchTypeOK /\ Running /\ Account /\ Answer
    <2>1. file \in Files /\ file \in Nat /\ at = "create" /\ Here = "create"
      BY <1>2 DEF BatchInit, Here
    <2>2. BatchTypeOK
      <3>1. /\ offset = 0 /\ chunk = 0 /\ before = 0 /\ tally = 0 /\ late = 0
            /\ result = "none" /\ wanted = FALSE /\ broken = FALSE
        BY DEF BatchInit
      <3>2. offset \in 0 .. file /\ late \in 0 .. 1
        BY <2>1, <3>1
      <3> QED  BY <2>1, <3>1, <3>2 DEF BatchTypeOK
    <2>3. Running /\ Account /\ Answer
      BY <1>3, <2>1 DEF BatchInit, Running, Account, Answer, Open
    <2> QED  BY <2>2, <2>3
  <1>5. Blame /\ Tallied /\ Unanswered /\ Latest /\ ResultIsTrue
    BY <1>3 DEF BatchInit, Blame, Tallied, Unanswered, Latest, ResultIsTrue
  <1> QED  BY <1>1, <1>4, <1>5 DEF BatchInv, ThreadInv

LEMMA BatchStep ==
    ASSUME BatchInv, [BatchNext]_allVars
    PROVE  BatchInv'
  <1> USE DEF BatchInv
  <1>1. FlowInv' /\ Ordered' /\ Closed'
    BY RequestSteps, StreamKept
  <1>2. CASE Library \/ Request \/ UNCHANGED allVars
    BY <1>1, <1>2, LibraryStep, RequestStep
  <1>3. CASE Thread
    BY <1>1, <1>3, CreateStep, ChunkStep, FeedRestStep, ChunkFedStep, FedStep, DrainingStep,
       ResumeStep, ResumedStep, FinishStep, EndedStep, FinalStep, LeaveStep DEF Thread
  <1> QED  BY <1>2, <1>3 DEF BatchNext

\* The invariant of a batch request is inductive, the stream below included.
THEOREM BatchInductive == BatchSpec => []BatchInv
  <1> QED  BY InitBatch, BatchStep, PTL DEF BatchSpec

\* The answer is true, for every file and queue: a success fed its file once and
\* whole, decoded every group of it, counted every TOKEN event and left none
\* behind; a failure is the backend's, a cancellation was asked for
\* (transcribe_batch, resume_after_backpressure, drain_events).
THEOREM ResultAlwaysTrue == BatchSpec => []ResultIsTrue
  <1>1. BatchInv => ResultIsTrue
    BY DEF BatchInv, ThreadInv
  <1> QED  BY <1>1, BatchInductive, PTL

\* After a cancellation at most one more call of the library begins.
THEOREM CancellationStops == BatchSpec => []CancelStops
  <1>1. BatchInv => CancelStops
    BY DEF BatchInv, ThreadInv, BatchTypeOK, CancelStops
  <1> QED  BY <1>1, BatchInductive, PTL

-----------------------------------------------------------------------------
(* What the request may rely on: the stream's promises, without ShortFeeds. *)

\* A step of the request is a step of the stream's contract, or none.
LEMMA RequestContract ==
    ASSUME BatchInv, Counted, [BatchNext]_allVars
    PROVE  /\ Contract!ContractNext \/ UNCHANGED <<Outcome, Promised, ReadSoFar>>
           /\ Counted'
  <1>1. FlowInv /\ FlowInv' /\ Ordered
    BY BatchStep DEF BatchInv
  <1>2. StreamStep
    BY RequestSteps DEF BatchInv
  <1>3. CASE [Next]_vars
    BY <1>1, <1>3, NextContract
  <1>4. ASSUME NEW n \in 0 .. SliceGroups, CallFeed(n)
        PROVE  UNCHANGED <<Outcome, Promised, ReadSoFar>> /\ Counted'
    <2>1. UNCHANGED <<state, queue, delivered, seqno>>
      BY <1>4 DEF CallFeed, decodeVars, clientVars
    <2>2. HasEnded' = HasEnded
      BY <2>1 DEF HasEnded
    <2> QED  BY <2>1, <2>2, ContractStutter
  <1> QED  BY <1>2, <1>3, <1>4 DEF StreamStep, Next, Client

\* The stream below a request keeps the contract of the public API, whatever the
\* file, the queue and the moment of a cancellation: the worker's chunks are its
\* feeds (transcribe_batch), so nothing need be assumed of their length.
THEOREM RequestKeepsContract == BatchSpec => KeepsContract
  <1>1. BatchInit => BatchInv /\ Counted /\ Contract!Start
    BY InitBatch, InitContract DEF BatchInit
  <1>2. BatchInv /\ Counted /\ [BatchNext]_allVars =>
          BatchInv' /\ Counted' /\ [Contract!ContractNext]_Contract!contractVars
    <2> SUFFICES ASSUME BatchInv, Counted, [BatchNext]_allVars
                 PROVE  BatchInv' /\ Counted' /\ [Contract!ContractNext]_Contract!contractVars
      OBVIOUS
    <2> QED  BY BatchStep, RequestContract
             DEF Contract!contractVars, Outcome, Promised, ReadSoFar, HasEnded
  <1> QED  BY <1>1, <1>2, PTL DEF BatchSpec, KeepsContract, Contract!ContractSpec

\* Below a request no ring row is overwritten before it is read, a completed stream
\* decoded its file whole, events are in order, and an ended stream has its one
\* terminal event (feed_common, voxtral_encoder_stream_push_mel, push_mandatory).
THEOREM RequestStreamSafe ==
    BatchSpec => [](DecodesOwnAudio /\ WholeAudioDecoded /\ EventsInOrder /\ TerminalDelivered)
  <1>1. BatchInv => DecodesOwnAudio /\ WholeAudioDecoded
    BY DEF BatchInv, FlowInv, RowInv
  <1>2. BatchInv => EventsInOrder
    BY DEF BatchInv, Ordered, InOrder, EventsInOrder, TokensInOrder, PartialsMonotone
  <1>3. BatchInv => TerminalDelivered
    BY DEF BatchInv, Closed
  <1> QED  BY <1>1, <1>2, <1>3, BatchInductive, PTL
=============================================================================
