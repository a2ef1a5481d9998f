---------------------------- MODULE MelFrontend ----------------------------
(***************************************************************************)
(* The audio frontend of a stream: the incremental Mel frontend            *)
(* (src/src/voxtral-mel.cpp) and its two callers, feed and finish of a     *)
(* voxtral_stream, which pad the audio and drain the stable frames into    *)
(* the encoder (src/src/voxtral-stream-frontend.cpp, voxtral-stream.cpp).  *)
(*                                                                         *)
(* The k-th audio sample is k, a sample of silence is 0, and a Mel frame   *)
(* is the window of samples it was computed from.  An action is one call   *)
(* of the frontend, or one push of the drain.                              *)
(***************************************************************************)
EXTENDS Integers, Sequences

CONSTANTS
    Fft,          \* VOXTRAL_MEL_N_FFT
    Hop,          \* VOXTRAL_MEL_HOP
    Pad,          \* VOXTRAL_MEL_PAD, half a window
    PerToken,     \* VOXTRAL_RAW_AUDIO_LENGTH_PER_TOK
    LeftTokens,   \* VOXTRAL_N_LEFT_PAD_TOKENS
    RightTokens,  \* VOXTRAL_N_RIGHT_PAD_TOKENS
    AudioSlice,   \* kAudioDrainSlice
    MelSlice,     \* kMelDrainSlice
    Int32Span,    \* 2^32: the values of an int32_t
    FeedSizes,    \* bound: samples of one feed
    MaxSamples    \* bound: samples of one stream

ASSUME MelAssumption ==
    /\ Hop \in Nat \ {0} /\ Fft = 2 * Pad /\ Pad \in Hop..(2 * Hop)
    /\ PerToken \in Nat \ {0} /\ PerToken % (2 * Hop) = 0
    /\ LeftTokens \in Nat \ {0} /\ RightTokens \in Nat \ {0}
    /\ AudioSlice \in Nat \ {0} /\ MelSlice \in Nat \ {0}
    /\ Int32Span \in Nat \ {0} /\ Int32Span % 2 = 0
    /\ FeedSizes \subseteq Nat \ {0} /\ MaxSamples \in Nat

VARIABLES
    pcm,             \* the rolling samples
    pcm_base,        \* absolute position of the first of them
    total_received,
    next_frame,      \* next Mel frame to compute
    mel_frames,      \* computed frames still held
    mel_base_frame,  \* position of the first of them
    finalized,
    retain_history   \* params.retain_mel_history

feVars == << pcm, pcm_base, total_received, next_frame, mel_frames, mel_base_frame,
             finalized, retain_history >>

VARIABLES
    left_pad_injected,
    samples,           \* lifecycle.total_samples_received
    sent,              \* ghost: samples the caller's feeds have handed over
    enc_pushed_frames, \* the drain's cursor
    pushed,            \* ghost: the frames the encoder took, in order
    mel_even,          \* the even-trimmed Mel of finish
    todo,              \* samples of the running feed not yet sliced
    pc,                \* "idle", "slice", "drain", "flush"
    status             \* "open", "completed", "failed"

callVars == << left_pad_injected, samples, sent, enc_pushed_frames, pushed,
               mel_even, todo, pc, status >>
vars == << feVars, callVars >>

-----------------------------------------------------------------------------
(* Windows. *)

\* A conversion to int32_t.
Int32(x) == ((x + Int32Span \div 2) % Int32Span) - Int32Span \div 2

\* voxtral_reflect_index: reflected until it lies inside.
ReflectIndex(idx, len) ==
    LET Reflected[i \in Int] ==
            IF i < 0 THEN Reflected[-i]
            ELSE IF i >= len THEN Reflected[2 * len - 2 - i]
            ELSE i
    IN  IF len <= 1 THEN 0 ELSE Reflected[idx]

\* The sample positions of frame f of a signal of n samples.
WindowIndex(f, n) ==
    [i \in 1..Fft |->
        LET src == Int32(f * Hop) + (i - 1) - Pad
        IN  IF src >= 0 /\ src < n THEN src ELSE ReflectIndex(src, n)]

\* frame_hi_index.
FrameHi(f) ==
    LET direct == f * Hop + (Fft - 1) - Pad
        lowest == f * Hop - Pad
    IN  IF lowest < 0 /\ -lowest > direct THEN -lowest ELSE direct

\* Mutant of FrameLo: only the samples to the right of a frame's centre.
FrameLo_Centre(f) == f * Hop

\* frame_lo_index.
FrameLo(f) == IF f * Hop < Pad THEN 0 ELSE f * Hop - Pad

\* A read outside the rolling buffer.
Outside == -1

\* fill_window and compute_and_store_frame: frame f of what the buffer holds.
FrameOf(buffer, base, f, n) ==
    LET index == WindowIndex(f, n)
    IN  [i \in 1..Fft |->
            IF index[i] - base \in 0..(Len(buffer) - 1)
            THEN buffer[index[i] - base + 1] ELSE Outside]

FramesOf(buffer, base, first, last, n) ==
    [k \in 1..(last - first) |-> FrameOf(buffer, base, first + k - 1, n)]

\* The first frame that still needs a sample beyond total.
FirstUnstable(total) ==
    CHOOSE f \in next_frame..(next_frame + total) :
        /\ FrameHi(f) > total - 1
        /\ \A g \in next_frame..(f - 1) : FrameHi(g) <= total - 1

-----------------------------------------------------------------------------
(* The incremental frontend. *)

FreshFrontend ==
    /\ pcm = << >> /\ pcm_base = 0 /\ total_received = 0 /\ next_frame = 0
    /\ mel_frames = << >> /\ mel_base_frame = 0 /\ finalized = FALSE

\* frontend_reset.
ResetFrontend ==
    /\ pcm' = << >> /\ pcm_base' = 0 /\ total_received' = 0 /\ next_frame' = 0
    /\ mel_frames' = << >> /\ mel_base_frame' = 0 /\ finalized' = FALSE
    /\ UNCHANGED retain_history

\* frontend_feed and feed_silence: append, emit_stable_frames, compact.
FeedFrontend(new) ==
    LET buffer == pcm \o new
        total  == total_received + Len(new)
        end    == FirstUnstable(total)
        drop   == FrameLo(end) - pcm_base
    IN  /\ ~finalized
        /\ total_received' = total
        /\ mel_frames' = mel_frames \o FramesOf(buffer, pcm_base, next_frame, end, Int32(total))
        /\ next_frame' = end
        /\ IF drop > 0
           THEN /\ pcm' = SubSeq(buffer, drop + 1, Len(buffer))
                /\ pcm_base' = FrameLo(end)
           ELSE pcm' = buffer /\ UNCHANGED pcm_base
        /\ UNCHANGED << mel_base_frame, finalized, retain_history >>

Silence(n) == [i \in 1..n |-> 0]

\* The right padding of finish: to a whole token, then whole tokens.
RightPad(n) == ((PerToken - (n % PerToken)) % PerToken) + RightTokens * PerToken

\* feed_silence of the right padding, then frontend_finish: the remaining
\* frames, reflected at the end, and no samples held.
FinishFrontend(pad) ==
    LET buffer == pcm \o Silence(pad)
        total  == total_received + pad
        stable == FirstUnstable(total)
        end    == IF stable < total \div Hop THEN total \div Hop ELSE stable
        base   == IF FrameLo(stable) > pcm_base THEN FrameLo(stable) ELSE pcm_base
        tail   == SubSeq(buffer, base - pcm_base + 1, Len(buffer))
    IN  /\ ~finalized
        /\ mel_frames' = mel_frames
               \o FramesOf(buffer, pcm_base, next_frame, stable, Int32(total))
               \o FramesOf(tail, base, stable, end, Int32(total))
        /\ next_frame' = end
        /\ total_received' = total
        /\ pcm' = << >> /\ pcm_base' = total
        /\ finalized' = TRUE
        /\ UNCHANGED << mel_base_frame, retain_history >>

\* frontend_frame_data: is a frame held?
HasFrame(f) ==
    /\ f >= mel_base_frame /\ f < next_frame
    /\ f - mel_base_frame < Len(mel_frames)

HeldFrames(f, n) == SubSeq(mel_frames, f - mel_base_frame + 1, f - mel_base_frame + n)

\* frontend_discard_before: only in bounded mode.
DiscardBefore(frame) ==
    LET held   == mel_base_frame + Len(mel_frames)
        target == IF frame < held THEN frame ELSE held
    IN  IF retain_history \/ frame <= mel_base_frame \/ target <= mel_base_frame
        THEN UNCHANGED << mel_frames, mel_base_frame >>
        ELSE /\ mel_frames' = SubSeq(mel_frames, target - mel_base_frame + 1, Len(mel_frames))
             /\ mel_base_frame' = target

\* assemble_even: nothing once a frame was dropped, else all frames but, in an
\* odd number, the first.
AssembleEven(base, frames) ==
    IF base # 0 THEN << >>
    ELSE IF Len(frames) % 2 = 1 THEN Tail(frames) ELSE frames

-----------------------------------------------------------------------------
(* feed, finish and reset of the stream. *)

Left == LeftTokens * PerToken
SmallerOf(a, b) == IF a <= b THEN a ELSE b

Init ==
    /\ FreshFrontend
    /\ retain_history \in BOOLEAN
    /\ left_pad_injected = FALSE /\ samples = 0 /\ sent = 0
    /\ enc_pushed_frames = 0 /\ pushed = << >> /\ mel_even = << >>
    /\ todo = 0 /\ pc = "idle" /\ status = "open"

\* ensure_left_pad: once, before the first real sample.
EnsureLeftPad ==
    IF left_pad_injected THEN UNCHANGED << feVars, left_pad_injected >>
    ELSE FeedFrontend(Silence(Left)) /\ left_pad_injected' = TRUE

\* feed_common up to its slice loop.
CallFeed(n) ==
    /\ pc = "idle" /\ status = "open" /\ samples + n <= MaxSamples
    /\ EnsureLeftPad
    /\ todo' = n /\ pc' = "slice"
    /\ UNCHANGED << samples, sent, enc_pushed_frames, pushed, mel_even, status >>

\* Mutant of FeedSlice: the last slice is a full one, past the caller's samples.
FeedSlice_Full ==
    /\ pc = "slice"
    /\ FeedFrontend([i \in 1..AudioSlice |-> sent + i])
    /\ sent' = sent + AudioSlice /\ todo' = todo - AudioSlice
    /\ pc' = "drain"
    /\ UNCHANGED << left_pad_injected, samples, enc_pushed_frames, pushed,
                    mel_even, status >>

\* One pass of feed_common's slice loop up to the drain.
FeedSlice ==
    LET n == SmallerOf(AudioSlice, todo)
    IN  /\ pc = "slice"
        /\ FeedFrontend([i \in 1..n |-> sent + i])
        /\ sent' = sent + n /\ todo' = todo - n
        /\ pc' = "drain"
        /\ UNCHANGED << left_pad_injected, samples, enc_pushed_frames, pushed,
                        mel_even, status >>

\* One push of drain_mel_to_encoder: its checks, the encoder, the cursor, and
\* the frames nobody needs any more.
Push(n) ==
    LET base == enc_pushed_frames
    IN  /\ base >= mel_base_frame /\ HasFrame(base)
        /\ pushed' = pushed \o HeldFrames(base, n)
        /\ enc_pushed_frames' = base + n
        /\ DiscardBefore(base + n)
        /\ UNCHANGED << pcm, pcm_base, total_received, next_frame, finalized,
                        retain_history, left_pad_injected, samples, sent, mel_even >>

DrainOne ==
    /\ pc = "drain" /\ enc_pushed_frames < next_frame
    /\ Push(SmallerOf(MelSlice, next_frame - enc_pushed_frames))
    /\ UNCHANGED << todo, pc, status >>

\* The next slice, or the end of the feed: its samples count as received.
DrainEnds ==
    /\ pc = "drain" /\ enc_pushed_frames >= next_frame
    /\ IF todo > 0 THEN pc' = "slice" /\ UNCHANGED samples
       ELSE pc' = "idle" /\ samples' = sent
    /\ UNCHANGED << feVars, left_pad_injected, sent, enc_pushed_frames, pushed,
                    mel_even, todo, status >>

\* The encoder rejects a push, or a frame is outside what is held: the stream
\* fails where it stands.
DrainFails ==
    /\ pc \in {"drain", "flush"} /\ enc_pushed_frames < next_frame
    /\ todo' = 0 /\ pc' = "idle" /\ status' = "failed"
    /\ UNCHANGED << feVars, left_pad_injected, samples, sent, enc_pushed_frames,
                    pushed, mel_even >>

\* finish of a stream without audio.
FinishEmpty ==
    /\ pc = "idle" /\ status = "open" /\ samples = 0
    /\ status' = "completed"
    /\ UNCHANGED << feVars, left_pad_injected, samples, sent, enc_pushed_frames,
                    pushed, mel_even, todo, pc >>

\* finish up to the terminal drain.
CallFinish ==
    /\ pc = "idle" /\ status = "open" /\ samples > 0
    /\ FinishFrontend(RightPad(samples))
    /\ mel_even' = AssembleEven(mel_base_frame, mel_frames')
    /\ pc' = "flush"
    /\ UNCHANGED << left_pad_injected, samples, sent, enc_pushed_frames, pushed,
                    todo, status >>

\* The terminal drain: everything in one push.
DrainFinal ==
    /\ pc = "flush"
    /\ Push(next_frame - enc_pushed_frames)
    /\ pc' = "idle" /\ status' = "completed"
    /\ UNCHANGED todo

\* Mutant of CallReset: the drain's cursor survives.
CallReset_KeepsCursor ==
    /\ pc = "idle" /\ total_received > 0
    /\ ResetFrontend
    /\ left_pad_injected' = FALSE /\ samples' = 0 /\ sent' = 0
    /\ pushed' = << >> /\ mel_even' = << >>
    /\ status' = "open"
    /\ UNCHANGED << enc_pushed_frames, todo, pc >>

\* voxtral_stream_reset_internal; the cursor and the frontend together.
CallReset ==
    /\ pc = "idle" /\ total_received > 0
    /\ ResetFrontend
    /\ left_pad_injected' = FALSE /\ samples' = 0 /\ sent' = 0
    /\ enc_pushed_frames' = 0 /\ pushed' = << >> /\ mel_even' = << >>
    /\ status' = "open"
    /\ UNCHANGED << todo, pc >>

Next ==
    \/ \E n \in FeedSizes : CallFeed(n)
    \/ FeedSlice \/ DrainOne \/ DrainEnds \/ DrainFails
    \/ FinishEmpty \/ CallFinish \/ DrainFinal \/ CallReset

Spec == Init /\ [][Next]_vars

-----------------------------------------------------------------------------
(* The batch spectrogram, the reference of the streamed one. *)

\* The audio as voxtral_transcribe_from_audio pads it.
PaddedAudio(n) == Silence(Left) \o [i \in 1..n |-> i] \o Silence(RightPad(n))

\* voxtral_mel_compute_batch: every frame of a centred copy of the signal.
BatchMel(audio) ==
    LET n == Len(audio)
    IN  [k \in 1..(n \div Hop) |->
            [i \in 1..Fft |->
                LET src == (k - 1) * Hop + (i - 1) - Pad
                IN  audio[(IF src >= 0 /\ src < n THEN src ELSE ReflectIndex(src, n)) + 1]]]

\* compute_mel_even drops the first frame of an odd number.
EvenMel(frames) == IF Len(frames) % 2 = 1 THEN Tail(frames) ELSE frames

-----------------------------------------------------------------------------
(* Properties. *)

TypeOK ==
    /\ pcm_base \in Nat /\ total_received \in Nat /\ next_frame \in Nat
    /\ mel_base_frame \in Nat /\ samples \in Nat /\ enc_pushed_frames \in Nat
    /\ {finalized, retain_history, left_pad_injected} \subseteq BOOLEAN
    /\ todo \in 0..MaxSamples
    /\ pc \in {"idle", "slice", "drain", "flush"}
    /\ status \in {"open", "completed", "failed"}

\* Whatever the caller's feeds, the frames the encoder takes are those of the
\* batch path on the padded utterance: the same windows, once each, in order,
\* all of them at the end, every sample still held when its frame is computed
\* (emit_stable_frames, compact, finish; "bit-for-bit the batch result").
StreamedIsBatch ==
    LET batch == BatchMel(PaddedAudio(sent))
    IN  /\ Len(pushed) <= Len(batch)
        /\ pushed = SubSeq(batch, 1, Len(pushed))
        /\ status = "completed" /\ samples > 0 => Len(pushed) = Len(batch)

\* The matrix kept for introspection is the batch path's, or empty when frames
\* were dropped already (frontend_assemble_even, compute_mel_even).
MatrixIsBatch ==
    finalized =>
        mel_even = IF retain_history THEN EvenMel(BatchMel(PaddedAudio(sent))) ELSE << >>

\* The streamed and the batch spectrogram agree, in the frames the encoder takes
\* and in the matrix kept for introspection (emit_stable_frames, compact,
\* frontend_finish, frontend_assemble_even).
SameAsBatch == StreamedIsBatch /\ MatrixIsBatch

\* Between calls the frontend holds less than one window of samples, and in
\* bounded mode no frame the encoder has taken ("no lasting buffer").
HoldsBoundedTail ==
    /\ Len(pcm) < Fft
    /\ pc = "idle" /\ status = "open" /\ ~retain_history => mel_frames = << >>

\* The drain's checks on the history never fail: the cursor is not behind the
\* dropped frames nor ahead of the computed ones, and the frames it pushes next
\* are all held (drain_mel_to_encoder's two error branches).
DrainAlwaysServed ==
    /\ mel_base_frame <= enc_pushed_frames /\ enc_pushed_frames <= next_frame
    /\ mel_base_frame + Len(mel_frames) = next_frame

\* The drain finds every frame it asks for although the frontend drops samples and
\* frames as early as it can (drain_mel_to_encoder, compact, discard_before).
DrainServedFromTail == DrainAlwaysServed /\ HoldsBoundedTail
=============================================================================
