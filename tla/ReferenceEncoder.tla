--------------------------- MODULE ReferenceEncoder ---------------------------
(***************************************************************************)
(* The reference encoder of a stream (VOXTRAL_ENCODER_STRATEGY=reference,  *)
(* src/src/voxtral.cpp), composed with the frontend that feeds it: bounded *)
(* windows of the Mel are encoded again and again in a schedule that must  *)
(* replay the chunked encoder of the batch path.                           *)
(*                                                                         *)
(* A Mel frame is its number in the utterance, from 1 (its contents are    *)
(* MelFrontend's), and an encoder frame is what determines it in a chunk:  *)
(* the first Mel frame behind the chunk's truncation, the last Mel frame   *)
(* it hears, and its RoPE position.  An action of MelFrontend that pushes  *)
(* frames starts a drive; an action here is one pass of the drive's loop.  *)
(***************************************************************************)
EXTENDS MelFrontend

CONSTANTS
    ChunkMel,    \* VOXTRAL_ENC_CHUNK_MEL
    Overlap,     \* VOXTRAL_ENC_CHUNK_OVERLAP, in encoder frames
    EmitMel,     \* VOXTRAL_ENC_STREAM_EMIT_MEL
    Downsample   \* VOXTRAL_DOWNSAMPLE_FACTOR

\* Mel frames of one adapter group.
Whole == 2 * Downsample

ASSUME ReferenceAssumption ==
    /\ Downsample \in Nat \ {0} /\ Overlap \in Nat \ {0}
    /\ ChunkMel = 4 * Overlap /\ ChunkMel % Whole = 0
    /\ EmitMel \in Nat \ {0} /\ EmitMel % Whole = 0
    /\ PerToken = Whole * Hop

VARIABLES
    es,       \* the voxtral_encoder_stream
    driving   \* the running drive: "no", "push", "last" (push_mel_final), "finish"

refVars == << vars, es, driving >>

-----------------------------------------------------------------------------
(* One chunk. *)

\* VOXTRAL_ENC_MEL_STRIDE.
MelStride == ChunkMel - 2 * Overlap

\* Encoder frames of a chunk that the chunk before it has emitted.
Skip(c) == IF c = 0 THEN 0 ELSE Overlap

\* Frames of the second convolution, and those left of the truncated chunk.
ConvFrames(n) == (n + 1) \div 2
Trunc(n) == ConvFrames(n) % Downsample
EncTokens(n) == ConvFrames(n) - Trunc(n)

\* run_encoder_chunk: a chunk of Mel frames, its first convolution frames cut to
\* whole adapter groups.
ChunkOutput(mel, rope) ==
    LET cut == Trunc(Len(mel))
    IN  [i \in 1..EncTokens(Len(mel)) |->
            [first |-> mel[2 * cut + 1],
             last  |-> mel[SmallerOf(2 * (cut + i), Len(mel))],
             pos   |-> rope + i - 1]]

-----------------------------------------------------------------------------
(* The chunked encoder of the batch path. *)

MelOf(c, total) == [i \in 1..SmallerOf(ChunkMel, total - c * MelStride) |-> c * MelStride + i]

\* The loop's end: no Mel left, or a chunk without a new frame.
NoChunk(c, total) ==
    \/ c * MelStride >= total
    \/ EncTokens(Len(MelOf(c, total))) <= Skip(c)

\* Passes of the batch path's loops.
Chunks(total) ==
    CHOOSE c \in 0..total : NoChunk(c, total) /\ \A b \in 0..(c - 1) : ~NoChunk(b, total)

\* compute_total_enc_tokens: Sum[c] is the total after c passes.
TotalEncTokens(total) ==
    LET Sum[c \in 0..Chunks(total)] ==
            IF c = 0 THEN 0
            ELSE Sum[c - 1] + EncTokens(Len(MelOf(c - 1, total))) - Skip(c - 1)
    IN  Sum[Chunks(total)]

\* A pass of run_encoder_chunked over chunk c: its new frames behind the output, as
\* many as the buffer of alloc_total frames has room for.
AfterChunk(c, total, output) ==
    LET chunk  == ChunkOutput(MelOf(c, total), Len(output) - Skip(c))
        stride == SmallerOf(Len(chunk) - Skip(c), TotalEncTokens(total) - Len(output))
    IN  output \o SubSeq(chunk, Skip(c) + 1, Skip(c) + stride)

\* run_encoder_chunked: Output[c] is the output after c passes.
RunChunked(total) ==
    LET Output[c \in 0..Chunks(total)] ==
            IF c = 0 THEN << >> ELSE AfterChunk(c - 1, total, Output[c - 1])
    IN  Output[Chunks(total)]

\* What the adapter gets: whole groups.
ForAdapter(output) == SubSeq(output, 1, (Len(output) \div Downsample) * Downsample)

-----------------------------------------------------------------------------
(* The stream's encoder. *)

FreshEncoder ==
    [mel_window |-> << >>, window_base |-> 0, stable_mel |-> 0, cur_chunk |-> 0,
     emitted |-> 0, last_run_mel_end |-> 0, finalized |-> FALSE, enc_accum |-> << >>,
     encoder_input_frames |-> 0]

\* voxtral_encoder_stream_push_mel and _push_mel_final, up to the drive: frames
\* base + 1 to base + n.
TakeMel(base, n, drive) ==
    /\ driving = "no" /\ ~es.finalized /\ base = es.stable_mel
    /\ es' = [es EXCEPT !.mel_window = @ \o [k \in 1..n |-> base + k],
                        !.stable_mel = @ + n]
    /\ driving' = drive

\* voxtral_encoder_stream_finish, behind its drive.
Finalized(e) ==
    [e EXCEPT !.finalized = TRUE, !.mel_window = << >>, !.window_base = e.stable_mel]

\* The end of a drive; after the terminal push the stream finishes the encoder.
EndDrive(e) ==
    /\ driving' = IF driving = "last" THEN "finish" ELSE "no"
    /\ es' = IF driving = "finish" THEN Finalized(e) ELSE e

ChunkStart == es.cur_chunk * MelStride
Available == es.stable_mel - ChunkStart
Complete == Available >= ChunkMel
AtFinish == driving \in {"last", "finish"}

\* Mutant of Prefix: every stable frame, a whole group or not.
Prefix_Exact == Available

\* The part of an incomplete chunk 0 that is run ahead: whole adapter groups.
Prefix == (Available \div Whole) * Whole

\* How much longer than the last one such a prefix must be.
PrefixInterval ==
    IF EmitMel >= es.last_run_mel_end \div 2 THEN EmitMel ELSE es.last_run_mel_end \div 2

RunLength == IF Complete THEN ChunkMel ELSE IF AtFinish THEN Available ELSE Prefix

\* Does this pass of the loop run a chunk?
Due ==
    /\ Available > 0
    /\ \/ Complete \/ AtFinish
       \/ /\ es.cur_chunk = 0 /\ Prefix > 0
          /\ Prefix - es.last_run_mel_end >= PrefixInterval
    /\ EncTokens(RunLength) > Skip(es.cur_chunk)

\* encoder_stream_run_chunk's check of its window.
Covered ==
    /\ es.window_base <= ChunkStart
    /\ ChunkStart - es.window_base + RunLength <= Len(es.mel_window)

\* encoder_stream_run_chunk: encode the window again and keep what is new.
AfterRun ==
    LET r0    == ChunkStart - es.window_base
        chunk == ChunkOutput(SubSeq(es.mel_window, r0 + 1, r0 + RunLength),
                             es.cur_chunk * Overlap)
        held  == es.emitted - es.cur_chunk * Overlap
        start == IF held < Skip(es.cur_chunk) THEN Skip(es.cur_chunk) ELSE held
        run   == [es EXCEPT !.encoder_input_frames = @ + RunLength,
                            !.last_run_mel_end = ChunkStart + RunLength]
    IN  IF Len(chunk) > start
        THEN [run EXCEPT !.enc_accum = @ \o SubSeq(chunk, start + 1, Len(chunk)),
                         !.emitted = es.cur_chunk * Overlap + Len(chunk)]
        ELSE run

\* The next chunk's window, without the Mel frames in front of it.
Advanced(e) ==
    LET base == (e.cur_chunk + 1) * MelStride
    IN  [e EXCEPT !.cur_chunk = @ + 1,
                  !.mel_window = SubSeq(@, base - e.window_base + 1, Len(@)),
                  !.window_base = base]

\* A pass of encoder_stream_drive that runs a chunk; a complete one is followed by
\* another pass.
RunChunk ==
    /\ driving # "no" /\ Due /\ Covered
    /\ IF Complete THEN es' = Advanced(AfterRun) /\ UNCHANGED driving
       ELSE EndDrive(AfterRun)
    /\ UNCHANGED vars

\* A pass that finds nothing to run.
DriveEnds ==
    /\ driving # "no" /\ ~Due
    /\ EndDrive(es)
    /\ UNCHANGED vars

\* The window does not cover the chunk, or its graph cannot be allocated: the
\* push fails, and the stream with it.
RunFails ==
    /\ driving # "no" /\ Due
    /\ driving' = "no" /\ status' = "failed" /\ pc' = "idle" /\ todo' = 0
    /\ UNCHANGED << feVars, left_pad_injected, samples, sent, enc_pushed_frames,
                    pushed, mel_even, es >>

\* The frontend's calls.  The encoder runs within its push, so nothing else
\* happens until the drive ends.
StreamStep ==
    /\ driving = "no"
    /\ \/ \E n \in FeedSizes : CallFeed(n)
       \/ FeedSlice \/ DrainEnds \/ DrainFails \/ FinishEmpty \/ CallFinish
    /\ UNCHANGED << es, driving >>

PushSlice ==
    /\ DrainOne
    /\ TakeMel(enc_pushed_frames, enc_pushed_frames' - enc_pushed_frames, "push")

PushRest ==
    /\ DrainFinal
    /\ TakeMel(enc_pushed_frames, enc_pushed_frames' - enc_pushed_frames, "last")

ResetStream ==
    /\ driving = "no" /\ CallReset
    /\ es' = FreshEncoder /\ UNCHANGED driving

RefInit == Init /\ es = FreshEncoder /\ driving = "no"

RefNext ==
    \/ StreamStep \/ PushSlice \/ PushRest
    \/ RunChunk \/ DriveEnds \/ RunFails
    \/ ResetStream

RefSpec == RefInit /\ [][RefNext]_refVars

-----------------------------------------------------------------------------
(* Properties. *)

RefTypeOK ==
    /\ TypeOK
    /\ driving \in {"no", "push", "last", "finish"}
    /\ es.cur_chunk \in Nat /\ es.finalized \in BOOLEAN
    /\ es.emitted = Len(es.enc_accum)
    /\ es.window_base <= es.stable_mel

\* However the audio was cut, the reference stream hands the adapter the frames
\* of the batch path's chunked encoder: every progressive prefix, complete chunk
\* and final chunk, run again or not, gave each frame once, from the same chunk,
\* truncation and position ("every emitted frame therefore matches batch").
ReferenceIsBatch ==
    status = "completed" /\ driving = "no" /\ samples > 0 =>
        ForAdapter(es.enc_accum) = ForAdapter(RunChunked(Len(pushed)))

\* The encoder never asks for Mel it has dropped, and its window stays below one
\* chunk between calls (encoder_stream_run_chunk's refusal, "bounded Mel window").
WindowFollows ==
    driving = "no" /\ status = "open" =>
        /\ es.stable_mel = enc_pushed_frames
        /\ es.window_base = ChunkStart
        /\ Len(es.mel_window) = Available
        /\ Len(es.mel_window) < ChunkMel

\* Running chunk 0 ahead costs at most three times what it covers ("a bounded
\* multiple of the chunk"), every later chunk is run once, and a stream is never
\* further behind its Mel than one stride, or in chunk 0 one interval and an
\* unfinished group.
WorkBounded ==
    driving = "no" /\ status = "open" =>
        IF es.cur_chunk = 0
        THEN /\ es.encoder_input_frames <= 3 * es.last_run_mel_end
             /\ es.stable_mel - 2 * es.emitted < PrefixInterval + Whole
        ELSE /\ es.encoder_input_frames <= (es.cur_chunk + 3) * ChunkMel
             /\ es.stable_mel - 2 * es.emitted < MelStride

\* The reference stream is the batch encoder run early: the same frames, from a
\* bounded window, with bounded work (encoder_stream_drive,
\* encoder_stream_run_chunk, run_encoder_chunked).
ReferenceReplaysBatch == ReferenceIsBatch /\ WindowFollows /\ WorkBounded
=============================================================================
