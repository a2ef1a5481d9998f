------------------------------ MODULE Pipeline ------------------------------
(***************************************************************************)
(* One voxtral_stream on one context, from Mel frames to decoder steps:    *)
(* feed and finish drain the frontend's frames into the encoder, the pump  *)
(* commits adapter groups and runs the decoder, reset starts the next      *)
(* stream on the same device rows, and warmup runs a stream of zeros       *)
(* through the same graphs first.                                          *)
(*                                                                         *)
(* A call runs in steps; pc says what the running call does next.  The     *)
(* event queue, which may stop the pump between two steps, is modelled in  *)
(* StreamRuntime; here it may stop it at any step.                         *)
(***************************************************************************)
EXTENDS DecoderKv

CONSTANTS
    LeftMel,     \* Mel frames of the injected left pad
    RightMel,    \* Mel frames of the injected right pad
    DrainSlice,  \* kMelDrainSlice
    FeedSizes,   \* bound: Mel frames one feed makes stable
    PromptLen,   \* prompt_ids.size()
    MaxStreams,  \* bound: streams on one context
    Faults       \* TRUE when backend calls may fail

ASSUME PipelineAssumption ==
    /\ PromptLen \in Nat \ {0, 1}
    /\ PromptLen - 1 <= DecCap
    /\ PromptLen <= AembCap
    /\ DrainSlice \in Nat \ {0} /\ FeedSizes \subseteq Nat \ {0}
    /\ LeftMel \in Nat \ {0} /\ RightMel \in Nat \ {0}
    /\ LeftMel % (2 * Group) = 0 /\ RightMel % (2 * Group) = 0

\* A feed is one drain slice of feed_common, and finish one flush: what either adds
\* to the rows held back before it fits the encoder-output ring, and before the
\* prefill the embedding ring together with the groups committed so far.
ASSUME ShortFeeds ==
    LET Rows(mel)  == (mel + 1) \div 2
        held_back  == (MaxNew - 1) + (Group - 1)
        Fit(rows)  == rows <= OutCap /\ (PromptLen - 2) * Group + rows <= AembCap * Group
    IN  /\ \A m \in FeedSizes : Fit(Rows(LeftMel + m)) /\ Fit(held_back + Rows(m))
        /\ Fit(held_back + Rows(2 * Group + RightMel))

\* The pads are long enough for the prefill, and the prompt for the startup block.
ASSUME PromptAssumption ==
    /\ (PromptLen - 1) * 2 * Group <= LeftMel + RightMel
    /\ MaxNew <= PromptLen * Group /\ PromptLen * Group <= OutCap

VARIABLES
    mel_total,   \* Mel frames the frontend has made stable
    committed,   \* decoder.adapter_groups_committed
    prefilled,   \* decoder.decoder_prefill_done
    position,    \* decoder.decoder_position
    paused,      \* events.decoder_backpressured
    pc,          \* what the running call does next
    call,        \* "feed", "finish", "resume" or "warmup"
    status,      \* "fresh", "open", "completed", "failed"
    warm         \* lifecycle.warmup_complete, or a warmup that failed

pipeVars == << mel_total, committed, prefilled, position, paused, pc, call,
               status, warm >>
vars == << encVars, decVars, pipeVars >>

FreshPipe ==
    /\ mel_total = 0 /\ committed = 0 /\ prefilled = FALSE /\ position = 0
    /\ paused = FALSE

Init ==
    /\ EncInit /\ DecInit /\ FreshPipe
    /\ pc = "idle" /\ call = "feed" /\ status = "fresh" /\ warm = "no"

\* Mel frames after the audio was padded to whole tokens and right-padded.
Padded(mel) == ((mel + 2 * Group) \div (2 * Group)) * 2 * Group + RightMel
Fits(mel)   == Padded(mel) <= MaxMel

Fail == /\ status' = "failed" /\ pc' = "idle"
        /\ UNCHANGED << mel_total, committed, prefilled, position, paused, call, warm >>

Goto(label) == /\ pc' = label
               /\ UNCHANGED << mel_total, committed, prefilled, position, paused, call,
                               status, warm >>

-----------------------------------------------------------------------------
(* The calls. *)

\* feed_common: the left pad goes in before the first sample; a frame is stable
\* once the samples after its centre are there, so the pad yields one frame less.
CallFeed(m) ==
    LET mel == mel_total + m + (IF mel_total = 0 THEN LeftMel - 1 ELSE 0)
    IN  /\ pc = "idle" /\ status \in {"fresh", "open"} /\ ~paused
        /\ Fits(mel)
        /\ mel_total' = mel
        /\ call' = "feed" /\ pc' = "drain" /\ status' = "open"
        /\ UNCHANGED << encVars, decVars, committed, prefilled, position, paused, warm >>

\* The resume at the start of feed and of finish.
CallResume ==
    /\ pc = "idle" /\ status = "open" /\ paused
    /\ call' = "resume" /\ pc' = "commit"
    /\ UNCHANGED << encVars, decVars, mel_total, committed, prefilled, position,
                    paused, status, warm >>

CallFinish ==
    /\ pc = "idle" /\ status = "open" /\ ~paused
    /\ mel_total' = Padded(mel_total)
    /\ call' = "finish" /\ pc' = "flush"
    /\ UNCHANGED << encVars, decVars, committed, prefilled, position, paused,
                    status, warm >>

\* voxtral_stream_reset: the device rows and the graphs stay.
CallReset ==
    /\ pc = "idle" /\ stream < MaxStreams
    /\ ResetEncoder /\ ResetDecoder
    /\ mel_total' = 0 /\ committed' = 0 /\ prefilled' = FALSE /\ position' = 0
    /\ paused' = FALSE /\ status' = "fresh"
    /\ UNCHANGED << pc, call, warm >>

\* drain_mel_to_encoder: slices of a fixed number of Mel frames ...
DrainOne ==
    /\ pc = "drain" /\ stable_mel < mel_total
    /\ PushMel(MinOf(DrainSlice, mel_total - stable_mel))
    /\ Goto("drive") /\ UNCHANGED decVars

\* Mutant of DrainFinal: the flushed frames go in as one ordinary slice.
DrainFinal_Slice ==
    /\ pc = "flush" /\ stable_mel < mel_total
    /\ PushMel(MinOf(DrainSlice, mel_total - stable_mel))
    /\ Goto("drive_final") /\ UNCHANGED decVars

\* ... and everything at once at the end.
DrainFinal ==
    /\ pc = "flush" /\ stable_mel < mel_total
    /\ PushMel(mel_total - stable_mel)
    /\ Goto("drive_final") /\ UNCHANGED decVars

AfterDrain ==
    /\ pc = "drain" /\ stable_mel = mel_total
    /\ Goto(IF incremental THEN "commit" ELSE "idle")
    /\ UNCHANGED << encVars, decVars >>

DriveOne ==
    /\ pc \in {"drive", "drive_final"}
    /\ Launch(pc = "drive_final")
    /\ UNCHANGED << decVars, pipeVars >>

\* An encoder error fails the stream; in a warmup the encoder is reset.
DriveFails ==
    /\ Faults /\ call # "warmup"
    /\ pc \in {"drive", "drive_final"}
    /\ LaunchFails(pc = "drive_final")
    /\ Fail /\ UNCHANGED decVars

\* The loop has nothing left: the next slice, or encoder_stream_finish and the
\* adapter over what it produced.
DriveEnds ==
    /\ NextLaunch(pc = "drive_final") = NoLaunch
    /\ \/ /\ pc = "drive" /\ call = "feed"
          /\ Goto("drain") /\ UNCHANGED << encVars, decVars >>
       \/ /\ pc = "drive_final" /\ incremental
          /\ FinishEncoder /\ Goto("commit") /\ UNCHANGED decVars
       \/ /\ pc = "drive_final" /\ ~incremental
          /\ FinishEncoder /\ UNCHANGED decVars
          /\ pc' = "idle" /\ status' = "completed"
          /\ UNCHANGED << mel_total, committed, prefilled, position, paused, call, warm >>

-----------------------------------------------------------------------------
(* pump_incremental. *)

\* Complete groups, throttled by the embeddings the decoder has consumed.
Committable ==
    MinOf(emitted \div Group, (IF prefilled THEN position ELSE 0) + AembCap)

\* One adapter graph of the commit: runs of the batch graph, then single groups.
CommitOne ==
    LET run == AdapterRun(Committable - committed)
    IN  /\ pc = "commit" /\ call # "warmup" /\ Committable > committed
        /\ AdapterGraph(committed, run)
        /\ committed' = committed + run
        /\ UNCHANGED << encVars, dec_ring, decoder_kv, attached, step_graph, mask_valid,
                        device_mask, decoded, mel_total, prefilled, position, paused,
                        pc, call, status, warm >>

BeginPrefill ==
    /\ pc = "commit" /\ call # "warmup" /\ Committable <= committed
    /\ ~prefilled /\ committed >= PromptLen - 1
    /\ BeginDecoder /\ pc' = "prefill"
    /\ UNCHANGED << encVars, mel_total, committed, prefilled, position, paused, call,
                    status, warm >>

RunPrefill ==
    /\ pc = "prefill"
    /\ Prefill(PromptLen - 1)
    /\ prefilled' = TRUE /\ position' = PromptLen - 1
    /\ pc' = "step"
    /\ UNCHANGED << encVars, mel_total, committed, paused, call, status, warm >>

CommitEnds ==
    /\ pc = "commit" /\ call # "warmup" /\ Committable <= committed
    /\ ~(~prefilled /\ committed >= PromptLen - 1)
    /\ Goto("step") /\ UNCHANGED << encVars, decVars >>

\* A token a full event queue refused: the position moves with its delivery.
FlushPending ==
    /\ pc = "step" /\ paused
    /\ \/ position' = position + 1 /\ paused' = FALSE /\ pc' = pc
       \/ pc' = "idle" /\ UNCHANGED << position, paused >>
    /\ UNCHANGED << encVars, decVars, mel_total, committed, prefilled, call, status,
                    warm >>

\* One decoder step; the event queue may refuse its token, except while finish
\* uses its terminal reserve.
StepOne ==
    /\ pc = "step" /\ call # "warmup" /\ ~paused
    /\ prefilled /\ position <= committed - 1
    /\ Step(position)
    /\ \/ position' = position + 1 /\ UNCHANGED << paused, pc >>
       \/ call # "finish" /\ paused' = TRUE /\ pc' = "idle" /\ UNCHANGED position
    /\ UNCHANGED << encVars, mel_total, committed, prefilled, call, status, warm >>

PumpEnds ==
    /\ pc = "step" /\ call # "warmup" /\ ~paused
    /\ ~(prefilled /\ position <= committed - 1)
    /\ pc' = "idle"
    /\ status' = IF call = "finish" THEN "completed" ELSE status
    /\ UNCHANGED << encVars, decVars, mel_total, committed, prefilled, position,
                    paused, call, warm >>

\* An adapter, prefill or step graph reports an error.
PumpFails ==
    /\ Faults /\ call # "warmup"
    /\ \/ /\ pc = "commit" /\ Committable > committed
          /\ \/ AdapterGraph(committed, AdapterRun(Committable - committed))
             \/ UNCHANGED audio_emb_ring
          /\ UNCHANGED << dec_ring, decoder_kv, attached, step_graph, mask_valid,
                          device_mask, decoded >>
       \/ /\ pc = "prefill"
          /\ dec_ring' \in {dec_ring, PrefillGraph(PromptLen - 1)}
          /\ UNCHANGED << audio_emb_ring, decoder_kv, attached, step_graph, mask_valid,
                          device_mask, decoded >>
       \/ /\ pc = "step" /\ ~paused
          /\ prefilled /\ position <= committed - 1
          /\ StepFails(position)
    /\ Fail /\ UNCHANGED encVars

-----------------------------------------------------------------------------
(* voxtral_encoder_stream_warmup: one pass of zeros through the graphs of the  *)
(* first decoder step, then everything is reset.                            *)

\* Mutant of CallWarmup: the rows of the prompt without its first step.
CallWarmup_Short ==
    /\ pc = "idle" /\ status = "fresh" /\ incremental
    /\ warm # "done" /\ stream < MaxStreams
    /\ PushMel((PromptLen - 1) * Group * 2)
    /\ call' = "warmup" /\ pc' = "drive"
    /\ UNCHANGED << decVars, mel_total, committed, prefilled, position, paused,
                    status, warm >>

CallWarmup ==
    /\ pc = "idle" /\ status = "fresh" /\ incremental
    /\ warm # "done" /\ stream < MaxStreams
    /\ PushMel(PromptLen * Group * 2)
    /\ call' = "warmup" /\ pc' = "drive"
    /\ UNCHANGED << decVars, mel_total, committed, prefilled, position, paused,
                    status, warm >>

WarmAdapter ==
    /\ call = "warmup" /\ pc = "drive"
    /\ NextLaunch(FALSE) = NoLaunch /\ emitted = PromptLen * Group
    /\ pc' = "commit"
    /\ UNCHANGED << encVars, decVars, mel_total, committed, prefilled, position,
                    paused, call, status, warm >>

WarmCommit ==
    LET run == AdapterRun(PromptLen - committed)
    IN  /\ call = "warmup" /\ pc = "commit" /\ committed < PromptLen
        /\ AdapterGraph(committed, run)
        /\ committed' = committed + run
        /\ UNCHANGED << encVars, dec_ring, decoder_kv, attached, step_graph, mask_valid,
                        device_mask, decoded, mel_total, prefilled, position, paused,
                        pc, call, status, warm >>

WarmBegin ==
    /\ call = "warmup" /\ pc = "commit" /\ committed = PromptLen
    /\ BeginDecoder /\ Goto("prefill") /\ UNCHANGED encVars

WarmStep ==
    /\ call = "warmup" /\ pc = "step" /\ position < PromptLen
    /\ Step(position)
    /\ position' = position + 1
    /\ UNCHANGED << encVars, mel_total, committed, prefilled, paused, pc, call,
                    status, warm >>

\* The counters the warmup keeps are locals of the call; the encoder and the
\* decoder are reset, after a failure too.
WarmEnds ==
    /\ call = "warmup"
    /\ \/ pc = "step" /\ position = PromptLen /\ warm' = "done"
       \/ /\ pc = "drive" /\ NextLaunch(FALSE) = NoLaunch
          /\ emitted # PromptLen * Group /\ warm' = "failed"
       \/ Faults /\ pc # "idle" /\ warm' = "error"
    /\ ResetEncoder /\ ResetDecoder
    /\ mel_total' = 0 /\ committed' = 0 /\ prefilled' = FALSE /\ position' = 0
    /\ pc' = "idle"
    /\ UNCHANGED << paused, call, status >>

Call  == (\E m \in FeedSizes : CallFeed(m)) \/ CallResume \/ CallFinish \/ CallReset
Drain == DrainOne \/ DrainFinal \/ AfterDrain \/ DriveOne \/ DriveFails \/ DriveEnds
Pump  == CommitOne \/ BeginPrefill \/ RunPrefill \/ CommitEnds \/ FlushPending
         \/ StepOne \/ PumpEnds \/ PumpFails
Warmup == CallWarmup \/ WarmAdapter \/ WarmCommit \/ WarmBegin \/ WarmStep \/ WarmEnds

Next == Call \/ Drain \/ Pump \/ Warmup

Spec == Init /\ [][Next]_vars

-----------------------------------------------------------------------------
(* Properties. *)

TypeOK ==
    /\ EncTypeOK /\ DecTypeOK
    /\ mel_total \in 0..MaxMel
    /\ committed \in Nat /\ position \in Nat
    /\ prefilled \in BOOLEAN /\ paused \in BOOLEAN
    /\ pc \in {"idle", "drain", "flush", "drive", "drive_final", "commit", "prefill", "step"}
    /\ call \in {"feed", "finish", "resume", "warmup"}
    /\ status \in {"fresh", "open", "completed", "failed"}
    /\ warm \in {"no", "done", "failed", "error"}

\* A stream that completes has every Mel frame in an encoder frame, every group
\* in an embedding and one decoder step for every embedding after the prompt
\* (finish only works on the tail, so anything skipped before is lost).
WholeAudioStepped ==
    status = "completed" =>
        /\ emitted = mel_total \div 2
        /\ incremental => /\ committed = emitted \div Group
                          /\ position = committed

\* The decoder's K/V span follows the scheduler's position: every position is
\* appended once, also when a token waits for the event queue
\* (decoder_position, voxtral_decoder_kv_plan).
StepsEachPositionOnce ==
    prefilled => decoder_kv.next = position + (IF paused THEN 1 ELSE 0)

\* No position is skipped or stepped twice on the way from the audio to the last
\* decoder step (drain_mel_to_encoder, pump_incremental, finish).
EverythingStepped == WholeAudioStepped /\ StepsEachPositionOnce

\* A warmup that meets no backend error reaches the first decoder step unless
\* the schedule's batches do not divide the rows after the startup block
\* (voxtral_encoder_stream_warmup's emitted == warm_encoder_rows).
WarmupGeometry ==
    warm = "failed" => (PromptLen * Group - MaxNew) % schedule.logical # 0
=============================================================================
