--------------------------- MODULE Pipeline_proofs ---------------------------
(***************************************************************************)
(* Proofs about a stream on its context, for every capacity, pad, slice,   *)
(* prompt and schedule that the assumptions allow.                         *)
(*                                                                         *)
(* First: the calls drive the encoder only in ways EncoderKv allows, and   *)
(* the decoder's K/V span follows the scheduler through feeds, stalls,     *)
(* failures, resets and warmups.                                           *)
(*                                                                         *)
(* Then: from the first feed to the end of finish no Mel frame, encoder    *)
(* row, adapter group or position is lost or read from the wrong slot,     *)
(* provided a feed of one slice fits the rings (ShortFeeds).               *)
(***************************************************************************)
EXTENDS Pipeline, EncoderKv_proofs

-----------------------------------------------------------------------------
(* The calls, the encoder and the K/V span: the inductive invariant. *)

\* The types of the counters and of the calls' state.
CallTypeOK ==
    /\ mel_total \in 0..MaxMel
    /\ committed \in Nat /\ position \in Nat
    /\ prefilled \in BOOLEAN /\ paused \in BOOLEAN
    /\ pc \in {"idle", "drain", "flush", "drive", "drive_final", "commit", "prefill", "step"}
    /\ call \in {"feed", "finish", "resume", "warmup"}
    /\ status \in {"fresh", "open", "completed", "failed"}
    /\ warm \in {"no", "done", "failed", "error"}

\* The audio of an open stream can still be padded; finish works on the padded one
\* and never leaves the stream open, or waiting for the event queue.
FinishRunsThrough ==
    /\ status = "open" /\ call # "finish" => Fits(mel_total)
    /\ status = "open" /\ call = "finish" =>
           ~paused /\ pc \in {"flush", "drive_final", "commit", "prefill", "step"}

\* A warmup and a prefill work on an empty K/V span of a fresh or an open stream.
PrefillsOnce ==
    /\ status = "fresh" => ~paused
    /\ status = "fresh" /\ pc = "idle" => ~prefilled
    /\ pc # "idle" => status = IF call = "warmup" THEN "fresh" ELSE "open"
    /\ call = "warmup" => pc \in {"idle", "drive", "commit", "prefill", "step"}
    /\ call = "warmup" /\ pc \in {"drive", "commit"} => ~prefilled
    /\ pc = "prefill" => ~prefilled /\ decoder_kv = EmptyKv
    /\ paused => prefilled
    /\ decoder_kv.oldest + decoder_kv.used = decoder_kv.next

\* The check of voxtral_decoder_kv_plan passes for every step the pump would take.
AppendsInOrder ==
    prefilled /\ ~paused => ValidAppend(position, 1)

PipeInv == /\ EncInv /\ TypeOK
           /\ FinishRunsThrough /\ PrefillsOnce /\ StepsEachPositionOnce

-----------------------------------------------------------------------------
(* Facts about the operators. *)

\* Padding adds the right pad, and at most a group of Mel frames more than that.
LEMMA PaddedProperty ==
    ASSUME NEW mel \in Nat
    PROVE  /\ Padded(mel) \in Nat
           /\ mel + RightMel < Padded(mel)
           /\ Padded(mel) <= mel + 2 * Group + RightMel
  <1> DEFINE a == mel + 2 * Group
             q == a \div (2 * Group)
  <1>1. Group \in Nat \ {0} /\ RightMel \in Nat /\ a \in Nat
    BY EncoderAssumption, PipelineAssumption
  <1>2. q \in Nat /\ a = (2 * Group) * q + (a % (2 * Group))
    <2> DEFINE k == 2 * Group
    <2>1. k \in Nat \ {0}
      BY <1>1
    <2> HIDE DEF k, a
    <2>2. a \div k \in Nat /\ a = k * (a \div k) + (a % k)
      BY <1>1, <2>1
    <2> QED  BY <2>2 DEF k
  <1>3. a % (2 * Group) \in 0..(2 * Group - 1)
    BY <1>1, ModProperty
  <1> HIDE DEF q
  <1>4. q * 2 * Group = (2 * Group) * q /\ (2 * Group) * q \in Nat
    BY <1>1, <1>2
  <1>5. Padded(mel) = (2 * Group) * q + RightMel
    BY <1>4 DEF Padded, q
  <1> DEFINE p == (2 * Group) * q
             r == a % (2 * Group)
  <1>6. p \in Nat /\ r \in 0..(2 * Group - 1) /\ a = p + r /\ Padded(mel) = p + RightMel
    BY <1>2, <1>3, <1>4, <1>5
  <1> HIDE DEF p, r
  <1> QED  BY <1>1, <1>6

\* Appending a plan keeps the span within the ring.
LEMMA CommitPlanProperty ==
    ASSUME DecTypeOK, NEW n \in Nat, decoder_kv.oldest + decoder_kv.used = decoder_kv.next,
           CommitPlan(n)
    PROVE  /\ decoder_kv' \in [used : 0..DecCap, oldest : Nat, next : Nat]
           /\ decoder_kv'.oldest + decoder_kv'.used = decoder_kv'.next
           /\ decoder_kv'.next = decoder_kv.next + n
  <1>1. /\ decoder_kv.used \in 0..DecCap /\ decoder_kv.oldest \in Nat
        /\ decoder_kv.next \in Nat /\ DecCap \in Nat
    BY DecoderAssumption DEF DecTypeOK
  <1>2. UsedAfter(n) \in 0..DecCap /\ UsedAfter(n) <= decoder_kv.next + n
    BY <1>1 DEF UsedAfter, MinOf
  <1>3. decoder_kv' = [used |-> UsedAfter(n), oldest |-> (decoder_kv.next + n) - UsedAfter(n),
                       next |-> decoder_kv.next + n]
    BY DEF CommitPlan
  <1> QED  BY <1>1, <1>2, <1>3

\* The mask of a step opens at most the whole ring.
LEMMA StepMaskProperty ==
    ASSUME DecTypeOK, NEW valid \in 0..DecCap
    PROVE  /\ StepMask(valid).graph \in {"none", "masked", "full"}
           /\ StepMask(valid).cached \in -1..DecCap
           /\ StepMask(valid).device \in -1..DecCap
  BY DecoderAssumption DEF DecTypeOK, StepMask, Unset

LEMMA UsedAfterProperty ==
    ASSUME DecTypeOK, NEW n \in Nat
    PROVE  UsedAfter(n) \in 0..DecCap
  BY DecoderAssumption DEF DecTypeOK, UsedAfter, MinOf

\* A prefill, a step and a step that fails keep the decoder's types.
LEMMA PrefillProperty ==
    ASSUME DecTypeOK, decoder_kv.oldest + decoder_kv.used = decoder_kv.next,
           NEW n \in Nat, Prefill(n)
    PROVE  DecTypeOK'
  <1>1. decoder_kv' \in [used : 0..DecCap, oldest : Nat, next : Nat]
    BY CommitPlanProperty DEF Prefill
  <1>2. DOMAIN dec_ring' = 0..(DecCap - 1)
    BY DEF Prefill, PrefillGraph
  <1> QED  BY <1>1, <1>2 DEF Prefill, DecTypeOK

LEMMA StepProperty ==
    ASSUME DecTypeOK, decoder_kv.oldest + decoder_kv.used = decoder_kv.next,
           NEW p, Step(p)
    PROVE  DecTypeOK'
  <1>1. decoder_kv' \in [used : 0..DecCap, oldest : Nat, next : Nat]
    BY CommitPlanProperty DEF Step
  <1>2. DOMAIN dec_ring' = 0..(DecCap - 1)
    BY DEF Step, WritePositions
  <1>3. /\ step_graph' = StepMask(UsedAfter(1)).graph
        /\ mask_valid' = StepMask(UsedAfter(1)).cached
        /\ device_mask' = StepMask(UsedAfter(1)).device
        /\ UNCHANGED << audio_emb_ring, attached >>
    BY DEF Step
  <1>4. UsedAfter(1) \in 0..DecCap
    BY UsedAfterProperty
  <1> QED  BY <1>1, <1>2, <1>3, <1>4, StepMaskProperty DEF DecTypeOK

LEMMA StepFailsProperty ==
    ASSUME DecTypeOK, NEW p, StepFails(p)
    PROVE  DecTypeOK'
  <1>1. DOMAIN dec_ring' = 0..(DecCap - 1)
    BY DEF StepFails, WritePositions, DecTypeOK
  <1>2. /\ step_graph' = StepMask(UsedAfter(1)).graph
        /\ mask_valid' = StepMask(UsedAfter(1)).cached
        /\ device_mask' = StepMask(UsedAfter(1)).device
        /\ UNCHANGED << audio_emb_ring, decoder_kv, attached >>
    BY DEF StepFails
  <1>3. UsedAfter(1) \in 0..DecCap
    BY UsedAfterProperty
  <1> QED  BY <1>1, <1>2, <1>3, StepMaskProperty DEF DecTypeOK

\* Clearing the K/V span keeps them too.
LEMMA ClearProperty ==
    ASSUME DecTypeOK, BeginDecoder \/ ResetDecoder
    PROVE  DecTypeOK'
  <1>1. DecCap \in Nat \ {0}
    BY DecoderAssumption
  <1>2. EmptyKv \in [used : 0..DecCap, oldest : Nat, next : Nat]
    BY <1>1 DEF EmptyKv
  <1>3. decoder_kv' = EmptyKv /\ mask_valid' = -1 /\ attached' \in BOOLEAN
        /\ UNCHANGED << audio_emb_ring, dec_ring, step_graph, device_mask >>
    BY DEF BeginDecoder, ResetDecoder, ClearKv
  <1>4. -1 \in -1..DecCap
    BY <1>1
  <1> QED  BY <1>2, <1>3, <1>4 DEF DecTypeOK

\* A push fits into one stream.
LEMMA PushMelSize ==
    ASSUME EncTypeOK, NEW n \in Int, PushMel(n)
    PROVE  \E m \in 1..MaxMel : PushMel(m)
  <1>1. n \in 1..MaxMel
    BY EncoderAssumption DEF EncTypeOK, PushMel
  <1> QED  BY <1>1

-----------------------------------------------------------------------------
(* Every step of a call keeps the invariant. *)

\* Every step of a call is a step of the encoder, or leaves it alone.
LEMMA EncoderStep ==
    ASSUME PipeInv, [Next]_vars
    PROVE  [EncNext]_encVars
  <1> USE DEF PipeInv
  <1>1. ASSUME NEW m \in FeedSizes, CallFeed(m)  PROVE [EncNext]_encVars
    BY <1>1 DEF CallFeed
  <1>2. ASSUME CallResume  PROVE [EncNext]_encVars
    BY <1>2 DEF CallResume
  <1>3. ASSUME CallFinish  PROVE [EncNext]_encVars
    BY <1>3 DEF CallFinish
  <1>4. ASSUME CallReset  PROVE [EncNext]_encVars
    BY <1>4 DEF CallReset, EncNext
  <1>5. ASSUME DrainOne  PROVE [EncNext]_encVars
    <2>1. EncTypeOK /\ PushMel(MinOf(DrainSlice, mel_total - stable_mel))
      BY <1>5 DEF DrainOne, TypeOK
    <2>2. MinOf(DrainSlice, mel_total - stable_mel) \in Int
      BY <1>5, EncoderAssumption, PipelineAssumption DEF DrainOne, TypeOK, EncTypeOK, MinOf
    <2> QED  BY <2>1, <2>2, PushMelSize DEF EncNext
  <1>6. ASSUME DrainFinal  PROVE [EncNext]_encVars
    <2>1. EncTypeOK /\ PushMel(mel_total - stable_mel)
      BY <1>6 DEF DrainFinal, TypeOK
    <2>2. mel_total - stable_mel \in Int
      BY <1>6, EncoderAssumption, PipelineAssumption DEF DrainFinal, TypeOK, EncTypeOK, MinOf
    <2> QED  BY <2>1, <2>2, PushMelSize DEF EncNext
  <1>7. ASSUME AfterDrain  PROVE [EncNext]_encVars
    BY <1>7 DEF AfterDrain
  <1>8. ASSUME DriveOne  PROVE [EncNext]_encVars
    BY <1>8 DEF DriveOne, EncNext
  <1>9. ASSUME DriveFails  PROVE [EncNext]_encVars
    BY <1>9 DEF DriveFails, EncNext
  <1>10. ASSUME DriveEnds  PROVE [EncNext]_encVars
    BY <1>10 DEF DriveEnds, EncNext
  <1>11. ASSUME CommitOne  PROVE [EncNext]_encVars
    BY <1>11 DEF CommitOne
  <1>12. ASSUME BeginPrefill  PROVE [EncNext]_encVars
    BY <1>12 DEF BeginPrefill
  <1>13. ASSUME RunPrefill  PROVE [EncNext]_encVars
    BY <1>13 DEF RunPrefill
  <1>14. ASSUME CommitEnds  PROVE [EncNext]_encVars
    BY <1>14 DEF CommitEnds
  <1>15. ASSUME FlushPending  PROVE [EncNext]_encVars
    BY <1>15 DEF FlushPending
  <1>16. ASSUME StepOne  PROVE [EncNext]_encVars
    BY <1>16 DEF StepOne
  <1>17. ASSUME PumpEnds  PROVE [EncNext]_encVars
    BY <1>17 DEF PumpEnds
  <1>18. ASSUME PumpFails  PROVE [EncNext]_encVars
    BY <1>18 DEF PumpFails
  <1>19. ASSUME CallWarmup  PROVE [EncNext]_encVars
    <2>1. EncTypeOK /\ PushMel(PromptLen * Group * 2)
      BY <1>19 DEF CallWarmup, TypeOK
    <2>2. PromptLen * Group * 2 \in Int
      BY <1>19, EncoderAssumption, PipelineAssumption DEF CallWarmup, TypeOK, EncTypeOK, MinOf
    <2> QED  BY <2>1, <2>2, PushMelSize DEF EncNext
  <1>20. ASSUME WarmAdapter  PROVE [EncNext]_encVars
    BY <1>20 DEF WarmAdapter
  <1>21. ASSUME WarmCommit  PROVE [EncNext]_encVars
    BY <1>21 DEF WarmCommit
  <1>22. ASSUME WarmBegin  PROVE [EncNext]_encVars
    BY <1>22 DEF WarmBegin
  <1>23. ASSUME WarmStep  PROVE [EncNext]_encVars
    BY <1>23 DEF WarmStep
  <1>24. ASSUME WarmEnds  PROVE [EncNext]_encVars
    BY <1>24 DEF WarmEnds, EncNext
  <1>25. ASSUME UNCHANGED vars  PROVE [EncNext]_encVars
    BY <1>25 DEF vars
  <1> QED
    BY <1>1, <1>2, <1>3, <1>4, <1>5, <1>6, <1>7, <1>8, <1>9, <1>10, <1>11, <1>12,
        <1>13, <1>14, <1>15, <1>16, <1>17, <1>18, <1>19, <1>20, <1>21, <1>22, <1>23,
        <1>24, <1>25 DEF Next, Call, Drain, Pump, Warmup

\* Every step keeps the types of the decoder's device state.
LEMMA DecoderStep ==
    ASSUME PipeInv, [Next]_vars
    PROVE  DecTypeOK'
  <1> USE DEF PipeInv, TypeOK, PrefillsOnce, decVars
  <1>1. ASSUME NEW m \in FeedSizes, CallFeed(m)  PROVE DecTypeOK'
    BY <1>1 DEF CallFeed, DecTypeOK
  <1>2. ASSUME CallResume  PROVE DecTypeOK'
    BY <1>2 DEF CallResume, DecTypeOK
  <1>3. ASSUME CallFinish  PROVE DecTypeOK'
    BY <1>3 DEF CallFinish, DecTypeOK
  <1>4. ASSUME CallReset  PROVE DecTypeOK'
    BY <1>4, ClearProperty DEF CallReset
  <1>5. ASSUME DrainOne  PROVE DecTypeOK'
    BY <1>5 DEF DrainOne, DecTypeOK, Goto
  <1>6. ASSUME DrainFinal  PROVE DecTypeOK'
    BY <1>6 DEF DrainFinal, DecTypeOK, Goto
  <1>7. ASSUME AfterDrain  PROVE DecTypeOK'
    BY <1>7 DEF AfterDrain, DecTypeOK, Goto
  <1>8. ASSUME DriveOne  PROVE DecTypeOK'
    BY <1>8 DEF DriveOne, DecTypeOK
  <1>9. ASSUME DriveFails  PROVE DecTypeOK'
    BY <1>9 DEF DriveFails, DecTypeOK, Fail
  <1>10. ASSUME DriveEnds  PROVE DecTypeOK'
    BY <1>10 DEF DriveEnds, DecTypeOK, Goto
  <1>11. ASSUME CommitOne  PROVE DecTypeOK'
    BY <1>11 DEF CommitOne, AdapterGraph, DecTypeOK
  <1>12. ASSUME BeginPrefill  PROVE DecTypeOK'
    BY <1>12, ClearProperty DEF BeginPrefill
  <1>13. ASSUME RunPrefill  PROVE DecTypeOK'
    <2>1. PromptLen - 1 \in Nat
      BY PipelineAssumption
    <2> QED  BY <1>13, <2>1, PrefillProperty DEF RunPrefill
  <1>14. ASSUME CommitEnds  PROVE DecTypeOK'
    BY <1>14 DEF CommitEnds, DecTypeOK, Goto
  <1>15. ASSUME FlushPending  PROVE DecTypeOK'
    BY <1>15 DEF FlushPending, DecTypeOK
  <1>16. ASSUME StepOne  PROVE DecTypeOK'
    BY <1>16, StepProperty DEF StepOne
  <1>17. ASSUME PumpEnds  PROVE DecTypeOK'
    BY <1>17 DEF PumpEnds, DecTypeOK
  <1>18. ASSUME PumpFails  PROVE DecTypeOK'
    <2>1. CASE \E p \in Nat : StepFails(p)
      BY <2>1, StepFailsProperty
    <2>2. CASE /\ DOMAIN audio_emb_ring' = 0..(AembCap - 1)
               /\ UNCHANGED << dec_ring, decoder_kv, attached, step_graph, mask_valid,
                               device_mask, decoded >>
      BY <2>2 DEF DecTypeOK
    <2>3. CASE /\ DOMAIN dec_ring' = 0..(DecCap - 1)
               /\ UNCHANGED << audio_emb_ring, decoder_kv, attached, step_graph,
                               mask_valid, device_mask, decoded >>
      BY <2>3 DEF DecTypeOK
    <2> QED  BY <1>18, <2>1, <2>2, <2>3 DEF PumpFails, AdapterGraph, PrefillGraph, DecTypeOK
  <1>19. ASSUME CallWarmup  PROVE DecTypeOK'
    BY <1>19 DEF CallWarmup, DecTypeOK
  <1>20. ASSUME WarmAdapter  PROVE DecTypeOK'
    BY <1>20 DEF WarmAdapter, DecTypeOK
  <1>21. ASSUME WarmCommit  PROVE DecTypeOK'
    BY <1>21 DEF WarmCommit, AdapterGraph, DecTypeOK
  <1>22. ASSUME WarmBegin  PROVE DecTypeOK'
    BY <1>22, ClearProperty DEF WarmBegin
  <1>23. ASSUME WarmStep  PROVE DecTypeOK'
    BY <1>23, StepProperty DEF WarmStep
  <1>24. ASSUME WarmEnds  PROVE DecTypeOK'
    BY <1>24, ClearProperty DEF WarmEnds
  <1>25. ASSUME UNCHANGED vars  PROVE DecTypeOK'
    BY <1>25 DEF vars, DecTypeOK
  <1> QED
    BY <1>1, <1>2, <1>3, <1>4, <1>5, <1>6, <1>7, <1>8, <1>9, <1>10, <1>11, <1>12,
        <1>13, <1>14, <1>15, <1>16, <1>17, <1>18, <1>19, <1>20, <1>21, <1>22, <1>23,
        <1>24, <1>25 DEF Next, Call, Drain, Pump, Warmup

\* Only finish pads, and it runs to the end of the stream or fails it.
LEMMA CallStep ==
    ASSUME PipeInv, [Next]_vars
    PROVE  FinishRunsThrough'
  <1> USE DEF PipeInv, TypeOK, FinishRunsThrough, PrefillsOnce, pipeVars
  <1>1. ASSUME NEW m \in FeedSizes, CallFeed(m)  PROVE FinishRunsThrough'
    BY <1>1 DEF CallFeed
  <1>2. ASSUME CallResume  PROVE FinishRunsThrough'
    BY <1>2 DEF CallResume
  <1>3. ASSUME CallFinish  PROVE FinishRunsThrough'
    BY <1>3 DEF CallFinish
  <1>4. ASSUME CallReset  PROVE FinishRunsThrough'
    BY <1>4 DEF CallReset
  <1>5. ASSUME DrainOne  PROVE FinishRunsThrough'
    BY <1>5 DEF DrainOne, Goto
  <1>6. ASSUME DrainFinal  PROVE FinishRunsThrough'
    BY <1>6 DEF DrainFinal, Goto
  <1>7. ASSUME AfterDrain  PROVE FinishRunsThrough'
    BY <1>7 DEF AfterDrain, Goto
  <1>8. ASSUME DriveOne  PROVE FinishRunsThrough'
    BY <1>8 DEF DriveOne
  <1>9. ASSUME DriveFails  PROVE FinishRunsThrough'
    BY <1>9 DEF DriveFails, Fail
  <1>10. ASSUME DriveEnds  PROVE FinishRunsThrough'
    BY <1>10 DEF DriveEnds, Goto
  <1>11. ASSUME CommitOne  PROVE FinishRunsThrough'
    BY <1>11 DEF CommitOne
  <1>12. ASSUME BeginPrefill  PROVE FinishRunsThrough'
    BY <1>12 DEF BeginPrefill
  <1>13. ASSUME RunPrefill  PROVE FinishRunsThrough'
    BY <1>13 DEF RunPrefill
  <1>14. ASSUME CommitEnds  PROVE FinishRunsThrough'
    BY <1>14 DEF CommitEnds, Goto
  <1>15. ASSUME FlushPending  PROVE FinishRunsThrough'
    BY <1>15 DEF FlushPending
  <1>16. ASSUME StepOne  PROVE FinishRunsThrough'
    BY <1>16 DEF StepOne
  <1>17. ASSUME PumpEnds  PROVE FinishRunsThrough'
    BY <1>17 DEF PumpEnds
  <1>18. ASSUME PumpFails  PROVE FinishRunsThrough'
    BY <1>18 DEF PumpFails, Fail
  <1>19. ASSUME CallWarmup  PROVE FinishRunsThrough'
    BY <1>19 DEF CallWarmup
  <1>20. ASSUME WarmAdapter  PROVE FinishRunsThrough'
    BY <1>20 DEF WarmAdapter
  <1>21. ASSUME WarmCommit  PROVE FinishRunsThrough'
    BY <1>21 DEF WarmCommit
  <1>22. ASSUME WarmBegin  PROVE FinishRunsThrough'
    BY <1>22 DEF WarmBegin, Goto
  <1>23. ASSUME WarmStep  PROVE FinishRunsThrough'
    BY <1>23 DEF WarmStep
  <1>24. ASSUME WarmEnds  PROVE FinishRunsThrough'
    BY <1>24 DEF WarmEnds
  <1>25. ASSUME UNCHANGED vars  PROVE FinishRunsThrough'
    BY <1>25 DEF vars
  <1> QED
    BY <1>1, <1>2, <1>3, <1>4, <1>5, <1>6, <1>7, <1>8, <1>9, <1>10, <1>11, <1>12,
        <1>13, <1>14, <1>15, <1>16, <1>17, <1>18, <1>19, <1>20, <1>21, <1>22, <1>23,
        <1>24, <1>25 DEF Next, Call, Drain, Pump, Warmup

\* And so do the counters and the state of the calls.
LEMMA TypeStep ==
    ASSUME PipeInv, [Next]_vars
    PROVE  CallTypeOK'
  <1> USE EncoderAssumption, DecoderAssumption, PipelineAssumption DEF PipeInv,
          TypeOK, CallTypeOK, pipeVars
  <1>1. ASSUME NEW m \in FeedSizes, CallFeed(m)  PROVE CallTypeOK'
    <2> DEFINE mel == mel_total + m + (IF mel_total = 0 THEN LeftMel - 1 ELSE 0)
    <2>1. mel \in Nat
      BY <1>1
    <2>2. mel_total' = mel /\ Fits(mel)
      BY <1>1 DEF CallFeed
    <2> HIDE DEF mel
    <2>3. mel_total' \in 0..MaxMel
      BY <2>1, <2>2, PaddedProperty DEF Fits
    <2> QED  BY <1>1, <2>3 DEF CallFeed
  <1>2. ASSUME CallResume  PROVE CallTypeOK'
    BY <1>2 DEF CallResume
  <1>3. ASSUME CallFinish  PROVE CallTypeOK'
    <2>1. mel_total' = Padded(mel_total) /\ Padded(mel_total) <= MaxMel
      BY <1>3 DEF CallFinish, FinishRunsThrough, Fits
    <2>2. mel_total' \in 0..MaxMel
      BY <2>1, PaddedProperty
    <2> QED  BY <1>3, <2>2 DEF CallFinish
  <1>4. ASSUME CallReset  PROVE CallTypeOK'
    <2>1. /\ mel_total' = 0 /\ committed' = 0 /\ position' = 0 /\ prefilled' \in BOOLEAN
          /\ paused' \in BOOLEAN /\ pc' = "idle" /\ call' = call
          /\ status' \in {"fresh", status} /\ warm' \in {"no", "done", "failed", "error", warm}
      BY <1>4 DEF CallReset
    <2>2. mel_total' \in 0..MaxMel /\ committed' \in Nat /\ position' \in Nat
      BY <2>1
    <2> QED  BY <2>1, <2>2
  <1>5. ASSUME DrainOne  PROVE CallTypeOK'
    BY <1>5 DEF DrainOne, Goto
  <1>6. ASSUME DrainFinal  PROVE CallTypeOK'
    BY <1>6 DEF DrainFinal, Goto
  <1>7. ASSUME AfterDrain  PROVE CallTypeOK'
    BY <1>7 DEF AfterDrain, Goto
  <1>8. ASSUME DriveOne  PROVE CallTypeOK'
    BY <1>8 DEF DriveOne
  <1>9. ASSUME DriveFails  PROVE CallTypeOK'
    BY <1>9 DEF DriveFails, Fail
  <1>10. ASSUME DriveEnds  PROVE CallTypeOK'
    BY <1>10 DEF DriveEnds, Goto
  <1>11. ASSUME CommitOne  PROVE CallTypeOK'
    <2>1. \A n : AdapterRun(n) \in Nat
      BY DEF AdapterRun
    <2> QED  BY <1>11, <2>1 DEF CommitOne
  <1>12. ASSUME BeginPrefill  PROVE CallTypeOK'
    BY <1>12 DEF BeginPrefill
  <1>13. ASSUME RunPrefill  PROVE CallTypeOK'
    BY <1>13 DEF RunPrefill
  <1>14. ASSUME CommitEnds  PROVE CallTypeOK'
    BY <1>14 DEF CommitEnds, Goto
  <1>15. ASSUME FlushPending  PROVE CallTypeOK'
    <2>1. position' \in Nat
      <3>1. position' = position + 1 \/ position' = position
        BY <1>15 DEF FlushPending
      <3> QED  BY <3>1
    <2>2. paused' \in BOOLEAN
      BY <1>15 DEF FlushPending
    <2>3. pc' \in {"idle", "step"} /\ UNCHANGED << mel_total, committed, prefilled, call,
                                                  status, warm >>
      BY <1>15 DEF FlushPending
    <2> QED  BY <2>1, <2>2, <2>3
  <1>16. ASSUME StepOne  PROVE CallTypeOK'
    <2>1. position' \in Nat
      BY <1>16 DEF StepOne
    <2>2. paused' \in BOOLEAN
      BY <1>16 DEF StepOne
    <2>3. pc' \in {"idle", "step"} /\ UNCHANGED << mel_total, committed, prefilled, call,
                                                  status, warm >>
      BY <1>16 DEF StepOne
    <2> QED  BY <2>1, <2>2, <2>3
  <1>17. ASSUME PumpEnds  PROVE CallTypeOK'
    BY <1>17 DEF PumpEnds
  <1>18. ASSUME PumpFails  PROVE CallTypeOK'
    BY <1>18 DEF PumpFails, Fail
  <1>19. ASSUME CallWarmup  PROVE CallTypeOK'
    BY <1>19 DEF CallWarmup
  <1>20. ASSUME WarmAdapter  PROVE CallTypeOK'
    BY <1>20 DEF WarmAdapter
  <1>21. ASSUME WarmCommit  PROVE CallTypeOK'
    <2>1. \A n : AdapterRun(n) \in Nat
      BY DEF AdapterRun
    <2> QED  BY <1>21, <2>1 DEF WarmCommit
  <1>22. ASSUME WarmBegin  PROVE CallTypeOK'
    BY <1>22 DEF WarmBegin, Goto
  <1>23. ASSUME WarmStep  PROVE CallTypeOK'
    BY <1>23 DEF WarmStep
  <1>24. ASSUME WarmEnds  PROVE CallTypeOK'
    <2>1. /\ mel_total' = 0 /\ committed' = 0 /\ position' = 0 /\ prefilled' \in BOOLEAN
          /\ paused' \in BOOLEAN /\ pc' = "idle" /\ call' = call
          /\ status' \in {"fresh", status} /\ warm' \in {"no", "done", "failed", "error", warm}
      BY <1>24 DEF WarmEnds
    <2>2. mel_total' \in 0..MaxMel /\ committed' \in Nat /\ position' \in Nat
      BY <2>1
    <2> QED  BY <2>1, <2>2
  <1>25. ASSUME UNCHANGED vars  PROVE CallTypeOK'
    BY <1>25 DEF vars
  <1> QED
    BY <1>1, <1>2, <1>3, <1>4, <1>5, <1>6, <1>7, <1>8, <1>9, <1>10, <1>11, <1>12,
        <1>13, <1>14, <1>15, <1>16, <1>17, <1>18, <1>19, <1>20, <1>21, <1>22, <1>23,
        <1>24, <1>25 DEF Next, Call, Drain, Pump, Warmup

\* The K/V span is cleared before a prefill and grows with the position.
LEMMA SpanStep ==
    ASSUME PipeInv, [Next]_vars
    PROVE  PrefillsOnce' /\ StepsEachPositionOnce'
  <1> USE PipelineAssumption DEF PipeInv, TypeOK, PrefillsOnce, StepsEachPositionOnce,
          FinishRunsThrough, EmptyKv, pipeVars, decVars
  <1>1. ASSUME NEW m \in FeedSizes, CallFeed(m)  PROVE PrefillsOnce' /\ StepsEachPositionOnce'
    BY <1>1 DEF CallFeed
  <1>2. ASSUME CallResume  PROVE PrefillsOnce' /\ StepsEachPositionOnce'
    BY <1>2 DEF CallResume
  <1>3. ASSUME CallFinish  PROVE PrefillsOnce' /\ StepsEachPositionOnce'
    BY <1>3 DEF CallFinish
  <1>4. ASSUME CallReset  PROVE PrefillsOnce' /\ StepsEachPositionOnce'
    BY <1>4 DEF CallReset, ResetDecoder, ClearKv
  <1>5. ASSUME DrainOne  PROVE PrefillsOnce' /\ StepsEachPositionOnce'
    BY <1>5 DEF DrainOne, Goto
  <1>6. ASSUME DrainFinal  PROVE PrefillsOnce' /\ StepsEachPositionOnce'
    BY <1>6 DEF DrainFinal, Goto
  <1>7. ASSUME AfterDrain  PROVE PrefillsOnce' /\ StepsEachPositionOnce'
    BY <1>7 DEF AfterDrain, Goto
  <1>8. ASSUME DriveOne  PROVE PrefillsOnce' /\ StepsEachPositionOnce'
    BY <1>8 DEF DriveOne
  <1>9. ASSUME DriveFails  PROVE PrefillsOnce' /\ StepsEachPositionOnce'
    BY <1>9 DEF DriveFails, Fail
  <1>10. ASSUME DriveEnds  PROVE PrefillsOnce' /\ StepsEachPositionOnce'
    BY <1>10 DEF DriveEnds, Goto
  <1>11. ASSUME CommitOne  PROVE PrefillsOnce' /\ StepsEachPositionOnce'
    BY <1>11 DEF CommitOne, AdapterGraph
  <1>12. ASSUME BeginPrefill  PROVE PrefillsOnce' /\ StepsEachPositionOnce'
    BY <1>12 DEF BeginPrefill, BeginDecoder, ClearKv
  <1>13. ASSUME RunPrefill  PROVE PrefillsOnce' /\ StepsEachPositionOnce'
    <2>1. decoder_kv'.oldest + decoder_kv'.used = decoder_kv'.next
          /\ decoder_kv'.next = decoder_kv.next + (PromptLen - 1)
      BY <1>13, CommitPlanProperty DEF RunPrefill, Prefill
    <2> QED  BY <1>13, <2>1 DEF RunPrefill
  <1>14. ASSUME CommitEnds  PROVE PrefillsOnce' /\ StepsEachPositionOnce'
    BY <1>14 DEF CommitEnds, Goto
  <1>15. ASSUME FlushPending  PROVE PrefillsOnce' /\ StepsEachPositionOnce'
    <2>1. /\ position \in Nat /\ decoder_kv.next \in Nat /\ prefilled /\ paused
          /\ pc = "step" /\ status # "fresh" /\ call # "warmup"
          /\ UNCHANGED << decoder_kv, prefilled, call, status >>
      BY <1>15 DEF FlushPending, DecTypeOK
    <2>2. CASE position' = position + 1 /\ paused' = FALSE /\ pc' = pc
      BY <2>1, <2>2
    <2>3. CASE pc' = "idle" /\ UNCHANGED << position, paused >>
      BY <2>1, <2>3
    <2> QED  BY <1>15, <2>2, <2>3 DEF FlushPending
  <1>16. ASSUME StepOne  PROVE PrefillsOnce' /\ StepsEachPositionOnce'
    <2>1. decoder_kv'.oldest + decoder_kv'.used = decoder_kv'.next
          /\ decoder_kv'.next = decoder_kv.next + 1
      BY <1>16, CommitPlanProperty DEF StepOne, Step
    <2> QED  BY <1>16, <2>1 DEF StepOne, DecTypeOK
  <1>17. ASSUME PumpEnds  PROVE PrefillsOnce' /\ StepsEachPositionOnce'
    BY <1>17 DEF PumpEnds
  <1>18. ASSUME PumpFails  PROVE PrefillsOnce' /\ StepsEachPositionOnce'
    BY <1>18 DEF PumpFails, Fail, AdapterGraph, StepFails
  <1>19. ASSUME CallWarmup  PROVE PrefillsOnce' /\ StepsEachPositionOnce'
    BY <1>19 DEF CallWarmup
  <1>20. ASSUME WarmAdapter  PROVE PrefillsOnce' /\ StepsEachPositionOnce'
    BY <1>20 DEF WarmAdapter
  <1>21. ASSUME WarmCommit  PROVE PrefillsOnce' /\ StepsEachPositionOnce'
    BY <1>21 DEF WarmCommit, AdapterGraph
  <1>22. ASSUME WarmBegin  PROVE PrefillsOnce' /\ StepsEachPositionOnce'
    BY <1>22 DEF WarmBegin, BeginDecoder, ClearKv, Goto
  <1>23. ASSUME WarmStep  PROVE PrefillsOnce' /\ StepsEachPositionOnce'
    <2>1. decoder_kv'.oldest + decoder_kv'.used = decoder_kv'.next
          /\ decoder_kv'.next = decoder_kv.next + 1
      BY <1>23, CommitPlanProperty DEF WarmStep, Step
    <2> QED  BY <1>23, <2>1 DEF WarmStep, DecTypeOK
  <1>24. ASSUME WarmEnds  PROVE PrefillsOnce' /\ StepsEachPositionOnce'
    <2>1. status = "fresh" /\ ~paused
      BY <1>24 DEF WarmEnds
    <2>2. /\ decoder_kv' = EmptyKv /\ position' = 0 /\ prefilled' = FALSE
          /\ pc' = "idle" /\ UNCHANGED << paused, call, status >>
      BY <1>24 DEF WarmEnds, ResetDecoder, ClearKv
    <2> QED  BY <2>1, <2>2
  <1>25. ASSUME UNCHANGED vars  PROVE PrefillsOnce' /\ StepsEachPositionOnce'
    BY <1>25 DEF vars
  <1> QED
    BY <1>1, <1>2, <1>3, <1>4, <1>5, <1>6, <1>7, <1>8, <1>9, <1>10, <1>11, <1>12,
        <1>13, <1>14, <1>15, <1>16, <1>17, <1>18, <1>19, <1>20, <1>21, <1>22, <1>23,
        <1>24, <1>25 DEF Next, Call, Drain, Pump, Warmup

\* Together: every step keeps the whole invariant.
LEMMA PipeStep ==
    ASSUME PipeInv, [Next]_vars
    PROVE  PipeInv'
  <1>1. EncInv'
    BY EncoderStep, EncStep DEF PipeInv
  <1>2. TypeOK'
    BY <1>1, DecoderStep, TypeStep DEF EncInv, TypeOK, CallTypeOK
  <1> QED  BY <1>1, <1>2, CallStep, SpanStep DEF PipeInv

\* The first state of a context satisfies it.
LEMMA PipeStart ==
    ASSUME Init
    PROVE  PipeInv
  <1>1. EncInv
    BY EncStart DEF Init
  <1>2. DecTypeOK
    <2>1. DecCap \in Nat \ {0} /\ EmptyKv \in [used : 0..DecCap, oldest : Nat, next : Nat]
      BY DecoderAssumption DEF EmptyKv
    <2>2. DOMAIN audio_emb_ring = 0..(AembCap - 1) /\ DOMAIN dec_ring = 0..(DecCap - 1)
      BY DEF Init, DecInit
    <2>3. decoder_kv = EmptyKv /\ attached \in BOOLEAN /\ step_graph = "none"
          /\ mask_valid = -1 /\ device_mask = -1
      BY DEF Init, DecInit, Unset
    <2>4. -1 \in -1..DecCap
      BY <2>1
    <2> QED  BY <2>1, <2>2, <2>3, <2>4 DEF DecTypeOK
  <1>3. MaxMel \in Nat
    BY EncoderAssumption
  <1>4. /\ mel_total = 0 /\ committed = 0 /\ position = 0 /\ ~prefilled /\ ~paused
        /\ prefilled \in BOOLEAN /\ paused \in BOOLEAN
        /\ pc = "idle" /\ call = "feed" /\ status = "fresh" /\ warm = "no"
        /\ decoder_kv = EmptyKv
    BY DEF Init, FreshPipe, DecInit
  <1>5. TypeOK
    <2>1. mel_total \in 0..MaxMel /\ committed \in Nat /\ position \in Nat
      BY <1>3, <1>4
    <2> QED  BY <1>1, <1>2, <1>4, <2>1 DEF EncInv, TypeOK
  <1> QED  BY <1>1, <1>4, <1>5
           DEF PipeInv, FinishRunsThrough, PrefillsOnce, StepsEachPositionOnce, EmptyKv

-----------------------------------------------------------------------------
(* The theorems about the calls. *)

\* The inductive invariant of calls, encoder and decoder.
THEOREM PipeInductive == Spec => []PipeInv
  BY PipeStart, PipeStep, PTL DEF Spec

\* The composition keeps the types of every part.
THEOREM PipeTypeCorrect == Spec => []TypeOK
  <1>1. PipeInv => TypeOK
    BY DEF PipeInv
  <1> QED  BY <1>1, PipeInductive, PTL

\* The calls of a stream are behaviours of the encoder: whatever feed, finish,
\* reset, warmup and failures do, the encoder moves by its own steps.
THEOREM CallsDriveEncoder == Spec => EncSpec
  <1>1. Init => EncInit
    BY DEF Init
  <1>2. PipeInv /\ [Next]_vars => [EncNext]_encVars
    BY EncoderStep
  <1> QED  BY <1>1, <1>2, PipeInductive, PTL DEF Spec, EncSpec

\* So no call ever meets a refusal of the encoder's own checks.
THEOREM PipeNeverRefused == Spec => []NeverRefused
  BY CallsDriveEncoder, EncNeverRefused, PTL

\* Whatever the calls do, the rows a launch attends to stay in the encoder's ring,
\* and every graph reads the keys and the frames of its own window.
THEOREM EncoderKeepsWithin == Spec => [](DeviceRowsKept /\ EncoderReadsRight)
  BY CallsDriveEncoder, EncRowsKept, EncReadsOwn, PTL

\* The decoder's K/V plan never refuses a step of the pump: its span ends at the
\* scheduler's position, after every stall, retry, failure, reset and warmup.
THEOREM DecoderNeverRefused == Spec => [](StepsEachPositionOnce /\ AppendsInOrder)
  <1>1. PipeInv => StepsEachPositionOnce /\ AppendsInOrder
    <2>1. DecCap \in Nat \ {0}
      BY DecoderAssumption
    <2>2. PipeInv /\ prefilled /\ ~paused => decoder_kv.next = position
      BY DEF PipeInv, StepsEachPositionOnce, TypeOK
    <2> QED  BY <2>1, <2>2
             DEF PipeInv, PrefillsOnce, StepsEachPositionOnce, AppendsInOrder, ValidAppend
  <1> QED  BY <1>1, PipeInductive, PTL

-----------------------------------------------------------------------------
(* The rings and what the steps read: the inductive invariant. *)

\* The audio the decoder has consumed (consumed_floor of pump_incremental).
Consumed == IF prefilled THEN position ELSE 0

\* Between two calls a stream has driven every Mel frame, and less than a startup
\* block of its rows is held back; at the end of finish none.
EncoderCaughtUp ==
    /\ status = "fresh" /\ pc = "idle" =>
           mel_total = 0 /\ stable_mel = 0 /\ committed = 0 /\ position = 0 /\ emitted = 0
    /\ status = "open" =>
           /\ call # "warmup" /\ mel_total >= LeftMel /\ stable_mel <= mel_total
           /\ pc \notin {"drain", "drive", "flush"} => stable_mel = mel_total
           /\ pc \notin {"drive", "drive_final"} => Realizable(stable_mel) < emitted + MaxNew
           /\ call = "finish" /\ pc \in {"commit", "prefill", "step"} =>
                  emitted = Realizable(stable_mel)
           /\ call = "finish" => LeftMel + RightMel <= mel_total

\* The adapter and the decoder follow: a pump commits every complete group, since
\* neither ring makes it wait, and decodes every committed group unless the event
\* queue is full.
PumpCaughtUp ==
    /\ pc \in {"commit", "prefill", "step"} \/ paused => incremental
    /\ incremental /\ status = "open" =>
           /\ position <= committed
           /\ prefilled => PromptLen - 1 <= position
           /\ ~prefilled => position = 0
           /\ paused => position < committed
           /\ committed * Group <= emitted
           /\ committed <= Consumed + AembCap
           /\ Realizable(mel_total) <= (Consumed + AembCap) * Group
           /\ Realizable(mel_total) <= committed * Group + OutCap
           /\ pc \in {"idle", "prefill", "step"} => emitted < (committed + 1) * Group
           /\ pc = "prefill" => PromptLen - 1 <= committed
           /\ pc \in {"idle", "step"} /\ ~prefilled => committed < PromptLen - 1
           /\ pc = "idle" /\ prefilled /\ ~paused => position = committed

\* A warmup commits and decodes exactly its own rows.
WarmupCounts ==
    call = "warmup" /\ pc # "idle" =>
        /\ incremental /\ ~paused /\ mel_total = 0
        /\ stable_mel = PromptLen * Group * 2
        /\ pc = "drive" => committed = 0
        /\ pc # "drive" => emitted = PromptLen * Group
        /\ pc \in {"drive", "commit", "prefill"} => position = 0
        /\ pc = "commit" => committed <= PromptLen
        /\ pc \in {"prefill", "step"} => committed = PromptLen
        /\ pc = "step" => prefilled /\ position \in {PromptLen - 1, PromptLen}

\* The decoder's key and value of a position.
Entry(p) == [audio |-> GroupRows(p), pos |-> p]

\* The encoder-output ring holds the newest rows, the embedding ring every group the
\* decoder still has to read, the K/V ring the span.
RowsInRing   == \A p \in MaxOf(0, emitted - OutCap)..(emitted - 1) :
                    enc_out_ring[p % OutCap] = Row(p)
GroupsInRing == \A g \in Consumed..(committed - 1) : audio_emb_ring[g % AembCap] = GroupRows(g)
KeysInRing   == \A p \in decoder_kv.oldest..(decoder_kv.next - 1) : dec_ring[p % DecCap] = Entry(p)

\* Every ring of a stream that has not failed holds what its reader will ask for.
RingsHold ==
    incremental /\ status \in {"fresh", "open"} => RowsInRing /\ GroupsInRing /\ KeysInRing

\* The host's idea of the uploaded mask is what the device holds, and the span is
\* as long as the ring allows.
MaskIsDevices ==
    /\ mask_valid # -1 => device_mask = mask_valid
    /\ decoder_kv.used = MinOf(DecCap, decoder_kv.next)

\* A stream whose finish has not begun.
BeforeFinish ==
    status \in {"fresh", "open"} /\ ~(status = "open" /\ call = "finish")

\* Until then a stream is at the head of the one graph sequence.
AtCanonicalHead ==
    BeforeFinish => emitted = IF launched = << >> THEN 0
                              ELSE MaxNew + (Len(launched) - 1) * schedule.logical

FlowCounts == PipeInv /\ EncoderCaughtUp /\ PumpCaughtUp /\ WarmupCounts

-----------------------------------------------------------------------------
(* Arithmetic of groups and Mel frames. *)

\* Multiplying by a group keeps the order.
LEMMA TimesMonotone ==
    ASSUME NEW n \in Nat, NEW a \in Int, NEW b \in Int, a <= b
    PROVE  a * n <= b * n
  <1>1. PICK d \in Nat : b = a + d
    <2>1. b - a \in Nat /\ b = a + (b - a)
      OBVIOUS
    <2> QED  BY <2>1
  <1>2. b * n = a * n + d * n /\ d * n \in Nat /\ a * n \in Int
    BY <1>1
  <1> QED  BY <1>2

\* The complete groups of a number of rows.
LEMMA GroupsProperty ==
    ASSUME NEW e \in Nat
    PROVE  /\ e \div Group \in Nat
           /\ (e \div Group) * Group <= e
           /\ e < (e \div Group + 1) * Group
  <1>1. Group \in Nat \ {0}
    BY EncoderAssumption
  <1>2. e \div Group \in Nat /\ e = (e \div Group) * Group + (e % Group)
    BY <1>1, SMTT(60)
  <1>3. e % Group \in 0..(Group - 1)
    BY <1>1, ModProperty
  <1> DEFINE g == e \div Group
             r == e % Group
             p == g * Group
  <1>4. (g + 1) * Group = p + Group /\ p \in Int
    BY <1>1, <1>2
  <1>5. e = p + r /\ r \in 0..(Group - 1) /\ g \in Nat
    BY <1>2, <1>3
  <1> HIDE DEF g, r, p
  <1>6. p <= e /\ e < p + Group
    BY <1>1, <1>4, <1>5
  <1> QED  BY <1>4, <1>5, <1>6 DEF g, p

\* Rows between two multiples of a group make that many complete groups.
LEMMA GroupsUnique ==
    ASSUME NEW e \in Nat, NEW c \in Nat, c * Group <= e, e < (c + 1) * Group
    PROVE  e \div Group = c
  <1>1. Group \in Nat \ {0}
    BY EncoderAssumption
  <1> DEFINE g == e \div Group
  <1>2. g \in Nat /\ g * Group <= e /\ e < (g + 1) * Group
    BY GroupsProperty
  <1> HIDE DEF g
  <1>3. g + 1 <= c => (g + 1) * Group <= c * Group
    BY <1>1, <1>2, TimesMonotone
  <1>4. c + 1 <= g => (c + 1) * Group <= g * Group
    BY <1>1, <1>2, TimesMonotone
  <1>5. /\ g * Group \in Int /\ (g + 1) * Group \in Int
        /\ c * Group \in Int /\ (c + 1) * Group \in Int
    BY <1>1, <1>2
  <1>6. ~(g + 1 <= c) /\ ~(c + 1 <= g)
    BY <1>2, <1>3, <1>4, <1>5
  <1>7. g = c
    BY <1>2, <1>6
  <1> QED  BY <1>7 DEF g

\* What new Mel frames add to the realizable rows.
LEMMA RealizableSum ==
    ASSUME NEW m \in Nat, NEW n \in Nat
    PROVE  /\ Realizable(m + n) \in Nat
           /\ Realizable(m + n) <= Realizable(m) + (n + 1) \div 2
           /\ Realizable(m) <= Realizable(m + n)
           /\ Realizable(2 * m) = m
           /\ Realizable(n) = n \div 2
           /\ Realizable(n) <= (n + 1) \div 2
  BY DEF Realizable

-----------------------------------------------------------------------------
(* The encoder between two launches. *)

\* The drive loop stops with less than a startup block left, at the end of the
\* audio with nothing left (encoder_kv_drive).
LEMMA DriveStops ==
    ASSUME EncInv, NEW final \in BOOLEAN, NextLaunch(final) = NoLaunch
    PROVE  /\ Realizable(stable_mel) < emitted + MaxNew
           /\ final => emitted = Realizable(stable_mel)
  <1> DEFINE rem      == Realizable(stable_mel) - emitted
             terminal == final /\ incremental
             physical == IF terminal THEN finish_physical ELSE schedule.physical
             logical  == IF terminal THEN finish_physical ELSE schedule.logical
             room     == physical - (emitted % physical)
  <1>0. /\ finish_physical \in 1..MaxNew /\ schedule.physical \in 1..MaxNew
        /\ schedule.logical \in 1..MaxNew /\ MaxNew \in Nat \ {0}
    BY EncoderAssumption DEF EncInv, EncTypeOK
  <1>1. /\ rem \in Nat /\ emitted \in Nat /\ Realizable(stable_mel) \in Nat
        /\ physical \in 1..MaxNew /\ logical \in 1..MaxNew
    <2>1. emitted \in Nat /\ stable_mel \in Nat /\ emitted <= Realizable(stable_mel)
      BY EncoderAssumption DEF EncInv, EncTypeOK, TailFollowsHead
    <2> QED  BY <1>0, <2>1, RealizableProperty
  <1>2. CASE rem = 0
    BY <1>0, <1>1, <1>2
  <1>3. CASE rem > 0 /\ Startup(final)
    <2>1. rem < MaxNew
      <3>1. rem >= MaxNew => NextLaunch(final).n = MaxNew
        BY <1>0, <1>1, <1>3 DEF NextLaunch
      <3> QED  BY <1>0, <1>1, <3>1 DEF NoLaunch
    <2>2. ~final
      BY <1>0, <1>1, <1>3, <2>1 DEF Startup
    <2> QED  BY <1>0, <1>1, <2>1, <2>2
  <1>4. CASE rem > 0 /\ ~Startup(final)
    <2>1. ~final /\ rem < schedule.logical
      <3> SUFFICES ASSUME ~(~final /\ rem < schedule.logical)  PROVE FALSE
        OBVIOUS
      <3>1. NextLaunch(final).n = MinOf(MinOf(logical, room), rem)
        BY <1>1, <1>4 DEF NextLaunch
      <3>2. emitted % physical \in 0..(physical - 1)
        <4> HIDE DEF physical
        <4>1. physical \in Nat \ {0} /\ emitted \in Int
          BY <1>1
        <4> QED  BY <4>1, ModProperty
      <3>3. MinOf(MinOf(logical, room), rem) >= 1
        <4> HIDE DEF physical, logical, rem
        <4> QED  BY <1>0, <1>1, <1>4, <3>2 DEF MinOf
      <3> QED  BY <3>1, <3>3 DEF NoLaunch
    <2> QED  BY <1>0, <1>1, <2>1
  <1> QED  BY <1>1, <1>2, <1>3, <1>4

\* Every Mel frame is driven before a call ends.
LEMMA CaughtUpStep ==
    ASSUME FlowCounts, [Next]_vars
    PROVE  EncoderCaughtUp'
  <1>0. /\ emitted \in Nat /\ stable_mel \in Nat /\ mel_total \in Nat /\ MaxNew \in Nat \ {0}
        /\ LeftMel \in Nat \ {0} /\ RightMel \in Nat \ {0} /\ DrainSlice \in Nat \ {0}
        /\ Realizable(stable_mel) \in Nat /\ FeedSizes \subseteq Nat \ {0}
    <2>1. emitted \in Nat /\ stable_mel \in Nat /\ mel_total \in Nat
      BY EncoderAssumption DEF FlowCounts, PipeInv, TypeOK, EncTypeOK
    <2> QED  BY <2>1, EncoderAssumption, PipelineAssumption, RealizableProperty
  <1> USE DEF FlowCounts, PipeInv, EncoderCaughtUp, pipeVars, encVars, encCounts
  <1>1. ASSUME NEW m \in FeedSizes, CallFeed(m)  PROVE EncoderCaughtUp'
    <2>1. /\ Realizable(stable_mel) < emitted + MaxNew /\ stable_mel = mel_total
          /\ status = "open" => LeftMel <= mel_total
          /\ status = "fresh" => mel_total = 0
      <3>1. status = "fresh" => emitted = 0 /\ stable_mel = 0 /\ Realizable(0) = 0
        BY <1>1 DEF CallFeed, Realizable
      <3> QED  BY <1>1, <1>0, <3>1 DEF CallFeed
    <2>2. mel_total' >= LeftMel /\ mel_total <= mel_total'
      BY <1>1, <1>0, <2>1 DEF CallFeed
    <2>3. UNCHANGED << stable_mel, emitted >> /\ status' = "open" /\ call' = "feed"
          /\ pc' = "drain"
      BY <1>1 DEF CallFeed
    <2> QED  BY <1>0, <2>1, <2>2, <2>3
  <1>2. ASSUME CallResume  PROVE EncoderCaughtUp'
    BY <1>2, <1>0 DEF CallResume
  <1>3. ASSUME CallFinish  PROVE EncoderCaughtUp'
    <2>1. /\ mel_total' = Padded(mel_total) /\ status' = "open" /\ call' = "finish"
          /\ pc' = "flush" /\ UNCHANGED << stable_mel, emitted >>
      BY <1>3 DEF CallFinish
    <2>2. mel_total' \in Nat /\ mel_total + RightMel < mel_total'
      BY <1>0, <2>1, PaddedProperty
    <2> QED  BY <1>3, <1>0, <2>1, <2>2 DEF CallFinish
  <1>4. ASSUME CallReset  PROVE EncoderCaughtUp'
    BY <1>4 DEF CallReset, ResetEncoder
  <1>5. ASSUME DrainOne  PROVE EncoderCaughtUp'
    <2>1. /\ stable_mel' = stable_mel + MinOf(DrainSlice, mel_total - stable_mel)
          /\ emitted' = emitted /\ stable_mel < mel_total
      BY <1>5 DEF DrainOne, PushMel
    <2>2. stable_mel' <= mel_total
      BY <1>0, <2>1 DEF MinOf
    <2> QED  BY <1>5, <1>0, <2>1, <2>2 DEF DrainOne, Goto
  <1>6. ASSUME DrainFinal  PROVE EncoderCaughtUp'
    <2>1. /\ stable_mel' = stable_mel + (mel_total - stable_mel)
          /\ emitted' = emitted
      BY <1>6 DEF DrainFinal, PushMel
    <2>2. stable_mel' = mel_total
      BY <1>0, <2>1
    <2> QED  BY <1>6, <1>0, <2>1, <2>2 DEF DrainFinal, Goto
  <1>7. ASSUME AfterDrain  PROVE EncoderCaughtUp'
    BY <1>7, <1>0 DEF AfterDrain, Goto, PrefillsOnce, FinishRunsThrough
  <1>8. ASSUME DriveOne  PROVE EncoderCaughtUp'
    <2>1. stable_mel' = stable_mel
      BY <1>8 DEF DriveOne, Launch
    <2> QED  BY <1>8, <1>0, <2>1 DEF DriveOne
  <1>9. ASSUME DriveFails  PROVE EncoderCaughtUp'
    BY <1>9, <1>0 DEF DriveFails, Fail
  <1>10. ASSUME DriveEnds  PROVE EncoderCaughtUp'
    <2>1. stable_mel' = stable_mel /\ emitted' = emitted
      BY <1>10 DEF DriveEnds, FinishEncoder
    <2>2. /\ Realizable(stable_mel) < emitted + MaxNew
          /\ pc = "drive_final" => emitted = Realizable(stable_mel)
      BY <1>10, DriveStops DEF DriveEnds
    <2> QED  BY <1>10, <1>0, <2>1, <2>2 DEF DriveEnds, Goto
  <1>11. ASSUME CommitOne  PROVE EncoderCaughtUp'
    BY <1>11, <1>0 DEF CommitOne
  <1>12. ASSUME BeginPrefill  PROVE EncoderCaughtUp'
    BY <1>12, <1>0 DEF BeginPrefill
  <1>13. ASSUME RunPrefill  PROVE EncoderCaughtUp'
    BY <1>13, <1>0 DEF RunPrefill
  <1>14. ASSUME CommitEnds  PROVE EncoderCaughtUp'
    BY <1>14, <1>0 DEF CommitEnds, Goto
  <1>15. ASSUME FlushPending  PROVE EncoderCaughtUp'
    BY <1>15, <1>0 DEF FlushPending, PrefillsOnce, FinishRunsThrough
  <1>16. ASSUME StepOne  PROVE EncoderCaughtUp'
    BY <1>16, <1>0 DEF StepOne, PrefillsOnce, FinishRunsThrough
  <1>17. ASSUME PumpEnds  PROVE EncoderCaughtUp'
    BY <1>17, <1>0 DEF PumpEnds, PrefillsOnce, FinishRunsThrough
  <1>18. ASSUME PumpFails  PROVE EncoderCaughtUp'
    BY <1>18, <1>0 DEF PumpFails, Fail
  <1>19. ASSUME CallWarmup  PROVE EncoderCaughtUp'
    BY <1>19, <1>0 DEF CallWarmup, PrefillsOnce
  <1>20. ASSUME WarmAdapter  PROVE EncoderCaughtUp'
    BY <1>20, <1>0 DEF WarmAdapter, PrefillsOnce, FinishRunsThrough
  <1>21. ASSUME WarmCommit  PROVE EncoderCaughtUp'
    BY <1>21, <1>0 DEF WarmCommit, PrefillsOnce, FinishRunsThrough
  <1>22. ASSUME WarmBegin  PROVE EncoderCaughtUp'
    BY <1>22, <1>0 DEF WarmBegin, Goto, PrefillsOnce, FinishRunsThrough
  <1>23. ASSUME WarmStep  PROVE EncoderCaughtUp'
    BY <1>23, <1>0 DEF WarmStep, PrefillsOnce, FinishRunsThrough
  <1>24. ASSUME WarmEnds  PROVE EncoderCaughtUp'
    <2>1. status = "fresh" /\ status' = status /\ pc' = "idle"
      BY <1>24 DEF WarmEnds, PrefillsOnce
    <2>2. /\ mel_total' = 0 /\ stable_mel' = 0 /\ committed' = 0 /\ position' = 0
          /\ emitted' = 0
      BY <1>24 DEF WarmEnds, ResetEncoder
    <2> QED  BY <2>1, <2>2
  <1>25. ASSUME UNCHANGED vars  PROVE EncoderCaughtUp'
    BY <1>25, <1>0 DEF vars
  <1> QED
    BY <1>1, <1>2, <1>3, <1>4, <1>5, <1>6, <1>7, <1>8, <1>9, <1>10, <1>11, <1>12,
        <1>13, <1>14, <1>15, <1>16, <1>17, <1>18, <1>19, <1>20, <1>21, <1>22, <1>23,
        <1>24, <1>25 DEF Next, Call, Drain, Pump, Warmup

-----------------------------------------------------------------------------
(* The pump between two graphs. *)

\* The types of the counters.
LEMMA FlowTypes ==
    ASSUME FlowCounts
    PROVE  /\ emitted \in Nat /\ stable_mel \in Nat /\ mel_total \in Nat
           /\ committed \in Nat /\ position \in Nat /\ Consumed \in Nat
           /\ prefilled \in BOOLEAN /\ paused \in BOOLEAN /\ incremental \in BOOLEAN
           /\ Realizable(stable_mel) \in Nat /\ Realizable(mel_total) \in Nat
           /\ emitted <= Realizable(stable_mel)
           /\ MaxNew \in Nat \ {0} /\ Group \in Nat \ {0}
           /\ PromptLen \in Nat /\ PromptLen >= 2 /\ PromptLen - 2 \in Nat
           /\ AembCap \in Nat \ {0} /\ OutCap \in Nat \ {0} /\ DecCap \in Nat \ {0}
           /\ LeftMel \in Nat \ {0} /\ RightMel \in Nat \ {0}
           /\ FeedSizes \subseteq Nat \ {0}
  <1>1. /\ emitted \in Nat /\ stable_mel \in Nat /\ mel_total \in Nat
        /\ committed \in Nat /\ position \in Nat
        /\ prefilled \in BOOLEAN /\ paused \in BOOLEAN /\ incremental \in BOOLEAN
        /\ emitted <= Realizable(stable_mel)
    BY EncoderAssumption DEF FlowCounts, PipeInv, EncInv, TypeOK, EncTypeOK, TailFollowsHead
  <1>2. Group \in Nat \ {0}
    BY EncoderAssumption
  <1>3. Realizable(stable_mel) \in Nat /\ Realizable(mel_total) \in Nat
    BY <1>1, RealizableProperty
  <1>4. PromptLen \in Nat /\ PromptLen >= 2 /\ PromptLen - 2 \in Nat
    BY PipelineAssumption
  <1> QED  BY <1>1, <1>2, <1>3, <1>4, EncoderAssumption, DecoderAssumption,
              PipelineAssumption DEF Consumed

\* Between two calls less than a group and a startup block are held back.
LEMMA HeldBack ==
    ASSUME FlowCounts, incremental, status = "open", pc = "idle"
    PROVE  Realizable(mel_total) <= committed * Group + ((MaxNew - 1) + (Group - 1))
  <1> DEFINE c == committed * Group
  <1>1. (committed + 1) * Group = c + Group /\ c \in Nat
    BY FlowTypes
  <1>2. /\ Realizable(mel_total) < emitted + MaxNew
        /\ emitted < (committed + 1) * Group
    BY DEF FlowCounts, EncoderCaughtUp, PumpCaughtUp
  <1> HIDE DEF c
  <1> QED  BY <1>1, <1>2, FlowTypes DEF c

\* So what one call adds fits both rings.
LEMMA NewAudioFits ==
    ASSUME FlowCounts, incremental, pc = "idle", status \in {"fresh", "open"}, ~paused,
           NEW mel \in Nat, NEW rows \in Nat, rows <= OutCap,
           (PromptLen - 2) * Group + rows <= AembCap * Group,
           Realizable(mel) <= committed * Group + rows
    PROVE  /\ Realizable(mel) <= (Consumed + AembCap) * Group
           /\ Realizable(mel) <= committed * Group + OutCap
  <1> DEFINE c == committed * Group
             a == AembCap * Group
             p == (PromptLen - 2) * Group
             k == Consumed * Group
  <1>1. /\ (Consumed + AembCap) * Group = k + a
        /\ c \in Nat /\ a \in Nat /\ p \in Nat /\ k \in Nat /\ Realizable(mel) \in Nat
    <2>1. PromptLen - 2 \in Nat
      BY FlowTypes
    <2> QED  BY <2>1, FlowTypes, RealizableProperty
  <1>2. c <= k + p
    <2>1. CASE prefilled
      <3>1. status = "open"
        BY <2>1 DEF FlowCounts, PipeInv, PrefillsOnce
      <3>2. Consumed = committed
        BY <2>1, <3>1 DEF FlowCounts, PumpCaughtUp, Consumed
      <3> HIDE DEF p
      <3> QED  BY <1>1, <3>2
    <2>2. CASE ~prefilled
      <3>1. committed <= PromptLen - 2
        BY <2>2, FlowTypes DEF FlowCounts, PumpCaughtUp, EncoderCaughtUp
      <3>2. PromptLen - 2 \in Int
        BY FlowTypes
      <3>3. c <= p
        BY <3>1, <3>2, FlowTypes, TimesMonotone
      <3> HIDE DEF p, c, k
      <3> QED  BY <1>1, <3>3
    <2> QED  BY <2>1, <2>2
  <1>3. p + rows <= a /\ Realizable(mel) <= c + rows
    OBVIOUS
  <1> HIDE DEF c, a, p, k
  <1>4. Realizable(mel) <= k + a /\ Realizable(mel) <= c + OutCap
    BY <1>1, <1>2, <1>3, FlowTypes
  <1> QED  BY <1>1, <1>4 DEF c

\* The first feed with its left pad, and every later one.
LEMMA FeedFits ==
    ASSUME FlowCounts, incremental, NEW m \in FeedSizes, CallFeed(m)
    PROVE  /\ Realizable(mel_total') <= (Consumed + AembCap) * Group
           /\ Realizable(mel_total') <= committed * Group + OutCap
           /\ mel_total' \in Nat
  <1>1. m \in Nat \ {0} /\ pc = "idle" /\ status \in {"fresh", "open"} /\ ~paused
    BY FlowTypes DEF CallFeed
  <1>2. CASE mel_total = 0
    <2> DEFINE rows == (LeftMel + m + 1) \div 2
    <2>1. /\ rows \in Nat /\ rows <= OutCap
          /\ (PromptLen - 2) * Group + rows <= AembCap * Group
      BY <1>1, FlowTypes, ShortFeeds
    <2>2. mel_total' = m + (LeftMel - 1) /\ mel_total' \in Nat
      BY <1>1, <1>2, FlowTypes DEF CallFeed
    <2>3. committed = 0
      BY <1>1, <1>2, FlowTypes DEF FlowCounts, EncoderCaughtUp
    <2>4. Realizable(mel_total') <= rows
      BY <1>1, <2>2, FlowTypes DEF Realizable
    <2> HIDE DEF rows
    <2>5. Realizable(mel_total') <= committed * Group + rows
      BY <2>1, <2>3, <2>4, FlowTypes
    <2> QED  BY <1>1, <2>1, <2>2, <2>5, NewAudioFits
  <1>3. CASE mel_total # 0
    <2> DEFINE extra == (m + 1) \div 2
               back  == (MaxNew - 1) + (Group - 1)
               rows  == back + extra
    <2>1. /\ extra \in Nat /\ back \in Nat /\ rows \in Nat /\ rows <= OutCap
          /\ (PromptLen - 2) * Group + rows <= AembCap * Group
      BY <1>1, FlowTypes, ShortFeeds
    <2>2. mel_total' = mel_total + m /\ mel_total' \in Nat
      BY <1>1, <1>3, FlowTypes DEF CallFeed
    <2>3. Realizable(mel_total') <= Realizable(mel_total) + extra
      BY <1>1, <2>2, FlowTypes, RealizableSum
    <2>4. status = "open"
      BY <1>1, <1>3 DEF FlowCounts, EncoderCaughtUp
    <2>5. Realizable(mel_total) <= committed * Group + back
      BY <1>1, <2>4, HeldBack
    <2>6. Realizable(mel_total') <= committed * Group + rows
      <3> DEFINE c == committed * Group
      <3>1. c \in Nat /\ Realizable(mel_total') \in Nat
        BY <2>2, FlowTypes, RealizableProperty
      <3>2. Realizable(mel_total) <= c + back
        BY <2>5
      <3> HIDE DEF c, extra, back
      <3> QED  BY <2>1, <2>3, <3>1, <3>2, FlowTypes DEF c
    <2> HIDE DEF rows
    <2> QED  BY <1>1, <2>1, <2>2, <2>6, NewAudioFits
  <1> QED  BY <1>2, <1>3

\* And what finish flushes.
LEMMA FinishFits ==
    ASSUME FlowCounts, incremental, CallFinish
    PROVE  /\ Realizable(mel_total') <= (Consumed + AembCap) * Group
           /\ Realizable(mel_total') <= committed * Group + OutCap
           /\ mel_total' \in Nat
  <1>1. pc = "idle" /\ status = "open" /\ ~paused
    BY DEF CallFinish
  <1> DEFINE pad   == 2 * Group + RightMel
             extra == (pad + 1) \div 2
             back  == (MaxNew - 1) + (Group - 1)
             rows  == back + extra
  <1>2. /\ pad \in Nat /\ extra \in Nat /\ back \in Nat /\ rows \in Nat /\ rows <= OutCap
        /\ (PromptLen - 2) * Group + rows <= AembCap * Group
    <2>1. pad \in Nat /\ extra \in Nat /\ back \in Nat /\ rows \in Nat
      <3>1. pad \in Nat /\ back \in Nat
        BY FlowTypes
      <3> HIDE DEF pad, back
      <3>2. extra \in Nat
        BY <3>1
      <3> HIDE DEF extra
      <3> QED  BY <3>1, <3>2
    <2>2. rows <= OutCap /\ (PromptLen - 2) * Group + rows <= AembCap * Group
      BY ShortFeeds, Zenon
    <2> QED  BY <2>1, <2>2
  <1> HIDE DEF extra, back, pad
  <1>3. mel_total' = Padded(mel_total) /\ mel_total' \in Nat /\ mel_total' <= mel_total + pad
    BY FlowTypes, PaddedProperty DEF CallFinish, pad
  <1>4. Realizable(mel_total') <= Realizable(mel_total) + extra
    <2>1. mel_total + pad - mel_total' \in Nat
          /\ mel_total' + (mel_total + pad - mel_total') = mel_total + pad
      BY <1>2, <1>3, FlowTypes
    <2>2. Realizable(mel_total') <= Realizable(mel_total + pad)
      BY <1>3, <2>1, RealizableGrows
    <2>3. Realizable(mel_total + pad) <= Realizable(mel_total) + extra
          /\ Realizable(mel_total + pad) \in Nat /\ Realizable(mel_total') \in Nat
      BY <1>2, <1>3, FlowTypes, RealizableSum, RealizableProperty DEF extra
    <2> QED  BY <1>2, <2>2, <2>3, FlowTypes
  <1>5. Realizable(mel_total) <= committed * Group + back
    BY <1>1, HeldBack DEF back
  <1>6. Realizable(mel_total') <= committed * Group + rows
    <2> DEFINE c == committed * Group
    <2>1. c \in Nat /\ Realizable(mel_total') \in Nat
      BY <1>3, FlowTypes, RealizableProperty
    <2>2. Realizable(mel_total) <= c + back
      BY <1>5
    <2> HIDE DEF c
    <2> QED  BY <1>2, <1>4, <2>1, <2>2, FlowTypes DEF c
  <1> HIDE DEF rows
  <1> QED  BY <1>1, <1>2, <1>3, <1>6, NewAudioFits

\* An adapter graph commits complete groups whose embeddings have room
\* (voxtral_ctx_adapter_commit).
LEMMA CommitProperty ==
    ASSUME FlowCounts, Committable > committed,
           NEW run, run = AdapterRun(Committable - committed)
    PROVE  /\ run \in Nat \ {0}
           /\ (committed + run) * Group <= emitted
           /\ committed + run <= Consumed + AembCap
  <1> DEFINE g == emitted \div Group
  <1>1. g \in Nat /\ g * Group <= emitted
    BY FlowTypes, GroupsProperty
  <1>2. Committable = MinOf(g, Consumed + AembCap)
    BY DEF Committable, Consumed
  <1> HIDE DEF g
  <1>3. Committable \in Nat /\ Committable <= g /\ Committable <= Consumed + AembCap
    BY <1>1, <1>2, FlowTypes DEF MinOf
  <1>4. run \in Nat \ {0} /\ committed + run <= Committable
    BY <1>3, FlowTypes, DecoderAssumption DEF AdapterRun
  <1>5. (committed + run) * Group <= g * Group
    <2>1. committed + run <= g /\ committed + run \in Int /\ g \in Int /\ Group \in Nat
      BY <1>1, <1>3, <1>4, FlowTypes
    <2> QED  BY <2>1, TimesMonotone, Zenon
  <1>6. (committed + run) * Group \in Int /\ g * Group \in Int
    BY <1>1, <1>4, FlowTypes
  <1> QED  BY <1>1, <1>3, <1>4, <1>5, <1>6, FlowTypes

\* The commit ends with less than a group uncommitted.
LEMMA CommitComplete ==
    ASSUME FlowCounts, incremental, status = "open", pc = "commit", Committable <= committed
    PROVE  emitted < (committed + 1) * Group
  <1> DEFINE g == emitted \div Group
  <1>1. g \in Nat /\ emitted < (g + 1) * Group
    BY FlowTypes, GroupsProperty
  <1>2. Committable = MinOf(g, Consumed + AembCap)
    BY DEF Committable, Consumed
  <1> HIDE DEF g
  <1>3. g <= committed \/ Consumed + AembCap <= committed
    BY <1>1, <1>2, FlowTypes DEF MinOf
  <1>4. CASE g <= committed
    <2>1. g + 1 <= committed + 1 /\ g + 1 \in Int /\ committed + 1 \in Int /\ Group \in Nat
      BY <1>1, <1>4, FlowTypes
    <2>2. (g + 1) * Group <= (committed + 1) * Group
      BY <2>1, TimesMonotone, Zenon
    <2>3. (g + 1) * Group \in Int /\ (committed + 1) * Group \in Int
      BY <2>1
    <2> QED  BY <1>1, <2>2, <2>3, FlowTypes
  <1>5. CASE Consumed + AembCap <= committed
    <2>1. Realizable(stable_mel) <= (Consumed + AembCap) * Group /\ emitted <= Realizable(stable_mel)
      BY FlowTypes DEF FlowCounts, PumpCaughtUp, EncoderCaughtUp
    <2>2. (Consumed + AembCap) * Group <= committed * Group
      <3>1. Consumed + AembCap \in Int /\ committed \in Int /\ Group \in Nat
        BY FlowTypes
      <3> QED  BY <1>5, <3>1, TimesMonotone, Zenon
    <2>3. (Consumed + AembCap) * Group \in Int /\ committed * Group \in Int
          /\ (committed + 1) * Group = committed * Group + Group
      BY FlowTypes
    <2> QED  BY <2>1, <2>2, <2>3, FlowTypes
  <1> QED  BY <1>3, <1>4, <1>5

\* Neither ring makes the pump wait, and every call ends with the complete groups
\* committed and decoded.
LEMMA PumpStep ==
    ASSUME FlowCounts, [Next]_vars
    PROVE  PumpCaughtUp'
  <1>0. /\ emitted \in Nat /\ committed \in Nat /\ position \in Nat /\ Consumed \in Nat
        /\ prefilled \in BOOLEAN /\ paused \in BOOLEAN /\ incremental \in BOOLEAN
        /\ Realizable(mel_total) \in Nat /\ Group \in Nat \ {0} /\ AembCap \in Nat \ {0}
        /\ PromptLen \in Nat /\ PromptLen >= 2 /\ OutCap \in Nat
    BY FlowTypes
  <1> USE DEF FlowCounts, PumpCaughtUp, pipeVars, encVars, encConfig, encCounts, Consumed
  <1>1. ASSUME NEW m \in FeedSizes, CallFeed(m)  PROVE PumpCaughtUp'
    <2>1. /\ UNCHANGED << incremental, committed, position, prefilled, paused, emitted >>
          /\ pc' = "drain" /\ ~paused /\ status \in {"fresh", "open"} /\ pc = "idle"
      BY <1>1 DEF CallFeed
    <2>2. incremental => /\ Realizable(mel_total') <= (Consumed + AembCap) * Group
                         /\ Realizable(mel_total') <= committed * Group + OutCap
      BY <1>1, FeedFits
    <2>3. CASE status = "open"
      BY <1>0, <2>1, <2>2, <2>3
    <2>4. CASE status = "fresh"
      <3>1. ~prefilled /\ committed = 0 /\ position = 0 /\ 0 * Group = 0
        BY <1>0, <2>1, <2>4 DEF PipeInv, PrefillsOnce, EncoderCaughtUp
      <3> QED  BY <1>0, <2>1, <2>2, <3>1
    <2> QED  BY <2>1, <2>3, <2>4
  <1>2. ASSUME CallResume  PROVE PumpCaughtUp'
    BY <1>2, <1>0 DEF CallResume
  <1>3. ASSUME CallFinish  PROVE PumpCaughtUp'
    <2>1. /\ UNCHANGED << incremental, committed, position, prefilled, paused, emitted >>
          /\ pc' = "flush" /\ ~paused /\ status = "open" /\ pc = "idle"
      BY <1>3 DEF CallFinish
    <2>2. incremental => /\ Realizable(mel_total') <= (Consumed + AembCap) * Group
                         /\ Realizable(mel_total') <= committed * Group + OutCap
      BY <1>3, FinishFits
    <2> QED  BY <1>0, <2>1, <2>2
  <1>4. ASSUME CallReset  PROVE PumpCaughtUp'
    <2>1. status' = "fresh" /\ incremental' = incremental /\ ~paused' /\ pc' = "idle"
      BY <1>4 DEF CallReset, ResetEncoder
    <2> QED  BY <2>1
  <1>5. ASSUME DrainOne  PROVE PumpCaughtUp'
    BY <1>5 DEF DrainOne, Goto, PushMel
  <1>6. ASSUME DrainFinal  PROVE PumpCaughtUp'
    BY <1>6 DEF DrainFinal, Goto, PushMel
  <1>7. ASSUME AfterDrain  PROVE PumpCaughtUp'
    BY <1>7, <1>0 DEF AfterDrain, Goto
  <1>8. ASSUME DriveOne  PROVE PumpCaughtUp'
    <2> DEFINE final == pc = "drive_final"
               l     == NextLaunch(final)
    <2>1. /\ emitted' = l.q + l.n /\ incremental' = incremental /\ l # NoLaunch
          /\ UNCHANGED pipeVars /\ pc \in {"drive", "drive_final"}
      BY <1>8 DEF DriveOne, Launch
    <2>2. l.q = emitted /\ l.n \in 1..MaxNew
      <3>1. EncInv /\ final \in BOOLEAN
        BY DEF PipeInv
      <3> HIDE DEF final
      <3> QED  BY <2>1, <3>1, NextLaunchProperty
    <2> HIDE DEF l
    <2>3. emitted' \in Nat /\ emitted <= emitted'
      BY <1>0, <2>1, <2>2
    <2> DEFINE c == committed * Group
    <2>4. c \in Nat /\ c' = c
      BY <1>0, <2>1
    <2>5. incremental /\ status = "open" => c <= emitted'
      <3>1. incremental /\ status = "open" => c <= emitted
        OBVIOUS
      <3> HIDE DEF c
      <3> QED  BY <1>0, <2>3, <2>4, <3>1
    <2> QED  BY <1>0, <2>1, <2>5
  <1>9. ASSUME DriveFails  PROVE PumpCaughtUp'
    BY <1>9 DEF DriveFails, Fail, LaunchFails
  <1>10. ASSUME DriveEnds  PROVE PumpCaughtUp'
    BY <1>10 DEF DriveEnds, Goto, FinishEncoder
  <1>11. ASSUME CommitOne  PROVE PumpCaughtUp'
    <2>1. PICK run : /\ run = AdapterRun(Committable - committed)
                     /\ committed' = committed + run /\ Committable > committed
                     /\ UNCHANGED << incremental, emitted, mel_total, position, prefilled,
                                     paused, pc, status >>
                     /\ pc = "commit"
      BY <1>11 DEF CommitOne
    <2>2. /\ run \in Nat \ {0} /\ (committed + run) * Group <= emitted
          /\ committed + run <= Consumed + AembCap
      BY <2>1, CommitProperty
    <2>3. committed * Group <= (committed + run) * Group
          /\ committed * Group \in Int /\ (committed + run) * Group \in Int
      <3>1. committed <= committed + run /\ committed \in Int /\ committed + run \in Int
            /\ Group \in Nat
        BY <1>0, <2>2
      <3>2. committed * Group <= (committed + run) * Group
        BY <3>1, TimesMonotone, Zenon
      <3> QED  BY <3>1, <3>2
    <2>4. incremental /\ status = "open" => Realizable(mel_total) <= committed' * Group + OutCap
      BY <1>0, <2>1, <2>3
    <2> QED  BY <1>0, <2>1, <2>2, <2>4
  <1>12. ASSUME BeginPrefill  PROVE PumpCaughtUp'
    <2>1. incremental /\ status = "open" => emitted < (committed + 1) * Group
      BY <1>12, CommitComplete DEF BeginPrefill
    <2> QED  BY <1>12, <1>0, <2>1 DEF BeginPrefill
  <1>13. ASSUME RunPrefill  PROVE PumpCaughtUp'
    <2>1. /\ position' = PromptLen - 1 /\ prefilled' = TRUE /\ pc' = "step"
          /\ UNCHANGED << incremental, emitted, committed, mel_total, paused, status >>
          /\ pc = "prefill"
      BY <1>13 DEF RunPrefill
    <2>2. ~prefilled /\ ~paused
      BY <2>1 DEF PipeInv, PrefillsOnce
    <2>3. (Consumed + AembCap) * Group <= (Consumed' + AembCap) * Group
          /\ (Consumed + AembCap) * Group \in Int /\ (Consumed' + AembCap) * Group \in Int
      <3>1. Consumed' \in Nat /\ Consumed <= Consumed'
        BY <1>0, <2>1, <2>2 DEF Consumed
      <3>2. Consumed + AembCap <= Consumed' + AembCap /\ Consumed + AembCap \in Int
            /\ Consumed' + AembCap \in Int /\ Group \in Nat
        BY <1>0, <3>1
      <3>3. (Consumed + AembCap) * Group <= (Consumed' + AembCap) * Group
        BY <3>2, TimesMonotone, Zenon
      <3> QED  BY <3>2, <3>3
    <2>4. incremental /\ status = "open" =>
              Realizable(mel_total) <= (Consumed' + AembCap) * Group
      BY <1>0, <2>3
    <2> QED  BY <1>0, <2>1, <2>2, <2>4
  <1>14. ASSUME CommitEnds  PROVE PumpCaughtUp'
    <2>1. incremental /\ status = "open" => emitted < (committed + 1) * Group
      BY <1>14, CommitComplete DEF CommitEnds
    <2> QED  BY <1>14, <1>0, <2>1 DEF CommitEnds, Goto
  <1>15. ASSUME FlushPending  PROVE PumpCaughtUp'
    <2>1. /\ UNCHANGED << incremental, emitted, committed, mel_total, prefilled, status >>
          /\ pc = "step" /\ paused /\ prefilled
          /\ \/ position' = position + 1 /\ paused' = FALSE /\ pc' = "step"
             \/ pc' = "idle" /\ UNCHANGED << position, paused >>
      BY <1>15 DEF FlushPending, PipeInv, PrefillsOnce
    <2>2. CASE pc' = "idle" /\ UNCHANGED << position, paused >>
      BY <1>0, <2>1, <2>2
    <2>3. CASE position' = position + 1 /\ paused' = FALSE /\ pc' = "step"
      <3>1. (Consumed + AembCap) * Group <= (Consumed' + AembCap) * Group
            /\ (Consumed + AembCap) * Group \in Int /\ (Consumed' + AembCap) * Group \in Int
        <4>1. Consumed' \in Nat /\ Consumed <= Consumed'
          BY <1>0, <2>1, <2>3 DEF Consumed
        <4>2. Consumed + AembCap <= Consumed' + AembCap /\ Consumed + AembCap \in Int
              /\ Consumed' + AembCap \in Int /\ Group \in Nat
          BY <1>0, <4>1
        <4>3. (Consumed + AembCap) * Group <= (Consumed' + AembCap) * Group
          BY <4>2, TimesMonotone, Zenon
        <4> QED  BY <4>2, <4>3
      <3>2. incremental /\ status = "open" =>
                Realizable(mel_total) <= (Consumed' + AembCap) * Group
        BY <1>0, <2>1, <3>1
      <3> QED  BY <1>0, <2>1, <2>3, <3>2
    <2> QED  BY <2>1, <2>2, <2>3
  <1>16. ASSUME StepOne  PROVE PumpCaughtUp'
    <2>1. /\ UNCHANGED << incremental, emitted, committed, mel_total, prefilled, status >>
          /\ pc = "step" /\ ~paused /\ prefilled /\ position <= committed - 1
          /\ \/ position' = position + 1 /\ UNCHANGED << paused, pc >>
             \/ paused' = TRUE /\ pc' = "idle" /\ UNCHANGED position
      BY <1>16 DEF StepOne
    <2>2. CASE paused' = TRUE /\ pc' = "idle" /\ UNCHANGED position
      BY <1>0, <2>1, <2>2
    <2>3. CASE position' = position + 1 /\ UNCHANGED << paused, pc >>
      <3>1. (Consumed + AembCap) * Group <= (Consumed' + AembCap) * Group
            /\ (Consumed + AembCap) * Group \in Int /\ (Consumed' + AembCap) * Group \in Int
        <4>1. Consumed' \in Nat /\ Consumed <= Consumed'
          BY <1>0, <2>1, <2>3 DEF Consumed
        <4>2. Consumed + AembCap <= Consumed' + AembCap /\ Consumed + AembCap \in Int
              /\ Consumed' + AembCap \in Int /\ Group \in Nat
          BY <1>0, <4>1
        <4>3. (Consumed + AembCap) * Group <= (Consumed' + AembCap) * Group
          BY <4>2, TimesMonotone, Zenon
        <4> QED  BY <4>2, <4>3
      <3>2. incremental /\ status = "open" =>
                Realizable(mel_total) <= (Consumed' + AembCap) * Group
        BY <1>0, <2>1, <3>1
      <3> QED  BY <1>0, <2>1, <2>3, <3>2
    <2> QED  BY <2>1, <2>2, <2>3
  <1>17. ASSUME PumpEnds  PROVE PumpCaughtUp'
    BY <1>17, <1>0 DEF PumpEnds
  <1>18. ASSUME PumpFails  PROVE PumpCaughtUp'
    BY <1>18, <1>0 DEF PumpFails, Fail
  <1>19. ASSUME CallWarmup  PROVE PumpCaughtUp'
    BY <1>19 DEF CallWarmup, PushMel, PipeInv, PrefillsOnce
  <1>20. ASSUME WarmAdapter  PROVE PumpCaughtUp'
    <2>1. status = "fresh" /\ incremental /\ UNCHANGED << incremental, paused, status >>
      BY <1>20 DEF WarmAdapter, PipeInv, PrefillsOnce, WarmupCounts
    <2> QED  BY <2>1
  <1>21. ASSUME WarmCommit  PROVE PumpCaughtUp'
    <2>1. /\ status = "fresh" /\ incremental
          /\ UNCHANGED << incremental, paused, pc, status >>
      BY <1>21 DEF WarmCommit, PipeInv, PrefillsOnce
    <2> QED  BY <2>1
  <1>22. ASSUME WarmBegin  PROVE PumpCaughtUp'
    <2>1. status = "fresh" /\ incremental /\ UNCHANGED << incremental, paused, status >>
      BY <1>22 DEF WarmBegin, Goto, PipeInv, PrefillsOnce, WarmupCounts
    <2> QED  BY <2>1
  <1>23. ASSUME WarmStep  PROVE PumpCaughtUp'
    <2>1. /\ status = "fresh" /\ incremental
          /\ UNCHANGED << incremental, paused, pc, status >>
      BY <1>23 DEF WarmStep, PipeInv, PrefillsOnce
    <2> QED  BY <2>1
  <1>24. ASSUME WarmEnds  PROVE PumpCaughtUp'
    <2>1. status = "fresh" /\ ~paused
      BY <1>24 DEF WarmEnds, PipeInv, PrefillsOnce
    <2>2. UNCHANGED << status, paused, incremental >> /\ pc' = "idle"
      BY <1>24 DEF WarmEnds, ResetEncoder
    <2> QED  BY <2>1, <2>2
  <1>25. ASSUME UNCHANGED vars  PROVE PumpCaughtUp'
    BY <1>25, <1>0 DEF vars
  <1> QED
    BY <1>1, <1>2, <1>3, <1>4, <1>5, <1>6, <1>7, <1>8, <1>9, <1>10, <1>11, <1>12,
        <1>13, <1>14, <1>15, <1>16, <1>17, <1>18, <1>19, <1>20, <1>21, <1>22, <1>23,
        <1>24, <1>25 DEF Next, Call, Drain, Pump, Warmup

\* A warmup drives, commits and decodes exactly the rows of its prompt.
LEMMA WarmupStep ==
    ASSUME FlowCounts, [Next]_vars
    PROVE  WarmupCounts'
  <1>0. /\ emitted \in Nat /\ committed \in Nat /\ position \in Nat
        /\ Group \in Nat \ {0} /\ PromptLen \in Nat /\ PromptLen >= 2
    BY FlowTypes
  <1> USE DEF FlowCounts, WarmupCounts, pipeVars, encVars, encConfig, encCounts, PipeInv, PrefillsOnce
  <1>1. ASSUME NEW m \in FeedSizes, CallFeed(m)  PROVE WarmupCounts'
    BY <1>1 DEF CallFeed
  <1>2. ASSUME CallResume  PROVE WarmupCounts'
    BY <1>2, <1>0 DEF CallResume
  <1>3. ASSUME CallFinish  PROVE WarmupCounts'
    BY <1>3, <1>0 DEF CallFinish
  <1>4. ASSUME CallReset  PROVE WarmupCounts'
    BY <1>4, <1>0 DEF CallReset
  <1>5. ASSUME DrainOne  PROVE WarmupCounts'
    BY <1>5, <1>0 DEF DrainOne, Goto
  <1>6. ASSUME DrainFinal  PROVE WarmupCounts'
    BY <1>6, <1>0 DEF DrainFinal, Goto
  <1>7. ASSUME AfterDrain  PROVE WarmupCounts'
    BY <1>7, <1>0 DEF AfterDrain, Goto
  <1>8. ASSUME DriveOne  PROVE WarmupCounts'
    BY <1>8, <1>0 DEF DriveOne, Launch
  <1>9. ASSUME DriveFails  PROVE WarmupCounts'
    BY <1>9, <1>0 DEF DriveFails, Fail
  <1>10. ASSUME DriveEnds  PROVE WarmupCounts'
    BY <1>10, <1>0 DEF DriveEnds, Goto
  <1>11. ASSUME CommitOne  PROVE WarmupCounts'
    BY <1>11, <1>0 DEF CommitOne
  <1>12. ASSUME BeginPrefill  PROVE WarmupCounts'
    BY <1>12, <1>0 DEF BeginPrefill
  <1>13. ASSUME RunPrefill  PROVE WarmupCounts'
    BY <1>13, <1>0 DEF RunPrefill
  <1>14. ASSUME CommitEnds  PROVE WarmupCounts'
    BY <1>14, <1>0 DEF CommitEnds, Goto
  <1>15. ASSUME FlushPending  PROVE WarmupCounts'
    BY <1>15, <1>0 DEF FlushPending
  <1>16. ASSUME StepOne  PROVE WarmupCounts'
    BY <1>16, <1>0 DEF StepOne
  <1>17. ASSUME PumpEnds  PROVE WarmupCounts'
    BY <1>17, <1>0 DEF PumpEnds
  <1>18. ASSUME PumpFails  PROVE WarmupCounts'
    BY <1>18, <1>0 DEF PumpFails, Fail
  <1>19. ASSUME CallWarmup  PROVE WarmupCounts'
    <2>1. /\ mel_total = 0 /\ stable_mel = 0 /\ committed = 0 /\ position = 0 /\ emitted = 0
      BY <1>19 DEF CallWarmup, EncoderCaughtUp
    <2>2. stable_mel' = stable_mel + PromptLen * Group * 2 /\ incremental' = incremental
      BY <1>19 DEF CallWarmup, PushMel
    <2>3. stable_mel' = PromptLen * Group * 2
      <3>1. PromptLen * Group * 2 \in Nat
        BY <1>0
      <3> QED  BY <2>1, <2>2, <3>1
    <2> QED  BY <1>19, <2>1, <2>2, <2>3 DEF CallWarmup
  <1>20. ASSUME WarmAdapter  PROVE WarmupCounts'
    BY <1>20, <1>0 DEF WarmAdapter
  <1>21. ASSUME WarmCommit  PROVE WarmupCounts'
    <2>1. PICK run : /\ run = AdapterRun(PromptLen - committed)
                     /\ committed' = committed + run /\ committed < PromptLen /\ pc = "commit"
                     /\ UNCHANGED << incremental, emitted, stable_mel, mel_total, position,
                                     prefilled, paused, pc, status, call >>
      BY <1>21 DEF WarmCommit
    <2>2. committed + run <= PromptLen
      BY <1>0, <2>1, DecoderAssumption DEF AdapterRun
    <2> QED  BY <1>21, <1>0, <2>1, <2>2 DEF WarmCommit
  <1>22. ASSUME WarmBegin  PROVE WarmupCounts'
    BY <1>22, <1>0 DEF WarmBegin, Goto
  <1>23. ASSUME WarmStep  PROVE WarmupCounts'
    BY <1>23, <1>0 DEF WarmStep
  <1>24. ASSUME WarmEnds  PROVE WarmupCounts'
    BY <1>24, <1>0 DEF WarmEnds
  <1>25. ASSUME UNCHANGED vars  PROVE WarmupCounts'
    BY <1>25, <1>0 DEF vars
  <1> QED
    BY <1>1, <1>2, <1>3, <1>4, <1>5, <1>6, <1>7, <1>8, <1>9, <1>10, <1>11, <1>12,
        <1>13, <1>14, <1>15, <1>16, <1>17, <1>18, <1>19, <1>20, <1>21, <1>22, <1>23,
        <1>24, <1>25 DEF Next, Call, Drain, Pump, Warmup

\* The counters stay right in every step.
LEMMA CountsStep ==
    ASSUME FlowCounts, [Next]_vars
    PROVE  FlowCounts'
  BY CaughtUpStep, PumpStep, WarmupStep, PipeStep DEF FlowCounts

-----------------------------------------------------------------------------
(* What a graph writes into its ring. *)

\* A position below the size of its ring is its own slot.
LEMMA SlotOfSmall ==
    ASSUME NEW n \in Nat \ {0}, NEW a \in 0..(n - 1)
    PROVE  a % n = a
  OBVIOUS

\* Every slot has a position in every span of one lap.
LEMMA SlotReached ==
    ASSUME NEW n \in Nat \ {0}, NEW a \in Int, NEW s \in 0..(n - 1)
    PROVE  \E p \in a..(a + n - 1) : p % n = s
  <1> DEFINE t == a % n
             p == IF t <= s THEN a + (s - t) ELSE a + (s - t) + n
  <1>1. t \in 0..(n - 1)
    BY ModProperty
  <1> HIDE DEF t
  <1>2. p \in a..(a + n - 1) /\ p \in Int /\ a <= p /\ p < a + n
    BY <1>1
  <1>3. p - a = IF t <= s THEN s - t ELSE (s - t) + n
    BY <1>1
  <1> HIDE DEF p
  <1>4. p % n = IF t + (p - a) < n THEN t + (p - a) ELSE t + (p - a) - n
    BY <1>2, ModNear, Zenon DEF t
  <1>5. p % n = s
    BY <1>1, <1>2, <1>3, <1>4
  <1> QED  BY <1>2, <1>5

\* The encoder-output ring keeps its whole length of rows.
LEMMA OutputWholeRing ==
    ASSUME NEW q \in Nat, NEW n \in 1..MaxNew,
           \A p \in MaxOf(0, q - OutCap)..(q - 1) : enc_out_ring[p % OutCap] = Row(p)
    PROVE  \A p \in MaxOf(0, q + n - OutCap)..(q + n - 1) : CopyOut(q, n)[p % OutCap] = Row(p)
  <1>0. /\ OutCap \in Nat \ {0} /\ MaxNew \in Nat \ {0} /\ MaxNew <= OutCap
        /\ MaxOf(0, q + n - OutCap) \in Nat /\ q + n - OutCap <= MaxOf(0, q + n - OutCap)
        /\ MaxOf(0, q - OutCap) <= MaxOf(0, q + n - OutCap) /\ MaxOf(0, q - OutCap) \in Nat
    BY EncoderAssumption DEF MaxOf
  <1> SUFFICES ASSUME NEW p \in MaxOf(0, q + n - OutCap)..(q + n - 1)
               PROVE  CopyOut(q, n)[p % OutCap] = Row(p)
    OBVIOUS
  <1>1. p \in Nat
    BY <1>0
  <1>2. CASE p >= q
    <2>1. p \in q..(q + n - 1)
      BY <1>1, <1>2
    <2> QED  BY <2>1, CopyOutProperty
  <1>3. CASE p < q
    <2>1. p \in MaxOf(0, q - OutCap)..(q - 1)
      BY <1>0, <1>1, <1>3
    <2>2. p % OutCap \in 0..(OutCap - 1)
      BY <1>0, <1>1, ModProperty
    <2>3. ASSUME NEW r \in q..(q + n - 1)
          PROVE  r % OutCap # p % OutCap
      <3>1. r \in Int /\ p < r /\ r < p + OutCap /\ p \in Int
        BY <1>0, <1>1, <1>3
      <3>2. p % OutCap # r % OutCap
        BY <1>0, <3>1, ModApart, Zenon
      <3> QED  BY <3>2
    <2> QED  BY <2>1, <2>2, <2>3, CopyOutProperty
  <1> QED  BY <1>1, <1>2, <1>3

\* An adapter graph puts each of its groups into the group's own slot and leaves the
\* other slots alone (voxtral_ctx_adapter_commit).
LEMMA AdapterProperty ==
    ASSUME NEW g \in Nat, NEW run \in Nat \ {0}, run <= AembCap, AdapterGraph(g, run),
           \A p \in (g * Group)..((g + run) * Group - 1) : enc_out_ring[p % OutCap] = Row(p)
    PROVE  /\ \A k \in g..(g + run - 1) : audio_emb_ring'[k % AembCap] = GroupRows(k)
           /\ \A s \in 0..(AembCap - 1) :
                  (\A k \in g..(g + run - 1) : k % AembCap # s) =>
                      audio_emb_ring'[s] = audio_emb_ring[s]
  <1>0. AembCap \in Nat \ {0} /\ Group \in Nat \ {0} /\ OutCap \in Nat \ {0}
    BY EncoderAssumption, DecoderAssumption
  <1> DEFINE Here(s)   == { k \in g..(g + run - 1) : k % AembCap = s }
             Latest(s) == CHOOSE k \in Here(s) : \A j \in Here(s) : j <= k
             Rows(k)   == [j \in 1..Group |-> enc_out_ring[(k * Group + j - 1) % OutCap]]
  <1>1. audio_emb_ring' =
            [s \in 0..(AembCap - 1) |->
                IF Here(s) = {} THEN audio_emb_ring[s] ELSE Rows(Latest(s))]
    BY Zenon DEF AdapterGraph
  <1>2. ASSUME NEW k \in g..(g + run - 1)
        PROVE  Rows(k) = GroupRows(k)
    <2>1. k \in Nat /\ g <= k /\ k + 1 <= g + run
      OBVIOUS
    <2> DEFINE kg == k * Group
               lo == g * Group
               hi == (g + run) * Group
    <2>2. lo <= kg /\ kg + Group <= hi /\ kg \in Nat /\ lo \in Nat /\ hi \in Nat
      <3>1. lo <= kg
        BY <1>0, <2>1, TimesMonotone
      <3>2. (k + 1) * Group <= hi
        BY <1>0, <2>1, TimesMonotone
      <3>3. (k + 1) * Group = kg + Group
        BY <1>0, <2>1
      <3>4. kg \in Nat /\ lo \in Nat /\ hi \in Nat
        BY <1>0, <2>1
      <3> HIDE DEF kg, lo, hi
      <3> QED  BY <3>1, <3>2, <3>3, <3>4
    <2>3. \A p \in lo..(hi - 1) : enc_out_ring[p % OutCap] = Row(p)
      OBVIOUS
    <2> HIDE DEF kg, lo, hi
    <2>4. \A j \in 1..Group : enc_out_ring[(kg + j - 1) % OutCap] = Row(kg + j - 1)
      BY <1>0, <2>2, <2>3
    <2> QED  BY <2>4, Zenon DEF GroupRows, kg
  <1> HIDE DEF Rows
  <1>3. ASSUME NEW k \in g..(g + run - 1)
        PROVE  audio_emb_ring'[k % AembCap] = GroupRows(k)
    <2>1. k % AembCap \in 0..(AembCap - 1) /\ k \in Int
      BY <1>0, ModProperty
    <2>2. k \in Here(k % AembCap)
      OBVIOUS
    <2>3. ASSUME NEW i \in Here(k % AembCap)
          PROVE  i = k
      <3>1. i \in Int /\ i % AembCap = k % AembCap /\ i < k + AembCap /\ k < i + AembCap
        BY <1>0
      <3> QED  BY <1>0, <2>1, <3>1, SlotInjective, Zenon
    <2>4. \A j \in Here(k % AembCap) : j <= k
      <3> HIDE DEF Here
      <3> QED  BY <2>1, <2>3
    <2> HIDE DEF Here
    <2>5. Latest(k % AembCap) \in Here(k % AembCap)
      BY <2>2, <2>4
    <2>6. Latest(k % AembCap) = k
      BY <2>3, <2>5
    <2>7. audio_emb_ring'[k % AembCap] = Rows(Latest(k % AembCap))
      BY <1>1, <2>1, <2>2
    <2> QED  BY <1>2, <2>6, <2>7
  <1>4. ASSUME NEW s \in 0..(AembCap - 1), \A k \in g..(g + run - 1) : k % AembCap # s
        PROVE  audio_emb_ring'[s] = audio_emb_ring[s]
    <2>1. Here(s) = {}
      BY <1>4
    <2> HIDE DEF Here
    <2> QED  BY <1>1, <2>1
  <1> QED  BY <1>3, <1>4

\* So the ring holds the new groups beside every one the decoder still has to read.
LEMMA AdapterKeeps ==
    ASSUME NEW g \in Nat, NEW run \in Nat \ {0}, NEW low \in Nat, low <= g,
           g + run <= low + AembCap, AdapterGraph(g, run),
           \A p \in (g * Group)..((g + run) * Group - 1) : enc_out_ring[p % OutCap] = Row(p),
           \A k \in low..(g - 1) : audio_emb_ring[k % AembCap] = GroupRows(k)
    PROVE  \A k \in low..(g + run - 1) : audio_emb_ring'[k % AembCap] = GroupRows(k)
  <1>0. AembCap \in Nat \ {0} /\ run <= AembCap
    BY DecoderAssumption
  <1>1. /\ \A k \in g..(g + run - 1) : audio_emb_ring'[k % AembCap] = GroupRows(k)
        /\ \A s \in 0..(AembCap - 1) :
               (\A k \in g..(g + run - 1) : k % AembCap # s) =>
                   audio_emb_ring'[s] = audio_emb_ring[s]
    BY <1>0, AdapterProperty
  <1> SUFFICES ASSUME NEW k \in low..(g + run - 1)
               PROVE  audio_emb_ring'[k % AembCap] = GroupRows(k)
    OBVIOUS
  <1>2. CASE k >= g
    BY <1>1, <1>2
  <1>3. CASE k < g
    <2>1. k \in low..(g - 1) /\ k \in Int
      BY <1>3
    <2>2. k % AembCap \in 0..(AembCap - 1)
      BY <1>0, <2>1, ModProperty
    <2>3. ASSUME NEW r \in g..(g + run - 1)
          PROVE  r % AembCap # k % AembCap
      <3>1. r \in Int /\ k < r /\ r < k + AembCap
        BY <1>0, <1>3
      <3>2. k % AembCap # r % AembCap
        BY <1>0, <2>1, <3>1, ModApart, Zenon
      <3> QED  BY <3>2
    <2> QED  BY <1>1, <2>1, <2>2, <2>3
  <1> QED  BY <1>2, <1>3

\* The prefill of an empty span puts the prompt's positions into their slots
\* (build_decoder_prefill_graph).
LEMMA PrefillWrites ==
    ASSUME decoder_kv = EmptyKv, NEW n \in Nat, n <= DecCap, n <= AembCap,
           \A g \in 0..(n - 1) : audio_emb_ring[g % AembCap] = GroupRows(g)
    PROVE  \A p \in 0..(n - 1) : PrefillGraph(n)[p % DecCap] = Entry(p)
  <1>0. DecCap \in Nat \ {0} /\ AembCap \in Nat \ {0} /\ decoder_kv.next = 0
    BY DecoderAssumption DEF EmptyKv
  <1> SUFFICES ASSUME NEW p \in 0..(n - 1)  PROVE PrefillGraph(n)[p % DecCap] = Entry(p)
    OBVIOUS
  <1> DEFINE Here(s) == { i \in 0..(n - 1) : (decoder_kv.next + i) % DecCap = s }
  <1>1. PrefillGraph(n) =
            [s \in 0..(DecCap - 1) |->
                IF Here(s) = {} THEN dec_ring[s]
                ELSE LET i == CHOOSE i \in Here(s) : TRUE
                     IN  [audio |-> audio_emb_ring[i], pos |-> decoder_kv.next + i]]
    BY Zenon DEF PrefillGraph
  <1>2. \A i \in 0..(n - 1) : decoder_kv.next + i = i /\ i % DecCap = i /\ i % AembCap = i
    BY <1>0
  <1>3. p % DecCap = p /\ p \in 0..(DecCap - 1) /\ Here(p) = {p}
    BY <1>0, <1>2
  <1> HIDE DEF Here
  <1>4. (CHOOSE i \in Here(p) : TRUE) = p
    BY <1>3
  <1>5. PrefillGraph(n)[p] = [audio |-> audio_emb_ring[p], pos |-> decoder_kv.next + p]
    BY <1>1, <1>3, <1>4
  <1>6. audio_emb_ring[p] = GroupRows(p)
    BY <1>2
  <1> QED  BY <1>2, <1>3, <1>5, <1>6 DEF Entry

\* A step writes the slot of its position only (build_decoder_step_graph_reusable).
LEMMA StepWrites ==
    ASSUME NEW p \in Nat
    PROVE  /\ WritePositions(p, 1)[p % DecCap] = [audio |-> AudioAt(p), pos |-> p]
           /\ \A s \in 0..(DecCap - 1) : s # p % DecCap => WritePositions(p, 1)[s] = dec_ring[s]
  <1>0. DecCap \in Nat \ {0} /\ p % DecCap \in 0..(DecCap - 1)
    BY DecoderAssumption, ModProperty
  <1> DEFINE Here(s) == { i \in p..(p + 1 - 1) : i % DecCap = s }
  <1>1. WritePositions(p, 1) =
            [s \in 0..(DecCap - 1) |->
                IF Here(s) = {} THEN dec_ring[s]
                ELSE LET i == CHOOSE i \in Here(s) : TRUE IN [audio |-> AudioAt(i), pos |-> i]]
    BY Zenon DEF WritePositions
  <1>2. p..(p + 1 - 1) = {p}
    OBVIOUS
  <1>3. Here(p % DecCap) = {p} /\ \A s : s # p % DecCap => Here(s) = {}
    BY <1>2
  <1> HIDE DEF Here
  <1>4. (CHOOSE i \in Here(p % DecCap) : TRUE) = p
    BY <1>3
  <1> QED  BY <1>0, <1>1, <1>3, <1>4

-----------------------------------------------------------------------------
(* What a step of the decoder reads. *)

\* The span is as long as the ring allows, and its oldest position follows.
LEMMA SpanProperty ==
    ASSUME FlowCounts, MaskIsDevices
    PROVE  /\ decoder_kv.next \in Nat /\ decoder_kv.used \in Nat
           /\ decoder_kv.used = MinOf(DecCap, decoder_kv.next)
           /\ decoder_kv.oldest = MaxOf(0, decoder_kv.next - DecCap)
           /\ UsedAfter(1) = MinOf(DecCap, decoder_kv.next + 1)
           /\ UsedAfter(1) \in 1..DecCap
  <1>1. /\ decoder_kv.next \in Nat /\ decoder_kv.used \in Nat /\ decoder_kv.oldest \in Nat
        /\ decoder_kv.oldest + decoder_kv.used = decoder_kv.next
        /\ decoder_kv.used = MinOf(DecCap, decoder_kv.next) /\ DecCap \in Nat \ {0}
    BY DecoderAssumption DEF FlowCounts, PipeInv, TypeOK, DecTypeOK, PrefillsOnce, MaskIsDevices
  <1> QED  BY <1>1 DEF MinOf, MaxOf, UsedAfter

\* An upload, a cached mask and a rebuilt graph all leave on the device what the host
\* believes to be there, and a masked step always finds its own mask
\* (ensure_decoder_step_graph, decoder_step_mask_valid).
LEMMA StepMaskTrue ==
    ASSUME MaskIsDevices, NEW valid \in 1..DecCap
    PROVE  LET mask == StepMask(valid)
           IN  /\ mask.cached # -1 => mask.device = mask.cached
               /\ mask.graph = IF valid = DecCap THEN "full" ELSE "masked"
               /\ mask.graph = "masked" => mask.device = valid
  <1> DEFINE want == IF valid = DecCap THEN "full" ELSE "masked"
             mask == StepMask(valid)
  <1>0. valid # -1 /\ valid \in Int
    BY DecoderAssumption
  <1>1. /\ mask.graph = want
        /\ want = "masked" => mask.device = valid /\ mask.cached = valid
        /\ want = "full" => mask.cached = -1 \/ (mask.cached = mask_valid /\ mask.device = device_mask)
    <2>1. CASE want = "masked"
      <3>1. CASE step_graph # want
        BY <1>0, <2>1, <3>1 DEF StepMask
      <3>2. CASE step_graph = want
        BY <1>0, <2>1, <3>2 DEF StepMask, MaskIsDevices
      <3> QED  BY <3>1, <3>2
    <2>2. CASE want # "masked"
      BY <2>2 DEF StepMask
    <2> QED  BY <2>1, <2>2
  <1>2. want \in {"full", "masked"}
    OBVIOUS
  <1> QED  BY <1>1, <1>2 DEF MaskIsDevices

\* After a step the ring holds the newest positions, its own among them.
LEMMA StepRing ==
    ASSUME FlowCounts, MaskIsDevices,
           KeysInRing, NEW p \in Nat, p = decoder_kv.next, AudioAt(p) = GroupRows(p)
    PROVE  \A k \in MaxOf(0, p + 1 - DecCap)..p : WritePositions(p, 1)[k % DecCap] = Entry(k)
  <1>0. /\ DecCap \in Nat \ {0} /\ decoder_kv.oldest = MaxOf(0, p - DecCap)
        /\ MaxOf(0, p - DecCap) <= MaxOf(0, p + 1 - DecCap) /\ MaxOf(0, p + 1 - DecCap) \in Nat
        /\ p + 1 - DecCap <= MaxOf(0, p + 1 - DecCap) /\ MaxOf(0, p - DecCap) \in Nat
    <2>1. DecCap \in Nat \ {0}
      BY DecoderAssumption
    <2>2. decoder_kv.oldest = MaxOf(0, p - DecCap)
      BY SpanProperty
    <2> QED  BY <2>1, <2>2 DEF MaxOf
  <1> SUFFICES ASSUME NEW k \in MaxOf(0, p + 1 - DecCap)..p
               PROVE  WritePositions(p, 1)[k % DecCap] = Entry(k)
    OBVIOUS
  <1>1. CASE k = p
    BY <1>1, StepWrites DEF Entry
  <1>2. CASE k # p
    <2>1. k \in Int /\ k < p /\ p < k + DecCap /\ k \in decoder_kv.oldest..(decoder_kv.next - 1)
      BY <1>0, <1>2
    <2>2. k % DecCap # p % DecCap
      <3>1. p \in Int /\ DecCap \in Nat \ {0}
        BY <1>0
      <3> QED  BY <2>1, <3>1, ModApart, Zenon
    <2>3. k % DecCap \in 0..(DecCap - 1)
      BY <1>0, <2>1, ModProperty
    <2> QED  BY <2>1, <2>2, <2>3, StepWrites DEF KeysInRing
  <1> QED  BY <1>1, <1>2

\* So the slots a step opens hold the keys of its own sliding window, and nothing
\* else, before, at and after the change of graph.
LEMMA StepKeys ==
    ASSUME FlowCounts, MaskIsDevices,
           KeysInRing, NEW p \in Nat, p = decoder_kv.next, AudioAt(p) = GroupRows(p)
    PROVE  { WritePositions(p, 1)[s] : s \in OpenSlots(StepMask(UsedAfter(1))) }
               = { Entry(k) : k \in MaxOf(0, p - (DecCap - 1))..p }
  <1> DEFINE rows == WritePositions(p, 1)
             low  == MaxOf(0, p - (DecCap - 1))
             open == OpenSlots(StepMask(UsedAfter(1)))
  <1>0. /\ DecCap \in Nat \ {0} /\ low = MaxOf(0, p + 1 - DecCap) /\ low \in 0..p
        /\ p < low + DecCap
    BY DecoderAssumption DEF MaxOf
  <1>1. \A k \in low..p : rows[k % DecCap] = Entry(k)
    BY <1>0, StepRing
  <1>2. /\ UsedAfter(1) = MinOf(DecCap, p + 1) /\ UsedAfter(1) \in 1..DecCap
    BY SpanProperty
  <1>3. open = IF UsedAfter(1) = DecCap THEN 0..(DecCap - 1) ELSE 0..(UsedAfter(1) - 1)
    BY <1>2, StepMaskTrue DEF OpenSlots
  <1> HIDE DEF open, rows, low
  <1>4. \A k \in low..p : k % DecCap \in open
    <2>1. CASE UsedAfter(1) = DecCap
      <3> SUFFICES ASSUME NEW k \in low..p  PROVE k % DecCap \in open
        OBVIOUS
      <3>1. k % DecCap \in 0..(DecCap - 1)
        BY <1>0, ModProperty
      <3> QED  BY <1>3, <2>1, <3>1
    <2>2. CASE UsedAfter(1) # DecCap
      <3>1. UsedAfter(1) = p + 1 /\ p + 1 < DecCap
        BY <1>0, <1>2, <2>2 DEF MinOf
      <3> SUFFICES ASSUME NEW k \in low..p  PROVE k % DecCap \in open
        OBVIOUS
      <3>2. k \in 0..(DecCap - 1) /\ k \in 0..p
        BY <1>0, <3>1
      <3>3. k % DecCap = k
        BY <1>0, <3>2, SlotOfSmall
      <3> QED  BY <1>3, <2>2, <3>1, <3>2, <3>3
    <2> QED  BY <2>1, <2>2
  <1>5. \A s \in open : \E k \in low..p : k % DecCap = s
    <2> SUFFICES ASSUME NEW s \in open  PROVE \E k \in low..p : k % DecCap = s
      OBVIOUS
    <2>1. CASE UsedAfter(1) = DecCap
      <3>1. p + 1 >= DecCap /\ low = p + 1 - DecCap
        BY <1>0, <1>2, <2>1 DEF MinOf, MaxOf, low
      <3>2. s \in 0..(DecCap - 1) /\ low \in Int /\ low + DecCap - 1 = p
        BY <1>0, <1>3, <2>1, <3>1
      <3>3. \E k \in low..(low + DecCap - 1) : k % DecCap = s
        BY <1>0, <3>2, SlotReached, Zenon
      <3> QED  BY <3>2, <3>3
    <2>2. CASE UsedAfter(1) # DecCap
      <3>1. UsedAfter(1) = p + 1 /\ p + 1 < DecCap /\ low = 0
        BY <1>0, <1>2, <2>2 DEF MinOf, MaxOf, low
      <3>2. s \in 0..p /\ s \in 0..(DecCap - 1)
        BY <1>0, <1>3, <2>2, <3>1
      <3>3. s % DecCap = s
        BY <1>0, <3>2, SlotOfSmall
      <3> QED  BY <3>1, <3>2, <3>3
    <2> QED  BY <2>1, <2>2
  <1>6. \A s \in open : rows[s] \in { Entry(k) : k \in low..p }
    BY <1>1, <1>5
  <1>7. \A k \in low..p : Entry(k) \in { rows[s] : s \in open }
    BY <1>1, <1>4
  <1>8. { rows[s] : s \in open } = { Entry(k) : k \in low..p }
    BY <1>6, <1>7
  <1> QED  BY <1>8 DEF rows, open, low

\* The host never believes a mask to be on the device that is not there.
LEMMA MaskStep ==
    ASSUME FlowCounts, MaskIsDevices, [Next]_vars
    PROVE  MaskIsDevices'
  <1>0. /\ DecCap \in Nat \ {0} /\ decoder_kv.next \in Nat /\ decoder_kv.used \in Nat
        /\ decoder_kv.used = MinOf(DecCap, decoder_kv.next)
        /\ UsedAfter(1) = MinOf(DecCap, decoder_kv.next + 1) /\ UsedAfter(1) \in 1..DecCap
    BY SpanProperty, FlowTypes
  <1> USE DEF MaskIsDevices, decVars
  <1>1. ASSUME NEW m \in FeedSizes, CallFeed(m)  PROVE MaskIsDevices'
    BY <1>1 DEF CallFeed
  <1>2. ASSUME CallResume  PROVE MaskIsDevices'
    BY <1>2 DEF CallResume
  <1>3. ASSUME CallFinish  PROVE MaskIsDevices'
    BY <1>3 DEF CallFinish
  <1>4. ASSUME CallReset  PROVE MaskIsDevices'
    <2>1. decoder_kv' = EmptyKv /\ mask_valid' = -1
      BY <1>4 DEF CallReset, ResetDecoder, ClearKv
    <2> QED  BY <2>1, <1>0 DEF EmptyKv, MinOf
  <1>5. ASSUME DrainOne  PROVE MaskIsDevices'
    BY <1>5 DEF DrainOne, Goto
  <1>6. ASSUME DrainFinal  PROVE MaskIsDevices'
    BY <1>6 DEF DrainFinal, Goto
  <1>7. ASSUME AfterDrain  PROVE MaskIsDevices'
    BY <1>7 DEF AfterDrain, Goto
  <1>8. ASSUME DriveOne  PROVE MaskIsDevices'
    BY <1>8 DEF DriveOne
  <1>9. ASSUME DriveFails  PROVE MaskIsDevices'
    BY <1>9 DEF DriveFails, Fail
  <1>10. ASSUME DriveEnds  PROVE MaskIsDevices'
    BY <1>10 DEF DriveEnds, Goto
  <1>11. ASSUME CommitOne  PROVE MaskIsDevices'
    BY <1>11 DEF CommitOne, decVars
  <1>12. ASSUME BeginPrefill  PROVE MaskIsDevices'
    <2>1. decoder_kv' = EmptyKv /\ mask_valid' = -1
      BY <1>12 DEF BeginPrefill, BeginDecoder, ClearKv
    <2> QED  BY <2>1, <1>0 DEF EmptyKv, MinOf
  <1>13. ASSUME RunPrefill  PROVE MaskIsDevices'
    <2>1. /\ CommitPlan(PromptLen - 1) /\ UNCHANGED << mask_valid, device_mask >>
      BY <1>13 DEF RunPrefill, Prefill
    <2>2. decoder_kv'.used = MinOf(DecCap, decoder_kv.used + (PromptLen - 1))
          /\ decoder_kv'.next = decoder_kv.next + (PromptLen - 1)
      BY <2>1 DEF CommitPlan, UsedAfter
    <2>3. decoder_kv'.used = MinOf(DecCap, decoder_kv'.next)
      BY <1>0, <2>2, FlowTypes DEF MinOf
    <2> QED  BY <2>1, <2>3
  <1>14. ASSUME CommitEnds  PROVE MaskIsDevices'
    BY <1>14 DEF CommitEnds, Goto
  <1>15. ASSUME FlushPending  PROVE MaskIsDevices'
    BY <1>15 DEF FlushPending
  <1>16. ASSUME StepOne  PROVE MaskIsDevices'
    <2>1. /\ mask_valid' = StepMask(UsedAfter(1)).cached
          /\ device_mask' = StepMask(UsedAfter(1)).device /\ CommitPlan(1)
      BY <1>16 DEF StepOne, Step
    <2>2. decoder_kv'.used = MinOf(DecCap, decoder_kv'.next)
      BY <1>0, <2>1 DEF CommitPlan
    <2> QED  BY <1>0, <2>1, <2>2, StepMaskTrue
  <1>17. ASSUME PumpEnds  PROVE MaskIsDevices'
    BY <1>17 DEF PumpEnds
  <1>18. ASSUME PumpFails  PROVE MaskIsDevices'
    <2>1. CASE UNCHANGED << decoder_kv, mask_valid, device_mask >>
      BY <2>1
    <2>2. CASE StepFails(position)
      <3>1. /\ mask_valid' = StepMask(UsedAfter(1)).cached
            /\ device_mask' = StepMask(UsedAfter(1)).device /\ decoder_kv' = decoder_kv
        BY <2>2 DEF StepFails
      <3> QED  BY <1>0, <3>1, StepMaskTrue
    <2> QED  BY <1>18, <2>1, <2>2 DEF PumpFails
  <1>19. ASSUME CallWarmup  PROVE MaskIsDevices'
    BY <1>19 DEF CallWarmup
  <1>20. ASSUME WarmAdapter  PROVE MaskIsDevices'
    BY <1>20 DEF WarmAdapter
  <1>21. ASSUME WarmCommit  PROVE MaskIsDevices'
    BY <1>21 DEF WarmCommit, decVars
  <1>22. ASSUME WarmBegin  PROVE MaskIsDevices'
    <2>1. decoder_kv' = EmptyKv /\ mask_valid' = -1
      BY <1>22 DEF WarmBegin, BeginDecoder, ClearKv
    <2> QED  BY <2>1, <1>0 DEF EmptyKv, MinOf
  <1>23. ASSUME WarmStep  PROVE MaskIsDevices'
    <2>1. /\ mask_valid' = StepMask(UsedAfter(1)).cached
          /\ device_mask' = StepMask(UsedAfter(1)).device /\ CommitPlan(1)
      BY <1>23 DEF WarmStep, Step
    <2>2. decoder_kv'.used = MinOf(DecCap, decoder_kv'.next)
      BY <1>0, <2>1 DEF CommitPlan
    <2> QED  BY <1>0, <2>1, <2>2, StepMaskTrue
  <1>24. ASSUME WarmEnds  PROVE MaskIsDevices'
    <2>1. decoder_kv' = EmptyKv /\ mask_valid' = -1
      BY <1>24 DEF WarmEnds, ResetDecoder, ClearKv
    <2> QED  BY <2>1, <1>0 DEF EmptyKv, MinOf
  <1>25. ASSUME UNCHANGED vars  PROVE MaskIsDevices'
    BY <1>25 DEF vars
  <1> QED
    BY <1>1, <1>2, <1>3, <1>4, <1>5, <1>6, <1>7, <1>8, <1>9, <1>10, <1>11, <1>12,
        <1>13, <1>14, <1>15, <1>16, <1>17, <1>18, <1>19, <1>20, <1>21, <1>22, <1>23,
        <1>24, <1>25 DEF Next, Call, Drain, Pump, Warmup

\* Steps that leave a ring and its cursors alone keep what it holds.
LEMMA RowsKept ==
    ASSUME RowsInRing, UNCHANGED << stream, emitted, enc_out_ring >>
    PROVE  RowsInRing'
  <1>1. \A p : Row(p)' = Row(p)
    BY DEF Row
  <1> QED  BY <1>1 DEF RowsInRing, MaxOf

LEMMA GroupsKept ==
    ASSUME GroupsInRing, UNCHANGED << stream, committed, audio_emb_ring >>,
           \/ Consumed \in Nat /\ Consumed' \in Nat /\ Consumed <= Consumed' /\ committed \in Nat
           \/ UNCHANGED << prefilled, position >>
    PROVE  GroupsInRing'
  <1>1. \A g : GroupRows(g)' = GroupRows(g)
    BY DEF GroupRows, Row
  <1>2. CASE UNCHANGED << prefilled, position >>
    <2>1. Consumed' = Consumed
      BY <1>2 DEF Consumed
    <2> QED  BY <1>1, <2>1 DEF GroupsInRing
  <1>3. CASE Consumed \in Nat /\ Consumed' \in Nat /\ Consumed <= Consumed' /\ committed \in Nat
    <2>1. \A g \in Consumed'..(committed - 1) : g \in Consumed..(committed - 1)
      BY <1>3
    <2> QED  BY <1>1, <2>1 DEF GroupsInRing
  <1> QED  BY <1>2, <1>3

LEMMA KeysKept ==
    ASSUME KeysInRing, UNCHANGED << stream, decoder_kv, dec_ring >>
    PROVE  KeysInRing'
  <1>1. \A p : Entry(p)' = Entry(p)
    BY DEF Entry, GroupRows, Row
  <1> QED  BY <1>1 DEF KeysInRing

\* An empty span has no keys.
LEMMA NoKeys ==
    ASSUME decoder_kv' = EmptyKv
    PROVE  KeysInRing'
  <1>1. decoder_kv'.oldest..(decoder_kv'.next - 1) = {}
    BY DEF EmptyKv
  <1> QED  BY <1>1 DEF KeysInRing

LEMMA RingsUnchanged ==
    ASSUME RingsHold, status \in {"fresh", "open"},
           UNCHANGED << stream, emitted, incremental, enc_out_ring, audio_emb_ring, dec_ring,
                        decoder_kv, committed, prefilled, position >>
    PROVE  RingsHold'
  BY RowsKept, GroupsKept, KeysKept DEF RingsHold

\* A stream that starts expects nothing of the rings.
LEMMA RingsEmpty ==
    ASSUME emitted' = 0, committed' = 0, prefilled' = FALSE, decoder_kv' = EmptyKv
    PROVE  RingsHold'
  <1>1. RowsInRing'
    <2>1. MaxOf(0, emitted' - OutCap)..(emitted' - 1) = {}
      BY EncoderAssumption DEF MaxOf
    <2> QED  BY <2>1 DEF RowsInRing, MaxOf
  <1>2. GroupsInRing'
    <2>1. Consumed' = 0 /\ 0..(committed' - 1) = {}
      BY DEF Consumed
    <2> QED  BY <2>1 DEF GroupsInRing
  <1> QED  BY <1>1, <1>2, NoKeys DEF RingsHold

\* Only a fresh or an open stream has a call running.
LEMMA LiveCall ==
    ASSUME FlowCounts, pc # "idle"
    PROVE  status \in {"fresh", "open"}
  BY DEF FlowCounts, PipeInv, PrefillsOnce

\* A commit of complete groups that fit keeps what the decoder has to read.
LEMMA CommitRing ==
    ASSUME FlowCounts, RowsInRing, GroupsInRing, NEW run \in Nat \ {0},
           (committed + run) * Group <= emitted, emitted - OutCap <= committed * Group,
           Consumed <= committed, committed + run <= Consumed + AembCap,
           AdapterGraph(committed, run), committed' = committed + run,
           UNCHANGED << stream, emitted, enc_out_ring, prefilled, position >>
    PROVE  GroupsInRing'
  <1>1. \A p \in (committed * Group)..((committed + run) * Group - 1) :
            enc_out_ring[p % OutCap] = Row(p)
    <2> DEFINE lo == committed * Group
               hi == (committed + run) * Group
    <2>1. lo \in Nat /\ hi \in Nat
      BY FlowTypes
    <2>2. hi <= emitted /\ emitted - OutCap <= lo
      OBVIOUS
    <2> HIDE DEF lo, hi
    <2>3. \A p \in lo..(hi - 1) : p \in MaxOf(0, emitted - OutCap)..(emitted - 1)
      BY <2>1, <2>2, FlowTypes DEF MaxOf
    <2>4. \A p \in lo..(hi - 1) : enc_out_ring[p % OutCap] = Row(p)
      BY <2>3 DEF RowsInRing
    <2> QED  BY <2>4 DEF lo, hi
  <1>2. committed \in Nat /\ Consumed \in Nat
    BY FlowTypes
  <1>3. \A k \in Consumed..(committed - 1) : audio_emb_ring[k % AembCap] = GroupRows(k)
    BY DEF GroupsInRing
  <1>4. \A k \in Consumed..(committed + run - 1) : audio_emb_ring'[k % AembCap] = GroupRows(k)
    <2> HIDE DEF Consumed
    <2> QED  BY <1>1, <1>2, <1>3, AdapterKeeps, Zenon
  <1>5. Consumed' = Consumed
    BY DEF Consumed
  <1>6. \A g : GroupRows(g)' = GroupRows(g)
    BY DEF GroupRows, Row
  <1>7. committed' - 1 = committed + run - 1
    BY <1>2
  <1> QED  BY <1>4, <1>5, <1>6, <1>7 DEF GroupsInRing

\* And a decoder step keeps the keys of its span.
LEMMA StepKeepsKeys ==
    ASSUME FlowCounts, MaskIsDevices, GroupsInRing, KeysInRing,
           Consumed = position, position < committed, Step(position), UNCHANGED stream
    PROVE  KeysInRing'
  <1> DEFINE p == position
  <1>1. p \in Nat /\ committed \in Nat
    BY FlowTypes
  <1>2. AudioAt(p) = GroupRows(p)
    BY <1>1 DEF AudioAt, GroupsInRing
  <1>3. p = decoder_kv.next /\ dec_ring' = WritePositions(p, 1) /\ CommitPlan(1)
    BY DEF Step, ValidAppend
  <1> HIDE DEF p
  <1>4. \A k \in MaxOf(0, p + 1 - DecCap)..p : dec_ring'[k % DecCap] = Entry(k)
    BY <1>1, <1>2, <1>3, StepRing
  <1>5. decoder_kv'.next = p + 1 /\ decoder_kv'.oldest = MaxOf(0, p + 1 - DecCap)
    <2>1. UsedAfter(1) = MinOf(DecCap, p + 1) /\ DecCap \in Nat
      BY <1>3, SpanProperty, DecoderAssumption
    <2> QED  BY <1>1, <1>3, <2>1 DEF CommitPlan, MinOf, MaxOf
  <1>6. (p + 1) - 1 = p
    BY <1>1
  <1>7. \A k : Entry(k)' = Entry(k)
    BY DEF Entry, GroupRows, Row
  <1> QED  BY <1>4, <1>5, <1>6, <1>7 DEF KeysInRing

\* Every graph finds in its ring what it reads, and leaves what the next one reads.
LEMMA RingsStep ==
    ASSUME FlowCounts, MaskIsDevices, RingsHold, [Next]_vars
    PROVE  RingsHold'
  <1> USE DEF encVars, encConfig, encCounts, encDevice, encGhosts, decVars, pipeVars
  <1>1. ASSUME NEW m \in FeedSizes, CallFeed(m)  PROVE RingsHold'
    <2>1. UNCHANGED << stream, emitted, incremental, enc_out_ring, audio_emb_ring, dec_ring,
                       decoder_kv, committed, prefilled, position >>
      BY <1>1 DEF CallFeed
    <2>2. status \in {"fresh", "open"}
      BY <1>1 DEF CallFeed
    <2> QED  BY <2>1, <2>2, RingsUnchanged
  <1>2. ASSUME CallResume  PROVE RingsHold'
    <2>1. UNCHANGED << stream, emitted, incremental, enc_out_ring, audio_emb_ring, dec_ring,
                       decoder_kv, committed, prefilled, position >>
      BY <1>2 DEF CallResume
    <2>2. status \in {"fresh", "open"}
      BY <1>2 DEF CallResume
    <2> QED  BY <2>1, <2>2, RingsUnchanged
  <1>3. ASSUME CallFinish  PROVE RingsHold'
    <2>1. UNCHANGED << stream, emitted, incremental, enc_out_ring, audio_emb_ring, dec_ring,
                       decoder_kv, committed, prefilled, position >>
      BY <1>3 DEF CallFinish
    <2>2. status \in {"fresh", "open"}
      BY <1>3 DEF CallFinish
    <2> QED  BY <2>1, <2>2, RingsUnchanged
  <1>4. ASSUME CallReset  PROVE RingsHold'
    <2>1. /\ emitted' = 0 /\ committed' = 0 /\ prefilled' = FALSE /\ decoder_kv' = EmptyKv
      BY <1>4 DEF CallReset, ResetEncoder, ResetDecoder, ClearKv
    <2> QED  BY <2>1, RingsEmpty
  <1>5. ASSUME DrainOne  PROVE RingsHold'
    <2>1. UNCHANGED << stream, emitted, incremental, enc_out_ring, audio_emb_ring, dec_ring,
                       decoder_kv, committed, prefilled, position >>
      BY <1>5 DEF DrainOne, Goto, PushMel
    <2>2. status \in {"fresh", "open"}
      BY <1>5, LiveCall DEF DrainOne, Goto, PushMel
    <2> QED  BY <2>1, <2>2, RingsUnchanged
  <1>6. ASSUME DrainFinal  PROVE RingsHold'
    <2>1. UNCHANGED << stream, emitted, incremental, enc_out_ring, audio_emb_ring, dec_ring,
                       decoder_kv, committed, prefilled, position >>
      BY <1>6 DEF DrainFinal, Goto, PushMel
    <2>2. status \in {"fresh", "open"}
      BY <1>6, LiveCall DEF DrainFinal, Goto, PushMel
    <2> QED  BY <2>1, <2>2, RingsUnchanged
  <1>7. ASSUME AfterDrain  PROVE RingsHold'
    <2>1. UNCHANGED << stream, emitted, incremental, enc_out_ring, audio_emb_ring, dec_ring,
                       decoder_kv, committed, prefilled, position >>
      BY <1>7 DEF AfterDrain, Goto
    <2>2. status \in {"fresh", "open"}
      BY <1>7, LiveCall DEF AfterDrain, Goto
    <2> QED  BY <2>1, <2>2, RingsUnchanged
  <1>8. ASSUME DriveOne  PROVE RingsHold'
    <2> DEFINE final == pc = "drive_final"
               l     == NextLaunch(final)
               n     == l.n
    <2>1. /\ emitted' = l.q + l.n /\ l # NoLaunch /\ StoreOutput(l)
          /\ UNCHANGED << stream, incremental, audio_emb_ring, dec_ring, decoder_kv,
                          committed, prefilled, position, status >>
      BY <1>8 DEF DriveOne, Launch
    <2>2. l.q = emitted /\ n \in 1..MaxNew
      <3>1. EncInv /\ final \in BOOLEAN
        BY DEF FlowCounts, PipeInv
      <3> HIDE DEF final
      <3> QED  BY <2>1, <3>1, NextLaunchProperty
    <2>3. emitted' = emitted + n
      BY <2>1, <2>2
    <2> SUFFICES ASSUME incremental, status \in {"fresh", "open"}
                 PROVE  RingsHold'
      BY <2>1 DEF RingsHold
    <2>4. enc_out_ring' = CopyOut(emitted, n)
      BY <2>1, <2>2 DEF StoreOutput
    <2> HIDE DEF n, l
    <2>5. \A p \in MaxOf(0, emitted + n - OutCap)..(emitted + n - 1) :
              CopyOut(emitted, n)[p % OutCap] = Row(p)
      BY <2>2, FlowTypes, OutputWholeRing DEF RowsInRing, RingsHold
    <2>6. RowsInRing'
      <3>1. \A p : Row(p)' = Row(p)
        BY <2>1 DEF Row
      <3>2. emitted' - 1 = emitted + n - 1
        BY <2>2, <2>3, FlowTypes
      <3>3. MaxOf(0, emitted - OutCap)' = MaxOf(0, emitted + n - OutCap)
        BY <2>2, <2>3, FlowTypes DEF MaxOf
      <3> QED  BY <2>4, <2>5, <3>1, <3>2, <3>3 DEF RowsInRing
    <2> QED  BY <2>1, <2>6, GroupsKept, KeysKept DEF RingsHold
  <1>9. ASSUME DriveFails  PROVE RingsHold'
    <2>1. status' = "failed"
      BY <1>9 DEF DriveFails, Fail
    <2> QED  BY <2>1 DEF RingsHold
  <1>10. ASSUME DriveEnds  PROVE RingsHold'
    <2>1. UNCHANGED << stream, emitted, incremental, enc_out_ring, audio_emb_ring, dec_ring,
                       decoder_kv, committed, prefilled, position >>
      BY <1>10 DEF DriveEnds, Goto, FinishEncoder
    <2>2. status \in {"fresh", "open"}
      BY <1>10, LiveCall DEF DriveEnds, Goto, FinishEncoder
    <2> QED  BY <2>1, <2>2, RingsUnchanged
  <1>11. ASSUME CommitOne  PROVE RingsHold'
    <2>1. PICK run : /\ Committable > committed /\ run = AdapterRun(Committable - committed)
                     /\ AdapterGraph(committed, run) /\ committed' = committed + run
                     /\ UNCHANGED << stream, incremental, emitted, enc_out_ring, dec_ring,
                                     decoder_kv, prefilled, position, status >>
                     /\ pc = "commit"
      BY <1>11 DEF CommitOne
    <2>2. incremental /\ status \in {"fresh", "open"}
      BY <2>1, LiveCall DEF FlowCounts, PumpCaughtUp
    <2>3. run \in Nat \ {0}
      BY <2>1, CommitProperty
    <2>4. (committed + run) * Group <= emitted
      BY <2>1, CommitProperty
    <2>5. emitted - OutCap <= committed * Group
      <3>1. status = "open" /\ stable_mel = mel_total
        BY <1>11 DEF CommitOne, FlowCounts, EncoderCaughtUp, PipeInv, PrefillsOnce
      <3>2. emitted <= Realizable(mel_total) /\ Realizable(mel_total) <= committed * Group + OutCap
        BY <2>2, <3>1, FlowTypes DEF FlowCounts, PumpCaughtUp
      <3>3. committed * Group \in Nat
        BY FlowTypes
      <3> QED  BY <3>2, <3>3, FlowTypes
    <2>6. Consumed <= committed /\ committed + run <= Consumed + AembCap
      <3>1. status = "open"
        BY <1>11 DEF CommitOne, FlowCounts, PipeInv, PrefillsOnce
      <3>2. Consumed <= committed
        BY <2>2, <3>1, FlowTypes DEF FlowCounts, PumpCaughtUp, Consumed
      <3> QED  BY <2>1, <3>2, CommitProperty
    <2>7. committed' = committed + run /\ AdapterGraph(committed, run)
          /\ UNCHANGED << stream, emitted, enc_out_ring, prefilled, position >>
      BY <2>1
    <2>8. RowsInRing /\ GroupsInRing /\ KeysInRing
      BY <2>2 DEF RingsHold
    <2>9. GroupsInRing'
      BY <2>3, <2>4, <2>5, <2>6, <2>7, <2>8, CommitRing
    <2> QED  BY <2>1, <2>8, <2>9, RowsKept, KeysKept DEF RingsHold
  <1>12. ASSUME BeginPrefill  PROVE RingsHold'
    <2>1. /\ decoder_kv' = EmptyKv
          /\ UNCHANGED << stream, emitted, incremental, enc_out_ring, audio_emb_ring,
                          committed, prefilled, position, status >>
      BY <1>12 DEF BeginPrefill, BeginDecoder, ClearKv, Goto
    <2>2. KeysInRing'
      BY <2>1, NoKeys
    <2> QED  BY <2>1, <2>2, RowsKept, GroupsKept DEF RingsHold
  <1>13. ASSUME RunPrefill  PROVE RingsHold'
    <2>1. /\ ~prefilled /\ decoder_kv = EmptyKv /\ incremental /\ status \in {"fresh", "open"}
          /\ PromptLen - 1 <= committed
      <3>1. pc = "prefill"
        BY <1>13 DEF RunPrefill
      <3>2. call = "warmup" => committed = PromptLen
        BY <3>1 DEF FlowCounts, WarmupCounts
      <3>3. status = IF call = "warmup" THEN "fresh" ELSE "open"
        BY <3>1 DEF FlowCounts, PipeInv, PrefillsOnce
      <3>4. incremental /\ (status = "open" => PromptLen - 1 <= committed)
        BY <3>1 DEF FlowCounts, PumpCaughtUp
      <3>5. ~prefilled /\ decoder_kv = EmptyKv
        BY <3>1 DEF FlowCounts, PipeInv, PrefillsOnce
      <3> QED  BY <3>2, <3>3, <3>4, <3>5, FlowTypes
    <2>2. /\ position' = PromptLen - 1 /\ prefilled' = TRUE
          /\ dec_ring' = PrefillGraph(PromptLen - 1) /\ CommitPlan(PromptLen - 1)
          /\ UNCHANGED << stream, incremental, emitted, enc_out_ring, audio_emb_ring,
                          committed, status >>
      BY <1>13 DEF RunPrefill, Prefill
    <2>3. RowsInRing /\ \A g \in 0..(committed - 1) : audio_emb_ring[g % AembCap] = GroupRows(g)
      BY <2>1 DEF Consumed, RingsHold, GroupsInRing
    <2> DEFINE n == PromptLen - 1
    <2>4. /\ n \in Nat /\ n <= DecCap /\ n <= AembCap /\ n <= committed
      BY <2>1, FlowTypes, PipelineAssumption
    <2>5. KeysInRing'
      <3>1. \A g \in 0..(n - 1) : audio_emb_ring[g % AembCap] = GroupRows(g)
        BY <2>3, <2>4, FlowTypes
      <3>2. dec_ring' = PrefillGraph(n) /\ CommitPlan(n)
        BY <2>2
      <3> HIDE DEF n
      <3>3. \A p \in 0..(n - 1) : PrefillGraph(n)[p % DecCap] = Entry(p)
        BY <2>1, <2>4, <3>1, PrefillWrites
      <3>4. decoder_kv'.oldest = 0 /\ decoder_kv'.next = n
        BY <2>1, <2>4, <3>2, DecoderAssumption DEF CommitPlan, UsedAfter, EmptyKv, MinOf
      <3>5. \A p : Entry(p)' = Entry(p)
        BY <2>2 DEF Entry, GroupRows, Row
      <3> QED  BY <3>2, <3>3, <3>4, <3>5 DEF KeysInRing
    <2>6. GroupsInRing'
      <3>1. Consumed' = n
        BY <2>2 DEF Consumed
      <3> HIDE DEF n
      <3>2. \A g \in n..(committed - 1) : audio_emb_ring[g % AembCap] = GroupRows(g)
        BY <2>3, <2>4, FlowTypes
      <3>3. \A g : GroupRows(g)' = GroupRows(g)
        BY <2>2 DEF GroupRows, Row
      <3> QED  BY <2>2, <3>1, <3>2, <3>3 DEF GroupsInRing
    <2> QED  BY <2>2, <2>3, <2>5, <2>6, RowsKept DEF RingsHold
  <1>14. ASSUME CommitEnds  PROVE RingsHold'
    <2>1. UNCHANGED << stream, emitted, incremental, enc_out_ring, audio_emb_ring, dec_ring,
                       decoder_kv, committed, prefilled, position >>
      BY <1>14 DEF CommitEnds, Goto
    <2>2. status \in {"fresh", "open"}
      BY <1>14, LiveCall DEF CommitEnds, Goto
    <2> QED  BY <2>1, <2>2, RingsUnchanged
  <1>15. ASSUME FlushPending  PROVE RingsHold'
    <2>1. /\ UNCHANGED << stream, incremental, emitted, enc_out_ring, audio_emb_ring, dec_ring,
                          decoder_kv, committed, prefilled, status >>
          /\ position' \in {position, position + 1}
      BY <1>15 DEF FlushPending
    <2>2. Consumed' \in Nat /\ Consumed <= Consumed'
      BY <2>1, FlowTypes DEF Consumed
    <2> QED  BY <2>1, <2>2, FlowTypes, RowsKept, GroupsKept, KeysKept DEF RingsHold
  <1>16. ASSUME StepOne  PROVE RingsHold'
    <2>1. /\ Step(position) /\ prefilled
          /\ UNCHANGED << stream, incremental, emitted, enc_out_ring, audio_emb_ring,
                          committed, prefilled, status >>
          /\ position' \in {position, position + 1}
      BY <1>16 DEF StepOne, Step
    <2>0. position < committed
      BY <1>16, FlowTypes DEF StepOne
    <2>2. Consumed' \in Nat /\ Consumed <= Consumed' /\ Consumed = position
      BY <2>1, FlowTypes DEF Consumed
    <2> SUFFICES ASSUME incremental, status \in {"fresh", "open"}
                 PROVE  RingsHold'
      BY <2>1 DEF RingsHold
    <2>3. RowsInRing /\ GroupsInRing /\ KeysInRing
      BY DEF RingsHold
    <2>4. KeysInRing'
      <3>1. UNCHANGED stream
        BY <2>1
      <3> QED  BY <2>0, <2>1, <2>2, <2>3, <3>1, FlowTypes, StepKeepsKeys
    <2> QED  BY <2>1, <2>2, <2>3, <2>4, FlowTypes, RowsKept, GroupsKept DEF RingsHold
  <1>17. ASSUME PumpEnds  PROVE RingsHold'
    <2>1. UNCHANGED << stream, emitted, incremental, enc_out_ring, audio_emb_ring, dec_ring,
                       decoder_kv, committed, prefilled, position >>
      BY <1>17 DEF PumpEnds
    <2>2. status \in {"fresh", "open"}
      BY <1>17, LiveCall DEF PumpEnds
    <2> QED  BY <2>1, <2>2, RingsUnchanged
  <1>18. ASSUME PumpFails  PROVE RingsHold'
    <2>1. status' = "failed"
      BY <1>18 DEF PumpFails, Fail
    <2> QED  BY <2>1 DEF RingsHold
  <1>19. ASSUME CallWarmup  PROVE RingsHold'
    <2>1. UNCHANGED << stream, emitted, incremental, enc_out_ring, audio_emb_ring, dec_ring,
                       decoder_kv, committed, prefilled, position >>
      BY <1>19 DEF CallWarmup, PushMel
    <2>2. status \in {"fresh", "open"}
      BY <1>19 DEF CallWarmup, PushMel
    <2> QED  BY <2>1, <2>2, RingsUnchanged
  <1>20. ASSUME WarmAdapter  PROVE RingsHold'
    <2>1. UNCHANGED << stream, emitted, incremental, enc_out_ring, audio_emb_ring, dec_ring,
                       decoder_kv, committed, prefilled, position >>
      BY <1>20 DEF WarmAdapter
    <2>2. status \in {"fresh", "open"}
      BY <1>20, LiveCall DEF WarmAdapter
    <2> QED  BY <2>1, <2>2, RingsUnchanged
  <1>21. ASSUME WarmCommit  PROVE RingsHold'
    <2>1. PICK run : /\ committed < PromptLen /\ run = AdapterRun(PromptLen - committed)
                     /\ AdapterGraph(committed, run) /\ committed' = committed + run
                     /\ UNCHANGED << stream, incremental, emitted, enc_out_ring, dec_ring,
                                     decoder_kv, prefilled, position, status >>
                     /\ pc = "commit"
      BY <1>21 DEF WarmCommit
    <2>2. incremental /\ status \in {"fresh", "open"}
      BY <2>1, LiveCall DEF FlowCounts, PumpCaughtUp
    <2>3. run \in Nat \ {0} /\ committed + run <= PromptLen
      BY <2>1, FlowTypes, DecoderAssumption DEF AdapterRun
    <2>0. emitted = PromptLen * Group
      BY <1>21 DEF WarmCommit, FlowCounts, WarmupCounts
    <2>4. (committed + run) * Group <= emitted
      <3>1. committed + run \in Int /\ PromptLen \in Int /\ Group \in Nat
        BY <2>3, FlowTypes
      <3> QED  BY <2>3, <2>0, <3>1, TimesMonotone, Zenon
    <2>5. emitted - OutCap <= committed * Group
      <3>1. emitted <= OutCap /\ committed * Group \in Nat
        BY <2>0, FlowTypes, PromptAssumption
      <3> QED  BY <3>1, FlowTypes
    <2>6. Consumed <= committed /\ committed + run <= Consumed + AembCap
      <3>1. ~prefilled
        BY <1>21 DEF WarmCommit, FlowCounts, PipeInv, PrefillsOnce
      <3>2. Consumed = 0
        BY <3>1 DEF Consumed
      <3> QED  BY <2>3, <3>2, FlowTypes, PipelineAssumption
    <2>7. committed' = committed + run /\ AdapterGraph(committed, run)
          /\ UNCHANGED << stream, emitted, enc_out_ring, prefilled, position >>
      BY <2>1
    <2>8. RowsInRing /\ GroupsInRing /\ KeysInRing
      BY <2>2 DEF RingsHold
    <2>9. GroupsInRing'
      BY <2>3, <2>4, <2>5, <2>6, <2>7, <2>8, CommitRing
    <2> QED  BY <2>1, <2>8, <2>9, RowsKept, KeysKept DEF RingsHold
  <1>22. ASSUME WarmBegin  PROVE RingsHold'
    <2>1. /\ decoder_kv' = EmptyKv
          /\ UNCHANGED << stream, emitted, incremental, enc_out_ring, audio_emb_ring,
                          committed, prefilled, position, status >>
      BY <1>22 DEF WarmBegin, BeginDecoder, ClearKv, Goto
    <2>2. KeysInRing'
      BY <2>1, NoKeys
    <2> QED  BY <2>1, <2>2, RowsKept, GroupsKept DEF RingsHold
  <1>23. ASSUME WarmStep  PROVE RingsHold'
    <2>1. /\ Step(position) /\ prefilled
          /\ UNCHANGED << stream, incremental, emitted, enc_out_ring, audio_emb_ring,
                          committed, prefilled, status >>
          /\ position' \in {position, position + 1}
      BY <1>23 DEF WarmStep, FlowCounts, WarmupCounts, Step
    <2>0. position < committed
      BY <1>23, FlowTypes DEF WarmStep, FlowCounts, WarmupCounts
    <2>2. Consumed' \in Nat /\ Consumed <= Consumed' /\ Consumed = position
      BY <2>1, FlowTypes DEF Consumed
    <2> SUFFICES ASSUME incremental, status \in {"fresh", "open"}
                 PROVE  RingsHold'
      BY <2>1 DEF RingsHold
    <2>3. RowsInRing /\ GroupsInRing /\ KeysInRing
      BY DEF RingsHold
    <2>4. KeysInRing'
      <3>1. UNCHANGED stream
        BY <2>1
      <3> QED  BY <2>0, <2>1, <2>2, <2>3, <3>1, FlowTypes, StepKeepsKeys
    <2> QED  BY <2>1, <2>2, <2>3, <2>4, FlowTypes, RowsKept, GroupsKept DEF RingsHold
  <1>24. ASSUME WarmEnds  PROVE RingsHold'
    <2>1. /\ emitted' = 0 /\ committed' = 0 /\ prefilled' = FALSE /\ decoder_kv' = EmptyKv
      BY <1>24 DEF WarmEnds, ResetEncoder, ResetDecoder, ClearKv
    <2> QED  BY <2>1, RingsEmpty
  <1>25. ASSUME UNCHANGED vars  PROVE RingsHold'
    <2>1. UNCHANGED << stream, emitted, incremental, enc_out_ring, audio_emb_ring, dec_ring,
                       decoder_kv, committed, prefilled, position, status >>
      BY <1>25 DEF vars
    <2> QED  BY <2>1, RowsKept, GroupsKept, KeysKept DEF RingsHold
  <1> QED
    BY <1>1, <1>2, <1>3, <1>4, <1>5, <1>6, <1>7, <1>8, <1>9, <1>10, <1>11, <1>12,
        <1>13, <1>14, <1>15, <1>16, <1>17, <1>18, <1>19, <1>20, <1>21, <1>22, <1>23,
        <1>24, <1>25 DEF Next, Call, Drain, Pump, Warmup

-----------------------------------------------------------------------------
(* What was decoded. *)

\* Only a decoder step changes what was decoded, and a reset forgets it.
LEMMA ReadsKept ==
    ASSUME StepReadsRight, UNCHANGED << stream, decoded >>
    PROVE  StepReadsRight'
  <1>1. \A g : GroupRows(g)' = GroupRows(g)
    BY DEF GroupRows, Row
  <1> QED  BY <1>1 DEF StepReadsRight, StepHearsOwnGroup, StepSeesSlidingWindow, MaxOf

LEMMA ReadsNothing ==
    ASSUME decoded' = NotDecoded
    PROVE  StepReadsRight'
  BY DEF NotDecoded, StepReadsRight, StepHearsOwnGroup, StepSeesSlidingWindow

\* A step whose group is in the embedding ring reads that group and the keys of its
\* own window.
LEMMA StepReads ==
    ASSUME FlowCounts, MaskIsDevices, GroupsInRing, KeysInRing,
           Consumed = position, position < committed, Step(position), UNCHANGED stream
    PROVE  StepReadsRight'
  <1> DEFINE p == position
  <1>1. p \in Nat /\ committed \in Nat
    BY FlowTypes
  <1>2. AudioAt(p) = GroupRows(p)
    BY <1>1 DEF AudioAt, GroupsInRing
  <1>3. p = decoder_kv.next
        /\ decoded' = [pos |-> p, audio |-> AudioAt(p),
                       keys |-> { WritePositions(p, 1)[s] : s \in OpenSlots(StepMask(UsedAfter(1))) }]
    BY DEF Step, ValidAppend
  <1> HIDE DEF p
  <1>4. { WritePositions(p, 1)[s] : s \in OpenSlots(StepMask(UsedAfter(1))) }
            = { Entry(k) : k \in MaxOf(0, p - (DecCap - 1))..p }
    BY <1>1, <1>2, <1>3, StepKeys
  <1>5. \A g : GroupRows(g)' = GroupRows(g)
    BY DEF GroupRows, Row
  <1>6. decoded'.pos = p /\ decoded'.audio = GroupRows(p)
        /\ decoded'.keys = { Entry(k) : k \in MaxOf(0, p - (DecCap - 1))..p }
    BY <1>2, <1>3, <1>4
  <1>7. StepHearsOwnGroup'
    BY <1>5, <1>6 DEF StepHearsOwnGroup
  <1>8. StepSeesSlidingWindow'
    BY <1>5, <1>6 DEF StepSeesSlidingWindow, Entry, MaxOf
  <1> QED  BY <1>7, <1>8 DEF StepReadsRight

\* No step of the pump or of a warmup reads anything else.
LEMMA ReadsStep ==
    ASSUME FlowCounts, MaskIsDevices, RingsHold, StepReadsRight, [Next]_vars
    PROVE  StepReadsRight'
  <1> USE DEF encVars, decVars, pipeVars
  <1>1. ASSUME NEW m \in FeedSizes, CallFeed(m)  PROVE StepReadsRight'
    <2>1. UNCHANGED << stream, decoded >>
      BY <1>1 DEF CallFeed
    <2> QED  BY <2>1, ReadsKept
  <1>2. ASSUME CallResume  PROVE StepReadsRight'
    <2>1. UNCHANGED << stream, decoded >>
      BY <1>2 DEF CallResume
    <2> QED  BY <2>1, ReadsKept
  <1>3. ASSUME CallFinish  PROVE StepReadsRight'
    <2>1. UNCHANGED << stream, decoded >>
      BY <1>3 DEF CallFinish
    <2> QED  BY <2>1, ReadsKept
  <1>4. ASSUME CallReset  PROVE StepReadsRight'
    <2>1. decoded' = NotDecoded
      BY <1>4 DEF CallReset, ResetDecoder
    <2> QED  BY <2>1, ReadsNothing
  <1>5. ASSUME DrainOne  PROVE StepReadsRight'
    <2>1. UNCHANGED << stream, decoded >>
      BY <1>5 DEF DrainOne, PushMel
    <2> QED  BY <2>1, ReadsKept
  <1>6. ASSUME DrainFinal  PROVE StepReadsRight'
    <2>1. UNCHANGED << stream, decoded >>
      BY <1>6 DEF DrainFinal, PushMel
    <2> QED  BY <2>1, ReadsKept
  <1>7. ASSUME AfterDrain  PROVE StepReadsRight'
    <2>1. UNCHANGED << stream, decoded >>
      BY <1>7 DEF AfterDrain
    <2> QED  BY <2>1, ReadsKept
  <1>8. ASSUME DriveOne  PROVE StepReadsRight'
    <2>1. UNCHANGED << stream, decoded >>
      BY <1>8 DEF DriveOne, Launch
    <2> QED  BY <2>1, ReadsKept
  <1>9. ASSUME DriveFails  PROVE StepReadsRight'
    <2>1. UNCHANGED << stream, decoded >>
      BY <1>9 DEF DriveFails, LaunchFails
    <2> QED  BY <2>1, ReadsKept
  <1>10. ASSUME DriveEnds  PROVE StepReadsRight'
    <2>1. UNCHANGED << stream, decoded >>
      BY <1>10 DEF DriveEnds, FinishEncoder
    <2> QED  BY <2>1, ReadsKept
  <1>11. ASSUME CommitOne  PROVE StepReadsRight'
    <2>1. UNCHANGED << stream, decoded >>
      BY <1>11 DEF CommitOne
    <2> QED  BY <2>1, ReadsKept
  <1>12. ASSUME BeginPrefill  PROVE StepReadsRight'
    <2>1. UNCHANGED << stream, decoded >>
      BY <1>12 DEF BeginPrefill, BeginDecoder
    <2> QED  BY <2>1, ReadsKept
  <1>13. ASSUME RunPrefill  PROVE StepReadsRight'
    <2>1. UNCHANGED << stream, decoded >>
      BY <1>13 DEF RunPrefill, Prefill
    <2> QED  BY <2>1, ReadsKept
  <1>14. ASSUME CommitEnds  PROVE StepReadsRight'
    <2>1. UNCHANGED << stream, decoded >>
      BY <1>14 DEF CommitEnds
    <2> QED  BY <2>1, ReadsKept
  <1>15. ASSUME FlushPending  PROVE StepReadsRight'
    <2>1. UNCHANGED << stream, decoded >>
      BY <1>15 DEF FlushPending
    <2> QED  BY <2>1, ReadsKept
  <1>16. ASSUME StepOne  PROVE StepReadsRight'
    <2>1. Step(position) /\ prefilled /\ UNCHANGED stream /\ pc = "step"
      BY <1>16 DEF StepOne
    <2>2. position < committed /\ Consumed = position
      BY <1>16, <2>1, FlowTypes DEF Consumed, StepOne
    <2>3. GroupsInRing /\ KeysInRing
      <3>1. incremental /\ status \in {"fresh", "open"}
        BY <2>1, LiveCall DEF FlowCounts, PumpCaughtUp
      <3> QED  BY <3>1 DEF RingsHold
    <2> QED  BY <2>1, <2>2, <2>3, StepReads
  <1>17. ASSUME PumpEnds  PROVE StepReadsRight'
    <2>1. UNCHANGED << stream, decoded >>
      BY <1>17 DEF PumpEnds
    <2> QED  BY <2>1, ReadsKept
  <1>18. ASSUME PumpFails  PROVE StepReadsRight'
    <2>1. UNCHANGED << stream, decoded >>
      BY <1>18 DEF PumpFails, StepFails
    <2> QED  BY <2>1, ReadsKept
  <1>19. ASSUME CallWarmup  PROVE StepReadsRight'
    <2>1. UNCHANGED << stream, decoded >>
      BY <1>19 DEF CallWarmup, PushMel
    <2> QED  BY <2>1, ReadsKept
  <1>20. ASSUME WarmAdapter  PROVE StepReadsRight'
    <2>1. UNCHANGED << stream, decoded >>
      BY <1>20 DEF WarmAdapter
    <2> QED  BY <2>1, ReadsKept
  <1>21. ASSUME WarmCommit  PROVE StepReadsRight'
    <2>1. UNCHANGED << stream, decoded >>
      BY <1>21 DEF WarmCommit
    <2> QED  BY <2>1, ReadsKept
  <1>22. ASSUME WarmBegin  PROVE StepReadsRight'
    <2>1. UNCHANGED << stream, decoded >>
      BY <1>22 DEF WarmBegin, BeginDecoder
    <2> QED  BY <2>1, ReadsKept
  <1>23. ASSUME WarmStep  PROVE StepReadsRight'
    <2>1. Step(position) /\ prefilled /\ UNCHANGED stream /\ pc = "step"
      BY <1>23 DEF WarmStep, FlowCounts, WarmupCounts
    <2>2. position < committed /\ Consumed = position
      BY <1>23, <2>1, FlowTypes DEF Consumed, WarmStep, FlowCounts, WarmupCounts
    <2>3. GroupsInRing /\ KeysInRing
      <3>1. incremental /\ status \in {"fresh", "open"}
        BY <2>1, LiveCall DEF FlowCounts, PumpCaughtUp
      <3> QED  BY <3>1 DEF RingsHold
    <2> QED  BY <2>1, <2>2, <2>3, StepReads
  <1>24. ASSUME WarmEnds  PROVE StepReadsRight'
    <2>1. decoded' = NotDecoded
      BY <1>24 DEF WarmEnds, ResetDecoder
    <2> QED  BY <2>1, ReadsNothing
  <1>25. ASSUME UNCHANGED vars  PROVE StepReadsRight'
    <2>1. UNCHANGED << stream, decoded >>
      BY <1>25 DEF vars
    <2> QED  BY <2>1, ReadsKept
  <1> QED
    BY <1>1, <1>2, <1>3, <1>4, <1>5, <1>6, <1>7, <1>8, <1>9, <1>10, <1>11, <1>12,
        <1>13, <1>14, <1>15, <1>16, <1>17, <1>18, <1>19, <1>20, <1>21, <1>22, <1>23,
        <1>24, <1>25 DEF Next, Call, Drain, Pump, Warmup

\* What finish leaves undecoded: nothing.  Its pump starts from every row of the
\* padded audio, and the pads are long enough for the prefill.
LEMMA FinishDecodesAll ==
    ASSUME FlowCounts, pc = "step", call = "finish", ~paused,
           ~(prefilled /\ position <= committed - 1)
    PROVE  /\ emitted = mel_total \div 2
           /\ committed = emitted \div Group /\ position = committed
  <1>1. status = "open" /\ incremental
    BY DEF FlowCounts, PumpCaughtUp, PipeInv, PrefillsOnce
  <1>2. emitted = Realizable(mel_total) /\ LeftMel + RightMel <= mel_total
    BY <1>1 DEF FlowCounts, EncoderCaughtUp
  <1>3. emitted = mel_total \div 2
    BY <1>2, FlowTypes, RealizableSum
  <1>4. committed * Group <= emitted /\ emitted < (committed + 1) * Group /\ position <= committed
    BY <1>1 DEF FlowCounts, PumpCaughtUp
  <1>5. committed = emitted \div Group
    BY <1>4, FlowTypes, GroupsUnique
  <1>6. prefilled
    <2> SUFFICES ASSUME ~prefilled  PROVE FALSE
      BY FlowTypes
    <2> DEFINE n == PromptLen - 1
               rows == n * Group
    <2>1. n \in Nat /\ rows \in Nat /\ n * 2 * Group = 2 * rows
      <3>1. n \in Nat /\ Group \in Nat
        BY FlowTypes
      <3> HIDE DEF n
      <3> QED  BY <3>1
    <2>2. committed + 1 <= n
      BY <1>1, FlowTypes DEF FlowCounts, PumpCaughtUp
    <2>3. (committed + 1) * Group <= rows
      <3>1. committed + 1 \in Int /\ n \in Int /\ Group \in Nat
        BY <2>1, FlowTypes
      <3> HIDE DEF n
      <3> QED  BY <2>2, <3>1, TimesMonotone, Zenon
    <2>4. 2 * rows <= mel_total
      <3>1. n * 2 * Group <= LeftMel + RightMel
        BY PromptAssumption
      <3> HIDE DEF n, rows
      <3> QED  BY <1>2, <2>1, <3>1, FlowTypes
    <2>5. (committed + 1) * Group \in Int
      BY FlowTypes
    <2> HIDE DEF rows, n
    <2>6. rows <= mel_total \div 2
      BY <2>1, <2>4, FlowTypes
    <2> QED  BY <1>3, <1>4, <2>1, <2>3, <2>5, <2>6, FlowTypes
  <1>7. position = committed
    BY <1>4, <1>6, FlowTypes
  <1> QED  BY <1>3, <1>5, <1>7

\* A completed stream stays as it is.
LEMMA WholeKept ==
    ASSUME WholeAudioStepped,
           status' = "completed" =>
               UNCHANGED << status, emitted, mel_total, incremental, committed, position >>
    PROVE  WholeAudioStepped'
  BY DEF WholeAudioStepped

\* A finish that completes has decoded everything, and nothing changes after it.
LEMMA WholeStep ==
    ASSUME FlowCounts, WholeAudioStepped, [Next]_vars
    PROVE  WholeAudioStepped'
  <1> USE DEF encVars, encConfig, encCounts, decVars, pipeVars
  <1>1. ASSUME NEW m \in FeedSizes, CallFeed(m)  PROVE WholeAudioStepped'
    <2>1. status' # "completed"
      BY <1>1 DEF CallFeed
    <2> QED  BY <2>1, WholeKept
  <1>2. ASSUME CallResume  PROVE WholeAudioStepped'
    <2>1. status' # "completed"
      BY <1>2, LiveCall DEF CallResume
    <2> QED  BY <2>1, WholeKept
  <1>3. ASSUME CallFinish  PROVE WholeAudioStepped'
    <2>1. status' # "completed"
      BY <1>3, LiveCall DEF CallFinish
    <2> QED  BY <2>1, WholeKept
  <1>4. ASSUME CallReset  PROVE WholeAudioStepped'
    <2>1. status' # "completed"
      BY <1>4 DEF CallReset
    <2> QED  BY <2>1, WholeKept
  <1>5. ASSUME DrainOne  PROVE WholeAudioStepped'
    <2>1. status' # "completed"
      BY <1>5, LiveCall DEF DrainOne, Goto
    <2> QED  BY <2>1, WholeKept
  <1>6. ASSUME DrainFinal  PROVE WholeAudioStepped'
    <2>1. status' # "completed"
      BY <1>6, LiveCall DEF DrainFinal, Goto
    <2> QED  BY <2>1, WholeKept
  <1>7. ASSUME AfterDrain  PROVE WholeAudioStepped'
    <2>1. status' # "completed"
      BY <1>7, LiveCall DEF AfterDrain, Goto
    <2> QED  BY <2>1, WholeKept
  <1>8. ASSUME DriveOne  PROVE WholeAudioStepped'
    <2>1. status' # "completed"
      BY <1>8, LiveCall DEF DriveOne
    <2> QED  BY <2>1, WholeKept
  <1>9. ASSUME DriveFails  PROVE WholeAudioStepped'
    <2>1. status' # "completed"
      BY <1>9, LiveCall DEF DriveFails, Fail
    <2> QED  BY <2>1, WholeKept
  <1>10. ASSUME DriveEnds  PROVE WholeAudioStepped'
    <2>1. CASE pc = "drive" \/ incremental
      <3>1. status' # "completed"
        BY <1>10, <2>1, LiveCall DEF DriveEnds, Goto
      <3> QED  BY <3>1, WholeKept
    <2>2. CASE pc = "drive_final" /\ ~incremental
      <3>1. emitted = Realizable(stable_mel)
        <4>1. EncInv /\ NextLaunch(TRUE) = NoLaunch
          BY <1>10, <2>2 DEF DriveEnds, FlowCounts, PipeInv
        <4> QED  BY <4>1, DriveStops
      <3>2. status = "open" /\ stable_mel = mel_total
        BY <2>2 DEF FlowCounts, EncoderCaughtUp, PipeInv, PrefillsOnce
      <3>3. emitted = mel_total \div 2
        BY <3>1, <3>2, FlowTypes, RealizableSum
      <3>4. UNCHANGED << mel_total, emitted, incremental >>
        BY <1>10, <2>2 DEF DriveEnds, Goto, FinishEncoder
      <3> QED  BY <2>2, <3>3, <3>4 DEF WholeAudioStepped
    <2> QED  BY <1>10, <2>1, <2>2 DEF DriveEnds
  <1>11. ASSUME CommitOne  PROVE WholeAudioStepped'
    <2>1. status' # "completed"
      BY <1>11, LiveCall DEF CommitOne
    <2> QED  BY <2>1, WholeKept
  <1>12. ASSUME BeginPrefill  PROVE WholeAudioStepped'
    <2>1. status' # "completed"
      BY <1>12, LiveCall DEF BeginPrefill
    <2> QED  BY <2>1, WholeKept
  <1>13. ASSUME RunPrefill  PROVE WholeAudioStepped'
    <2>1. status' # "completed"
      BY <1>13, LiveCall DEF RunPrefill
    <2> QED  BY <2>1, WholeKept
  <1>14. ASSUME CommitEnds  PROVE WholeAudioStepped'
    <2>1. status' # "completed"
      BY <1>14, LiveCall DEF CommitEnds, Goto
    <2> QED  BY <2>1, WholeKept
  <1>15. ASSUME FlushPending  PROVE WholeAudioStepped'
    <2>1. status' # "completed"
      BY <1>15, LiveCall DEF FlushPending
    <2> QED  BY <2>1, WholeKept
  <1>16. ASSUME StepOne  PROVE WholeAudioStepped'
    <2>1. status' # "completed"
      BY <1>16, LiveCall DEF StepOne
    <2> QED  BY <2>1, WholeKept
  <1>17. ASSUME PumpEnds  PROVE WholeAudioStepped'
    <2>1. UNCHANGED << emitted, mel_total, incremental, committed, position >>
      BY <1>17 DEF PumpEnds
    <2>2. CASE call = "finish"
      BY <1>17, <2>1, <2>2, FinishDecodesAll DEF PumpEnds, WholeAudioStepped
    <2>3. CASE call # "finish"
      <3>1. status' # "completed"
        BY <1>17, <2>3, LiveCall DEF PumpEnds
      <3> QED  BY <3>1, WholeKept
    <2> QED  BY <2>2, <2>3
  <1>18. ASSUME PumpFails  PROVE WholeAudioStepped'
    <2>1. status' # "completed"
      BY <1>18, LiveCall DEF PumpFails, Fail
    <2> QED  BY <2>1, WholeKept
  <1>19. ASSUME CallWarmup  PROVE WholeAudioStepped'
    <2>1. status' # "completed"
      BY <1>19, LiveCall DEF CallWarmup
    <2> QED  BY <2>1, WholeKept
  <1>20. ASSUME WarmAdapter  PROVE WholeAudioStepped'
    <2>1. status' # "completed"
      BY <1>20, LiveCall DEF WarmAdapter
    <2> QED  BY <2>1, WholeKept
  <1>21. ASSUME WarmCommit  PROVE WholeAudioStepped'
    <2>1. status' # "completed"
      BY <1>21, LiveCall DEF WarmCommit
    <2> QED  BY <2>1, WholeKept
  <1>22. ASSUME WarmBegin  PROVE WholeAudioStepped'
    <2>1. status' # "completed"
      BY <1>22, LiveCall DEF WarmBegin, Goto
    <2> QED  BY <2>1, WholeKept
  <1>23. ASSUME WarmStep  PROVE WholeAudioStepped'
    <2>1. status' # "completed"
      BY <1>23, LiveCall DEF WarmStep
    <2> QED  BY <2>1, WholeKept
  <1>24. ASSUME WarmEnds  PROVE WholeAudioStepped'
    <2>1. status' # "completed"
      BY <1>24, LiveCall DEF WarmEnds
    <2> QED  BY <2>1, WholeKept
  <1>25. ASSUME UNCHANGED vars  PROVE WholeAudioStepped'
    <2>1. UNCHANGED << status, emitted, mel_total, incremental, committed, position >>
      BY <1>25 DEF vars
    <2> QED  BY <2>1, WholeKept
  <1> QED
    BY <1>1, <1>2, <1>3, <1>4, <1>5, <1>6, <1>7, <1>8, <1>9, <1>10, <1>11, <1>12,
        <1>13, <1>14, <1>15, <1>16, <1>17, <1>18, <1>19, <1>20, <1>21, <1>22, <1>23,
        <1>24, <1>25 DEF Next, Call, Drain, Pump, Warmup

-----------------------------------------------------------------------------
(* The graph sequence. *)

\* A launch as the loop builds it.
Launches == [q : Int, n : Int, p : Int, final : BOOLEAN]

\* The blocks of the schedule divide each other, and only a finish drives to the end.
SequenceKept ==
    /\ schedule.physical % schedule.logical = 0 /\ MaxNew % schedule.physical = 0
    /\ launched \in Seq(Launches)
    /\ pc \in {"flush", "drive_final"} => call = "finish"

\* A block that starts at a logical batch has room for the whole batch.
LEMMA RoomForBatch ==
    ASSUME NEW logical \in Nat \ {0}, NEW physical \in Nat \ {0}, physical % logical = 0,
           MaxNew % physical = 0, NEW j \in Nat, NEW e \in Nat, e = MaxNew + j * logical
    PROVE  logical <= physical - (e % physical)
  <1>0. logical \in Int /\ physical \in Int /\ e \in Int /\ MaxNew \in Int
    BY EncoderAssumption
  <1>1. PICK a \in Int : physical = logical * a
    <2>1. PICK k \in Int, s \in 0..(logical - 1) : s = physical % logical /\ physical = logical * k + s
      BY <1>0, DivMod, Zenon
    <2> DEFINE x == logical * k
    <2>2. x \in Int /\ physical = x + 0
      BY <1>0, <2>1
    <2> HIDE DEF x
    <2>3. physical = x
      BY <1>0, <2>2
    <2> QED  BY <2>3 DEF x
  <1>2. PICK b \in Int : MaxNew = physical * b
    <2>1. PICK k \in Int, s \in 0..(physical - 1) : s = MaxNew % physical /\ MaxNew = physical * k + s
      BY <1>0, DivMod, Zenon
    <2> DEFINE x == physical * k
    <2>2. x \in Int /\ MaxNew = x + 0
      BY <1>0, <2>1
    <2> HIDE DEF x
    <2>3. MaxNew = x
      BY <1>0, <2>2
    <2> QED  BY <2>3 DEF x
  <1>3. PICK d \in Int, r \in 0..(physical - 1) : r = e % physical /\ e = physical * d + r
    BY <1>0, DivMod, Zenon
  <1> DEFINE c == a - (a * b + j - a * d)
  <1>4. physical - r = logical * c /\ c \in Int
    <2>1. /\ physical * b = logical * (a * b) /\ physical * d = logical * (a * d)
          /\ a * b \in Int /\ a * d \in Int
      BY <1>1, <1>2, <1>3
    <2> DEFINE x == a * b
               y == a * d
    <2>2. /\ x \in Int /\ y \in Int /\ a \in Int /\ physical = logical * a
          /\ logical * x + j * logical = logical * y + r
      BY <1>1, <1>2, <1>3, <2>1
    <2>3. logical * (a - (x + j - y)) = logical * a - (logical * x + j * logical - logical * y)
      <3> HIDE DEF x, y
      <3> QED  BY <2>2
    <2> DEFINE u == logical * x + j * logical
               v == logical * y
    <2>4. u \in Int /\ v \in Int /\ u = v + r
      <3> HIDE DEF x, y
      <3> QED  BY <2>2
    <2>5. u - v = r
      <3> HIDE DEF u, v
      <3> QED  BY <2>4, <1>3
    <2> HIDE DEF u, v
    <2>6. logical * c = physical - (u - v)
      BY <2>2, <2>3 DEF u, v
    <2>7. c \in Int
      <3> HIDE DEF x, y
      <3> QED  BY <2>2
    <2> QED  BY <2>5, <2>6, <2>7
  <1>5. 0 < physical - r
    BY <1>3
  <1> HIDE DEF c
  <1>6. 0 < c
    <2>1. c <= 0 => logical * c <= 0
      <3> SUFFICES ASSUME c <= 0  PROVE logical * c <= 0
        OBVIOUS
      <3>1. 0 - c \in Nat /\ logical * (0 - c) \in Nat
        BY <1>4
      <3>2. logical * (0 - c) = 0 - logical * c /\ logical * c \in Int
        BY <1>4
      <3> QED  BY <3>1, <3>2
    <2>2. logical * c \in Int
      BY <1>4
    <2> QED  BY <1>4, <1>5, <2>1, <2>2
  <1>7. logical * 0 + logical <= logical * c
    BY <1>4, <1>6, Times
  <1>8. logical * 0 + logical = logical
    OBVIOUS
  <1>9. logical <= physical - r
    BY <1>4, <1>7, <1>8
  <1> QED  BY <1>3, <1>9

\* Before the end of the audio the next graph is the next of the one sequence, whatever
\* has arrived (encoder_kv_drive).
LEMMA NextIsCanonical ==
    ASSUME EncInv, SequenceKept, NextLaunch(FALSE) # NoLaunch,
           emitted = IF launched = << >> THEN 0
                     ELSE MaxNew + (Len(launched) - 1) * schedule.logical
    PROVE  /\ NextLaunch(FALSE) = CanonicalLaunch(Len(launched) + 1)
           /\ NextLaunch(FALSE).q + NextLaunch(FALSE).n
                  = MaxNew + Len(launched) * schedule.logical
  <1> DEFINE rem      == Realizable(stable_mel) - emitted
             logical  == schedule.logical
             physical == schedule.physical
             room     == physical - (emitted % physical)
             len      == Len(launched)
  <1>0. /\ logical \in 1..MaxNew /\ physical \in 1..MaxNew /\ MaxNew \in Nat \ {0}
        /\ emitted \in Nat /\ rem \in Int /\ len \in Nat
    <2>1. emitted \in Nat /\ stable_mel \in Nat
      BY EncoderAssumption DEF EncInv, EncTypeOK
    <2>2. Realizable(stable_mel) \in Nat
      BY <2>1, RealizableProperty
    <2> QED  BY <2>1, <2>2, EncoderAssumption DEF EncInv, EncTypeOK, SequenceKept
  <1>1. CASE launched = << >>
    <2>1. emitted = 0 /\ len = 0
      BY <1>1
    <2>2. NextLaunch(FALSE) = [q |-> 0, n |-> MaxNew, p |-> MaxNew, final |-> FALSE]
      BY <1>0, <2>1 DEF NextLaunch, Startup
    <2>3. 0 * logical = 0
      BY <1>0
    <2>4. NextLaunch(FALSE) = CanonicalLaunch(1)
      BY <2>2 DEF CanonicalLaunch
    <2>5. NextLaunch(FALSE).q + NextLaunch(FALSE).n = MaxNew
      <3> DEFINE l == NextLaunch(FALSE)
      <3>1. l = [q |-> 0, n |-> MaxNew, p |-> MaxNew, final |-> FALSE]
        BY <2>2
      <3> HIDE DEF l
      <3>2. l.q + l.n = MaxNew
        BY <1>0, <3>1
      <3> QED  BY <3>2 DEF l
    <2>6. len + 1 = 1 /\ MaxNew + len * logical = MaxNew
      BY <1>0, <2>1, <2>3
    <2>7. NextLaunch(FALSE) = CanonicalLaunch(len + 1)
      BY <2>4, <2>6, Zenon
    <2> QED  BY <2>5, <2>6, <2>7, Zenon
  <1>2. CASE launched # << >>
    <2>1. len \in Nat \ {0} /\ len - 1 \in Nat
      BY <1>2 DEF SequenceKept
    <2> DEFINE done == (len - 1) * logical
    <2>2. emitted = MaxNew + done /\ done \in Nat /\ emitted > 0
      <3>1. done \in Nat
        <4>1. logical \in Nat
          BY <1>0
        <4> HIDE DEF logical, len
        <4> QED  BY <2>1, <4>1
      <3> QED  BY <1>0, <1>2, <3>1
    <2>3. logical <= room
      <3>1. logical \in Nat \ {0} /\ physical \in Nat \ {0} /\ len - 1 \in Nat
            /\ physical % logical = 0 /\ MaxNew % physical = 0
        BY <1>0, <2>1 DEF SequenceKept
      <3> HIDE DEF logical, physical, len
      <3> QED  BY <1>0, <2>2, <3>1, RoomForBatch
    <2>4. rem > 0 /\ ~(rem < logical)
      BY <1>0, <2>2 DEF NextLaunch, NoLaunch, Startup
    <2>5. NextLaunch(FALSE) = [q |-> emitted, n |-> MinOf(MinOf(logical, room), rem),
                               p |-> physical, final |-> FALSE]
      BY <1>0, <2>2, <2>4 DEF NextLaunch, Startup
    <2>6. MinOf(MinOf(logical, room), rem) = logical
      <3>1. room \in Int /\ logical \in Int
        <4>1. physical \in Nat \ {0}
          BY <1>0
        <4>2. emitted % physical \in 0..(physical - 1)
          <5>1. emitted \in Int
            BY <1>0
          <5> HIDE DEF physical
          <5> QED  BY <4>1, <5>1, ModProperty
        <4> QED  BY <1>0, <4>2
      <3> HIDE DEF logical, room, rem
      <3> QED  BY <1>0, <2>3, <2>4, <3>1 DEF MinOf
    <2>7. NextLaunch(FALSE) = [q |-> MaxNew + done, n |-> logical, p |-> physical, final |-> FALSE]
      BY <2>2, <2>5, <2>6, Zenon
    <2>8. CanonicalLaunch(len + 1) = [q |-> MaxNew + done, n |-> logical, p |-> physical,
                                      final |-> FALSE]
      <3>1. len + 1 # 1 /\ len + 1 - 2 = len - 1
        BY <2>1
      <3> QED  BY <3>1 DEF CanonicalLaunch
    <2>9. MaxNew + done + logical = MaxNew + len * logical
      <3>1. len * logical = done + logical /\ len * logical \in Int
        <4>1. logical \in Nat
          BY <1>0
        <4> HIDE DEF logical, len
        <4> QED  BY <2>1, <4>1
      <3> HIDE DEF logical, done, len
      <3> QED  BY <1>0, <2>2, <3>1
    <2>10. NextLaunch(FALSE).q + NextLaunch(FALSE).n = MaxNew + done + logical
      <3> DEFINE l == NextLaunch(FALSE)
      <3>1. l = [q |-> MaxNew + done, n |-> logical, p |-> physical, final |-> FALSE]
        BY <2>7
      <3> HIDE DEF l, done, logical, physical
      <3>2. l.q = MaxNew + done /\ l.n = logical
        BY <3>1
      <3> QED  BY <3>2, Zenon DEF l
    <2>11. NextLaunch(FALSE) = CanonicalLaunch(len + 1)
      BY <2>7, <2>8, Zenon
    <2> QED  BY <2>9, <2>10, <2>11, Zenon
  <1> QED  BY <1>1, <1>2

\* A launch is a launch.
LEMMA LaunchIsRecord ==
    ASSUME EncInv, NEW final \in BOOLEAN, NextLaunch(final) # NoLaunch
    PROVE  NextLaunch(final) \in Launches /\ NextLaunch(final).final = final
  <1>1. /\ NextLaunch(final).q = emitted /\ NextLaunch(final).n \in 1..MaxNew
        /\ NextLaunch(final).p \in 1..MaxNew /\ emitted \in Nat /\ MaxNew \in Nat
    BY NextLaunchProperty, EncoderAssumption DEF EncInv, EncTypeOK
  <1>2. \E q, n, p : NextLaunch(final) = [q |-> q, n |-> n, p |-> p, final |-> final]
    <2> DEFINE rem      == Realizable(stable_mel) - emitted
               terminal == final /\ incremental
               physical == IF terminal THEN finish_physical ELSE schedule.physical
               logical  == IF terminal THEN finish_physical ELSE schedule.logical
               room     == physical - (emitted % physical)
    <2>1. \/ NextLaunch(final) = [q |-> 0, n |-> MaxNew, p |-> MaxNew, final |-> final]
          \/ NextLaunch(final) = [q |-> emitted, n |-> MinOf(MinOf(logical, room), rem),
                                  p |-> physical, final |-> final]
      <3>1. rem \in Int
        <4>1. stable_mel \in Nat
          BY EncoderAssumption DEF EncInv, EncTypeOK
        <4> QED  BY <1>1, <4>1, RealizableProperty
      <3> QED  BY <3>1 DEF NextLaunch
    <2> HIDE DEF rem, physical, logical, room
    <2> QED  BY <2>1, Zenon
  <1>3. PICK q, n, p : NextLaunch(final) = [q |-> q, n |-> n, p |-> p, final |-> final]
    BY <1>2
  <1>4. q \in Int /\ n \in Int /\ p \in Int
    BY <1>1, <1>3
  <1> QED  BY <1>3, <1>4 DEF Launches

\* The schedule never changes, and the launches of a stream only grow.
LEMMA SequenceStep ==
    ASSUME FlowCounts, SequenceKept, [Next]_vars
    PROVE  SequenceKept'
  <1>1. [EncNext]_encVars
    BY EncoderStep DEF FlowCounts
  <1>2. schedule' = schedule
    BY <1>1 DEF EncNext, PushMel, Launch, LaunchFails, FinishEncoder, ResetEncoder, encVars,
                encConfig
  <1>3. launched' \in Seq(Launches)
    <2>1. CASE \E final \in BOOLEAN : Launch(final)
      <3>1. PICK final \in BOOLEAN : Launch(final)
        BY <2>1
      <3>2. NextLaunch(final) \in Launches
        BY <3>1, LaunchIsRecord DEF FlowCounts, PipeInv, Launch
      <3>3. launched' = Append(launched, NextLaunch(final))
        BY <3>1 DEF Launch
      <3> QED  BY <3>2, <3>3 DEF SequenceKept
    <2>2. CASE UNCHANGED launched
      BY <2>2 DEF SequenceKept
    <2>3. CASE launched' = << >>
      BY <2>3
    <2> QED  BY <1>1, <2>1, <2>2, <2>3 DEF EncNext, PushMel, LaunchFails, FinishEncoder,
                ResetEncoder, encVars, encGhosts
  <1>4. (pc \in {"flush", "drive_final"} => call = "finish")'
    BY DEF SequenceKept, FlowCounts, PipeInv, PrefillsOnce, Next, Call, Drain, Pump, Warmup,
           CallFeed, CallResume, CallFinish, CallReset, DrainOne, DrainFinal, AfterDrain, DriveOne,
           DriveFails, DriveEnds, CommitOne, BeginPrefill, RunPrefill, CommitEnds, FlushPending,
           StepOne, PumpEnds, PumpFails, CallWarmup, WarmAdapter, WarmCommit, WarmBegin, WarmStep,
           WarmEnds, Goto, Fail, pipeVars, vars
  <1> QED  BY <1>2, <1>3, <1>4 DEF SequenceKept

\* What the graphs of a stream have been so far.
CanonicalSoFar == AtCanonicalHead /\ SameGraphsForEveryPlan

LEMMA CanonicalKept ==
    ASSUME CanonicalSoFar, UNCHANGED << emitted, launched, schedule >>,
           BeforeFinish' => BeforeFinish
    PROVE  CanonicalSoFar'
  <1>1. \A k : CanonicalLaunch(k)' = CanonicalLaunch(k)
    BY DEF CanonicalLaunch
  <1>2. SameGraphsForEveryPlan'
    BY <1>1 DEF CanonicalSoFar, SameGraphsForEveryPlan
  <1>3. AtCanonicalHead'
    BY DEF CanonicalSoFar, AtCanonicalHead
  <1> QED  BY <1>2, <1>3 DEF CanonicalSoFar

LEMMA CanonicalNone ==
    ASSUME emitted' = 0, launched' = << >>
    PROVE  CanonicalSoFar'
  BY DEF CanonicalSoFar, AtCanonicalHead, SameGraphsForEveryPlan

\* Every step of a call keeps the stream on the one sequence.
LEMMA CanonicalStep ==
    ASSUME FlowCounts, SequenceKept, CanonicalSoFar, [Next]_vars
    PROVE  CanonicalSoFar'
  <1> USE DEF encVars, encConfig, encCounts, encGhosts, decVars, pipeVars
  <1>1. ASSUME NEW m \in FeedSizes, CallFeed(m)  PROVE CanonicalSoFar'
    <2>1. UNCHANGED << emitted, launched, schedule >>
      BY <1>1 DEF CallFeed
    <2>2. BeforeFinish' => BeforeFinish
      BY <1>1 DEF BeforeFinish, CallFeed, FlowCounts, PipeInv, FinishRunsThrough,
        PrefillsOnce
    <2> QED  BY <2>1, <2>2, CanonicalKept
  <1>2. ASSUME CallResume  PROVE CanonicalSoFar'
    <2>1. UNCHANGED << emitted, launched, schedule >>
      BY <1>2 DEF CallResume
    <2>2. BeforeFinish' => BeforeFinish
      BY <1>2 DEF BeforeFinish, CallResume, FlowCounts, PipeInv, FinishRunsThrough,
        PrefillsOnce
    <2> QED  BY <2>1, <2>2, CanonicalKept
  <1>3. ASSUME CallFinish  PROVE CanonicalSoFar'
    <2>1. UNCHANGED << emitted, launched, schedule >>
      BY <1>3 DEF CallFinish
    <2>2. BeforeFinish' => BeforeFinish
      BY <1>3 DEF BeforeFinish, CallFinish
    <2> QED  BY <2>1, <2>2, CanonicalKept
  <1>4. ASSUME CallReset  PROVE CanonicalSoFar'
    <2>1. emitted' = 0 /\ launched' = << >>
      BY <1>4 DEF CallReset, ResetEncoder
    <2> QED  BY <2>1, CanonicalNone
  <1>5. ASSUME DrainOne  PROVE CanonicalSoFar'
    <2>1. UNCHANGED << emitted, launched, schedule >>
      BY <1>5 DEF DrainOne, PushMel, Goto
    <2>2. BeforeFinish' => BeforeFinish
      BY <1>5 DEF BeforeFinish, DrainOne, PushMel, Goto
    <2> QED  BY <2>1, <2>2, CanonicalKept
  <1>6. ASSUME DrainFinal  PROVE CanonicalSoFar'
    <2>1. UNCHANGED << emitted, launched, schedule >>
      BY <1>6 DEF DrainFinal, PushMel, Goto
    <2>2. BeforeFinish' => BeforeFinish
      BY <1>6 DEF BeforeFinish, DrainFinal, PushMel, Goto
    <2> QED  BY <2>1, <2>2, CanonicalKept
  <1>7. ASSUME AfterDrain  PROVE CanonicalSoFar'
    <2>1. UNCHANGED << emitted, launched, schedule >>
      BY <1>7 DEF AfterDrain, Goto
    <2>2. BeforeFinish' => BeforeFinish
      BY <1>7 DEF BeforeFinish, AfterDrain, Goto
    <2> QED  BY <2>1, <2>2, CanonicalKept
  <1>8. ASSUME DriveOne  PROVE CanonicalSoFar'
    <2> DEFINE final == pc = "drive_final"
               l     == NextLaunch(final)
               len   == Len(launched)
    <2>1. /\ Launch(final) /\ final \in BOOLEAN /\ pc \in {"drive", "drive_final"}
          /\ UNCHANGED pipeVars
      BY <1>8 DEF DriveOne
    <2>2. /\ launched' = Append(launched, l) /\ emitted' = l.q + l.n /\ schedule' = schedule
          /\ l # NoLaunch
      BY <2>1 DEF Launch
    <2>3. l.final = final /\ EncInv
      <3>1. EncInv
        BY DEF FlowCounts, PipeInv
      <3> HIDE DEF final
      <3> QED  BY <2>1, <2>2, <3>1, LaunchIsRecord
    <2>4. launched \in Seq(Launches) /\ len \in Nat
      BY DEF SequenceKept
    <2>5. ASSUME ~final
          PROVE  BeforeFinish /\ l = CanonicalLaunch(len + 1)
                 /\ emitted' = MaxNew + len * schedule.logical
      <3>1. final = FALSE
        BY <2>5
      <3>2. BeforeFinish
        BY <2>1, <2>5 DEF BeforeFinish, FlowCounts, PipeInv, FinishRunsThrough,
        PrefillsOnce
      <3>3. NextLaunch(FALSE) # NoLaunch /\ l = NextLaunch(FALSE)
        BY <2>2, <3>1
      <3>4. /\ NextLaunch(FALSE) = CanonicalLaunch(len + 1)
            /\ NextLaunch(FALSE).q + NextLaunch(FALSE).n = MaxNew + len * schedule.logical
        <4>1. emitted = IF launched = << >> THEN 0
                        ELSE MaxNew + (Len(launched) - 1) * schedule.logical
          BY <3>2 DEF CanonicalSoFar, AtCanonicalHead
        <4> QED  BY <2>3, <3>3, <4>1, NextIsCanonical
      <3>5. l.q + l.n = MaxNew + len * schedule.logical
        BY <3>3, <3>4, Zenon
      <3>6. emitted' = MaxNew + len * schedule.logical
        BY <2>2, <3>5, Zenon
      <3>7. l = CanonicalLaunch(len + 1)
        BY <3>3, <3>4, Zenon
      <3> QED  BY <3>2, <3>6, <3>7
    <2>6. SameGraphsForEveryPlan'
      <3> SUFFICES ASSUME NEW k \in DOMAIN launched', ~launched'[k].final
                   PROVE  launched'[k] = CanonicalLaunch(k)'
        BY DEF SameGraphsForEveryPlan
      <3> HIDE DEF l, final
      <3>1. CanonicalLaunch(k)' = CanonicalLaunch(k)
        BY <2>2 DEF CanonicalLaunch
      <3>2. CASE k \in DOMAIN launched
        <4>1. launched'[k] = launched[k]
          BY <2>2, <2>4, <3>2
        <4> QED  BY <3>1, <3>2, <4>1 DEF CanonicalSoFar, SameGraphsForEveryPlan
      <3>3. CASE k \notin DOMAIN launched
        <4>1. k = len + 1 /\ launched'[k] = l
          BY <2>2, <2>4, <3>3
        <4> QED  BY <2>3, <2>5, <3>1, <4>1
      <3> QED  BY <3>2, <3>3
    <2>7. AtCanonicalHead'
      <3> HIDE DEF l
      <3>1. CASE final
        <4>1. ~BeforeFinish'
          BY <2>1, <3>1 DEF BeforeFinish, FlowCounts, PipeInv, PrefillsOnce,
        SequenceKept, pipeVars
        <4> QED  BY <4>1 DEF AtCanonicalHead
      <3>2. CASE ~final
        <4>1. emitted' = MaxNew + len * schedule.logical /\ schedule' = schedule
          BY <2>2, <2>5, <3>2
        <4>2. launched' # << >> /\ Len(launched') - 1 = len
          BY <2>2, <2>4
        <4> QED  BY <4>1, <4>2 DEF AtCanonicalHead
      <3> QED  BY <3>1, <3>2
    <2> QED  BY <2>6, <2>7 DEF CanonicalSoFar
  <1>9. ASSUME DriveFails  PROVE CanonicalSoFar'
    <2>1. UNCHANGED << emitted, launched, schedule >>
      BY <1>9 DEF DriveFails, LaunchFails, Fail
    <2>2. BeforeFinish' => BeforeFinish
      BY <1>9 DEF BeforeFinish, DriveFails, LaunchFails, Fail
    <2> QED  BY <2>1, <2>2, CanonicalKept
  <1>10. ASSUME DriveEnds  PROVE CanonicalSoFar'
    <2>1. UNCHANGED << emitted, launched, schedule >>
      BY <1>10 DEF DriveEnds, FinishEncoder, Goto
    <2>2. BeforeFinish' => BeforeFinish
      BY <1>10 DEF BeforeFinish, DriveEnds, FinishEncoder, Goto
    <2> QED  BY <2>1, <2>2, CanonicalKept
  <1>11. ASSUME CommitOne  PROVE CanonicalSoFar'
    <2>1. UNCHANGED << emitted, launched, schedule >>
      BY <1>11 DEF CommitOne
    <2>2. BeforeFinish' => BeforeFinish
      BY <1>11 DEF BeforeFinish, CommitOne
    <2> QED  BY <2>1, <2>2, CanonicalKept
  <1>12. ASSUME BeginPrefill  PROVE CanonicalSoFar'
    <2>1. UNCHANGED << emitted, launched, schedule >>
      BY <1>12 DEF BeginPrefill
    <2>2. BeforeFinish' => BeforeFinish
      BY <1>12 DEF BeforeFinish, BeginPrefill
    <2> QED  BY <2>1, <2>2, CanonicalKept
  <1>13. ASSUME RunPrefill  PROVE CanonicalSoFar'
    <2>1. UNCHANGED << emitted, launched, schedule >>
      BY <1>13 DEF RunPrefill
    <2>2. BeforeFinish' => BeforeFinish
      BY <1>13 DEF BeforeFinish, RunPrefill
    <2> QED  BY <2>1, <2>2, CanonicalKept
  <1>14. ASSUME CommitEnds  PROVE CanonicalSoFar'
    <2>1. UNCHANGED << emitted, launched, schedule >>
      BY <1>14 DEF CommitEnds, Goto
    <2>2. BeforeFinish' => BeforeFinish
      BY <1>14 DEF BeforeFinish, CommitEnds, Goto
    <2> QED  BY <2>1, <2>2, CanonicalKept
  <1>15. ASSUME FlushPending  PROVE CanonicalSoFar'
    <2>1. UNCHANGED << emitted, launched, schedule >>
      BY <1>15 DEF FlushPending
    <2>2. BeforeFinish' => BeforeFinish
      BY <1>15 DEF BeforeFinish, FlushPending
    <2> QED  BY <2>1, <2>2, CanonicalKept
  <1>16. ASSUME StepOne  PROVE CanonicalSoFar'
    <2>1. UNCHANGED << emitted, launched, schedule >>
      BY <1>16 DEF StepOne
    <2>2. BeforeFinish' => BeforeFinish
      BY <1>16 DEF BeforeFinish, StepOne
    <2> QED  BY <2>1, <2>2, CanonicalKept
  <1>17. ASSUME PumpEnds  PROVE CanonicalSoFar'
    <2>1. UNCHANGED << emitted, launched, schedule >>
      BY <1>17 DEF PumpEnds
    <2>2. BeforeFinish' => BeforeFinish
      BY <1>17 DEF BeforeFinish, PumpEnds
    <2> QED  BY <2>1, <2>2, CanonicalKept
  <1>18. ASSUME PumpFails  PROVE CanonicalSoFar'
    <2>1. UNCHANGED << emitted, launched, schedule >>
      BY <1>18 DEF PumpFails, Fail
    <2>2. BeforeFinish' => BeforeFinish
      BY <1>18 DEF BeforeFinish, PumpFails, Fail
    <2> QED  BY <2>1, <2>2, CanonicalKept
  <1>19. ASSUME CallWarmup  PROVE CanonicalSoFar'
    <2>1. UNCHANGED << emitted, launched, schedule >>
      BY <1>19 DEF CallWarmup, PushMel
    <2>2. BeforeFinish' => BeforeFinish
      BY <1>19 DEF BeforeFinish, CallWarmup, PushMel, FlowCounts, PipeInv,
        FinishRunsThrough, PrefillsOnce
    <2> QED  BY <2>1, <2>2, CanonicalKept
  <1>20. ASSUME WarmAdapter  PROVE CanonicalSoFar'
    <2>1. UNCHANGED << emitted, launched, schedule >>
      BY <1>20 DEF WarmAdapter
    <2>2. BeforeFinish' => BeforeFinish
      BY <1>20 DEF BeforeFinish, WarmAdapter
    <2> QED  BY <2>1, <2>2, CanonicalKept
  <1>21. ASSUME WarmCommit  PROVE CanonicalSoFar'
    <2>1. UNCHANGED << emitted, launched, schedule >>
      BY <1>21 DEF WarmCommit
    <2>2. BeforeFinish' => BeforeFinish
      BY <1>21 DEF BeforeFinish, WarmCommit
    <2> QED  BY <2>1, <2>2, CanonicalKept
  <1>22. ASSUME WarmBegin  PROVE CanonicalSoFar'
    <2>1. UNCHANGED << emitted, launched, schedule >>
      BY <1>22 DEF WarmBegin, Goto
    <2>2. BeforeFinish' => BeforeFinish
      BY <1>22 DEF BeforeFinish, WarmBegin, Goto
    <2> QED  BY <2>1, <2>2, CanonicalKept
  <1>23. ASSUME WarmStep  PROVE CanonicalSoFar'
    <2>1. UNCHANGED << emitted, launched, schedule >>
      BY <1>23 DEF WarmStep
    <2>2. BeforeFinish' => BeforeFinish
      BY <1>23 DEF BeforeFinish, WarmStep
    <2> QED  BY <2>1, <2>2, CanonicalKept
  <1>24. ASSUME WarmEnds  PROVE CanonicalSoFar'
    <2>1. emitted' = 0 /\ launched' = << >>
      BY <1>24 DEF WarmEnds, ResetEncoder
    <2> QED  BY <2>1, CanonicalNone
  <1>25. ASSUME UNCHANGED vars  PROVE CanonicalSoFar'
    <2>1. UNCHANGED << emitted, launched, schedule >>
      BY <1>25 DEF vars
    <2>2. BeforeFinish' => BeforeFinish
      BY <1>25 DEF BeforeFinish, vars
    <2> QED  BY <2>1, <2>2, CanonicalKept
  <1> QED
    BY <1>1, <1>2, <1>3, <1>4, <1>5, <1>6, <1>7, <1>8, <1>9, <1>10, <1>11, <1>12,
        <1>13, <1>14, <1>15, <1>16, <1>17, <1>18, <1>19, <1>20, <1>21, <1>22, <1>23,
        <1>24, <1>25 DEF Next, Call, Drain, Pump, Warmup

\* A warmup that finds nothing to launch before its last row was stopped by a batch
\* that does not fit the rows left.
LEMMA WarmupStops ==
    ASSUME FlowCounts, SequenceKept, AtCanonicalHead, call = "warmup", pc = "drive",
           NextLaunch(FALSE) = NoLaunch, emitted # PromptLen * Group
    PROVE  (PromptLen * Group - MaxNew) % schedule.logical # 0
  <1> DEFINE all     == PromptLen * Group
             rem     == Realizable(stable_mel) - emitted
             logical == schedule.logical
             len     == Len(launched)
  <1>1. /\ logical \in 1..MaxNew /\ logical \in Nat \ {0} /\ MaxNew \in Nat \ {0}
        /\ emitted \in Nat /\ all \in Nat
    <2>1. logical \in 1..MaxNew
      BY DEF FlowCounts, PipeInv, EncInv, EncTypeOK
    <2> QED  BY <2>1, FlowTypes
  <1>2. Realizable(stable_mel) = all
    <2>1. stable_mel = all * 2
      BY DEF FlowCounts, WarmupCounts
    <2> HIDE DEF all
    <2>2. stable_mel = 2 * all
      BY <1>1, <2>1
    <2> QED  BY <1>1, <2>2, RealizableSum
  <1>3. rem \in Nat \ {0} /\ emitted + rem = all
    <2>1. emitted <= Realizable(stable_mel)
      BY FlowTypes
    <2> HIDE DEF all
    <2> QED  BY <1>1, <1>2, <2>1 DEF all
  <1>4. MaxNew <= all
    BY PromptAssumption
  <1>5. emitted # 0
    <2> SUFFICES ASSUME emitted = 0  PROVE FALSE
      OBVIOUS
    <2>1. rem >= MaxNew
      BY <1>1, <1>2, <1>4
    <2> HIDE DEF all
    <2> QED  BY <1>1, <1>3, <2>1 DEF NextLaunch, Startup, NoLaunch
  <1>6. rem < logical
    <2> HIDE DEF all
    <2> SUFFICES ASSUME ~(rem < logical)  PROVE FALSE
      OBVIOUS
    <2> DEFINE l == NextLaunch(FALSE)
    <2>1. l.q = emitted /\ l = NoLaunch
      BY <1>1, <1>3, <1>5 DEF NextLaunch, Startup
    <2> HIDE DEF l
    <2> QED  BY <1>1, <2>1 DEF NoLaunch
  <1>7. emitted = MaxNew + (len - 1) * logical /\ len - 1 \in Nat
    <2>1. BeforeFinish
      BY DEF BeforeFinish, FlowCounts, PipeInv, PrefillsOnce
    <2>2. launched # << >>
      BY <1>5, <2>1 DEF AtCanonicalHead
    <2>3. len - 1 \in Nat
      BY <2>2 DEF SequenceKept
    <2> QED  BY <2>1, <2>2, <2>3 DEF AtCanonicalHead
  <1> DEFINE k    == len - 1
             done == logical * k
  <1>8. all - MaxNew = logical * k + rem /\ all - MaxNew \in Int
    <2>1. emitted = MaxNew + done /\ done \in Nat
      <3>1. k \in Nat /\ emitted = MaxNew + k * logical
        BY <1>7
      <3>2. k * logical = logical * k /\ logical * k \in Nat
        <4> HIDE DEF k, logical
        <4> QED  BY <1>1, <3>1
      <3> QED  BY <3>1, <3>2
    <2> HIDE DEF all, done, rem
    <2>2. all - MaxNew = done + rem /\ all - MaxNew \in Int
      BY <1>1, <1>3, <2>1
    <2> QED  BY <2>2 DEF done
  <1>9. rem \in 0..(logical - 1) /\ k \in Int
    <2> HIDE DEF rem, logical
    <2> QED  BY <1>1, <1>3, <1>6, <1>7
  <1> HIDE DEF k, logical, rem, all
  <1>10. (all - MaxNew) % logical = rem
    BY <1>1, <1>8, <1>9, ModUnique, Zenon
  <1> QED  BY <1>3, <1>10 DEF all, logical

\* Only that makes a warmup fail without an error.
LEMMA GeometryStep ==
    ASSUME FlowCounts, SequenceKept, AtCanonicalHead, WarmupGeometry, [Next]_vars
    PROVE  WarmupGeometry'
  <1>1. schedule' = schedule
    <2>1. [EncNext]_encVars
      BY EncoderStep DEF FlowCounts
    <2> QED  BY <2>1 DEF EncNext, PushMel, Launch, LaunchFails, FinishEncoder, ResetEncoder,
                encVars, encConfig
  <1>2. CASE warm' = "failed" /\ warm # "failed"
    <2>1. call = "warmup" /\ pc = "drive" /\ NextLaunch(FALSE) = NoLaunch
          /\ emitted # PromptLen * Group
      BY <1>2 DEF Next, Call, Drain, Pump, Warmup, CallFeed, CallResume, CallFinish, CallReset,
           DrainOne, DrainFinal, AfterDrain, DriveOne, DriveFails, DriveEnds, CommitOne,
           BeginPrefill, RunPrefill, CommitEnds, FlushPending, StepOne, PumpEnds, PumpFails,
           CallWarmup, WarmAdapter, WarmCommit, WarmBegin, WarmStep, WarmEnds, Goto, Fail,
           pipeVars, vars
    <2>2. (PromptLen * Group - MaxNew) % schedule.logical # 0
      BY <2>1, WarmupStops
    <2> QED  BY <1>1, <2>2 DEF WarmupGeometry
  <1>3. CASE ~(warm' = "failed" /\ warm # "failed")
    BY <1>1, <1>3 DEF WarmupGeometry
  <1> QED  BY <1>2, <1>3

-----------------------------------------------------------------------------
(* The theorems about what the steps read. *)

\* The inductive invariant.
FlowInv ==
    /\ FlowCounts /\ MaskIsDevices /\ RingsHold /\ StepReadsRight
    /\ WholeAudioStepped /\ SequenceKept /\ CanonicalSoFar /\ WarmupGeometry

\* A context before its first call satisfies it.
LEMMA FlowStart ==
    ASSUME Init
    PROVE  FlowInv
  <1>1. PipeInv
    BY PipeStart
  <1>2. /\ mel_total = 0 /\ stable_mel = 0 /\ committed = 0 /\ position = 0 /\ emitted = 0
        /\ prefilled = FALSE /\ paused = FALSE /\ pc = "idle" /\ call = "feed"
        /\ status = "fresh" /\ warm = "no" /\ launched = << >> /\ decoder_kv = EmptyKv
        /\ mask_valid = -1 /\ decoded = NotDecoded
    BY DEF Init, EncInit, DecInit, FreshPipe
  <1>3. FlowCounts
    BY <1>1, <1>2 DEF FlowCounts, EncoderCaughtUp, PumpCaughtUp, WarmupCounts
  <1>4. MaskIsDevices
    BY <1>2, DecoderAssumption DEF MaskIsDevices, EmptyKv, MinOf
  <1>5. RingsHold
    <2>1. MaxOf(0, emitted - OutCap)..(emitted - 1) = {} /\ Consumed..(committed - 1) = {}
          /\ decoder_kv.oldest..(decoder_kv.next - 1) = {}
      BY <1>2, EncoderAssumption DEF MaxOf, Consumed, EmptyKv
    <2> QED  BY <2>1 DEF RingsHold, RowsInRing, GroupsInRing, KeysInRing
  <1>6. StepReadsRight /\ WholeAudioStepped /\ WarmupGeometry
    BY <1>2 DEF StepReadsRight, StepHearsOwnGroup, StepSeesSlidingWindow, NotDecoded,
                WholeAudioStepped, WarmupGeometry
  <1>7. SequenceKept
    <2>1. PICK env \in Envs : schedule = ScheduleFromEnv(env)
      BY DEF Init, EncInit
    <2> QED  BY <1>2, <2>1, ScheduleProperty DEF SequenceKept
  <1>8. CanonicalSoFar
    BY <1>2 DEF CanonicalSoFar, AtCanonicalHead, SameGraphsForEveryPlan
  <1> QED  BY <1>3, <1>4, <1>5, <1>6, <1>7, <1>8 DEF FlowInv

\* And every step of every call keeps it.
LEMMA FlowStep ==
    ASSUME FlowInv, [Next]_vars
    PROVE  FlowInv'
  <1> USE DEF FlowInv
  <1>1. FlowCounts'
    BY PipeStep, CaughtUpStep, PumpStep, WarmupStep DEF FlowCounts
  <1>2. MaskIsDevices' /\ RingsHold' /\ StepReadsRight'
    BY MaskStep, RingsStep, ReadsStep
  <1>3. WholeAudioStepped' /\ SequenceKept' /\ CanonicalSoFar'
    BY WholeStep, SequenceStep, CanonicalStep
  <1>4. WarmupGeometry'
    BY GeometryStep DEF CanonicalSoFar
  <1> QED  BY <1>1, <1>2, <1>3, <1>4

\* What the rings hold and how far the pump is are true of every behaviour.
THEOREM FlowInductive == Spec => []FlowInv
  BY FlowStart, FlowStep, PTL DEF Spec

\* Every decoder step reads the embedding of its own group and the keys of its own
\* sliding window (voxtral_ctx_adapter_commit, run_decoder_step), after any resets,
\* failures, stalls and wraps of the three rings.
THEOREM StepsReadRight == Spec => []StepReadsRight
  <1>1. FlowInv => StepReadsRight
    BY DEF FlowInv
  <1> QED  BY <1>1, FlowInductive, PTL

\* A stream that completes has encoded every Mel frame, committed every group and
\* taken every decoder step exactly once (drain_mel_to_encoder, pump_incremental).
THEOREM NothingSkipped == Spec => []EverythingStepped
  <1>1. FlowInv => EverythingStepped
    BY DEF FlowInv, FlowCounts, PipeInv, EverythingStepped
  <1> QED  BY <1>1, FlowInductive, PTL

\* A warmup without backend errors fails only when the schedule's batch does not divide
\* the rows after the startup block (voxtral_encoder_stream_warmup).
THEOREM WarmupReaches == Spec => []WarmupGeometry
  <1>1. FlowInv => WarmupGeometry
    BY DEF FlowInv
  <1> QED  BY <1>1, FlowInductive, PTL

\* Every feed plan uses the same graph sequence until its finish (encoder_kv_drive).
THEOREM OneGraphSequence == Spec => []SameGraphsForEveryPlan
  <1>1. FlowInv => SameGraphsForEveryPlan
    BY DEF FlowInv, CanonicalSoFar
  <1> QED  BY <1>1, FlowInductive, PTL

=============================================================================
