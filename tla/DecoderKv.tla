------------------------------ MODULE DecoderKv ------------------------------
(***************************************************************************)
(* The device side of the incremental adapter and decoder                  *)
(* (src/src/voxtral.cpp): the audio-embedding ring the adapter graphs      *)
(* fill, the decoder K/V ring with its plan, and the reusable step graph   *)
(* with its masked and full topologies and its cached mask.                *)
(***************************************************************************)
EXTENDS EncoderKv

CONSTANTS
    AembCap,   \* VOXTRAL_AEMB_RING_CAP
    DecCap,    \* decoder_kv_configured_capacity
    BatchRun   \* groups of the adapter's batch graph

ASSUME DecoderAssumption ==
    /\ AembCap \in Nat \ {0} /\ DecCap \in Nat \ {0} /\ BatchRun \in Nat \ {0}
    /\ BatchRun * Group <= OutCap

VARIABLES
    audio_emb_ring,  \* slot -> the encoder rows its group was computed from
    dec_ring,        \* decoder K/V ring: slot -> the position written there
    decoder_kv,      \* [used, oldest, next]: the ring's logical span
    attached,        \* dec_audio_src is the audio-embedding ring
    step_graph,      \* the reusable step graph: "none", "masked", "full"
    mask_valid,      \* decoder_step_mask_valid: what the host thinks is uploaded
    device_mask,     \* slots the mask tensor on the device opens
    decoded          \* ghost: what the last step read

decVars == << audio_emb_ring, dec_ring, decoder_kv, attached, step_graph,
              mask_valid, device_mask, decoded >>

NoGroup     == << >>
NoPosition  == [audio |-> NoGroup, pos |-> -1]
NotDecoded  == [pos |-> -1, audio |-> NoGroup, keys |-> {}]
EmptyKv     == [used |-> 0, oldest |-> 0, next |-> 0]
\* A mask tensor that was allocated and never written.
Unset       == -1

\* The rows of one group, in order.
GroupRows(g) == [j \in 1..Group |-> Row(g * Group + j - 1)]

DecInit ==
    /\ audio_emb_ring = [s \in 0..(AembCap - 1) |-> NoGroup]
    /\ dec_ring = [s \in 0..(DecCap - 1) |-> NoPosition]
    /\ decoder_kv = EmptyKv
    /\ attached = FALSE
    /\ step_graph = "none" /\ mask_valid = -1 /\ device_mask = Unset
    /\ decoded = NotDecoded

-----------------------------------------------------------------------------
(* The adapter. *)

\* voxtral_ctx_adapter_commit takes the batch graph while enough groups are
\* left, else the one-group graph.
AdapterRun(n) == IF n >= BatchRun THEN BatchRun ELSE 1

\* One adapter graph: GET_ROWS of the groups' frames, SET_ROWS of the results.
AdapterGraph(g, run) ==
    audio_emb_ring' =
        [s \in 0..(AembCap - 1) |->
            LET here == { k \in g..(g + run - 1) : k % AembCap = s }
            IN  IF here = {} THEN audio_emb_ring[s]
                ELSE LET k == CHOOSE k \in here : \A j \in here : j <= k
                     IN [j \in 1..Group |-> enc_out_ring[(k * Group + j - 1) % OutCap]]]

-----------------------------------------------------------------------------
(* The decoder. *)

\* voxtral_decoder_kv_plan: may n positions be appended at start.
ValidAppend(start, n) ==
    /\ decoder_kv.oldest + decoder_kv.used = decoder_kv.next
    /\ start = decoder_kv.next /\ n > 0 /\ n <= DecCap

\* Mutant of UsedAfter: the ring counts as full from the first row on.
UsedAfter_Full(n) == DecCap

UsedAfter(n) == MinOf(DecCap, decoder_kv.used + n)

\* decoder_kv_commit_plan.
CommitPlan(n) ==
    LET next == decoder_kv.next + n
    IN  decoder_kv' = [used |-> UsedAfter(n), oldest |-> next - UsedAfter(n), next |-> next]

\* The embedding a position reads through the audio ring.
AudioAt(p) == audio_emb_ring[p % AembCap]

WritePositions(start, n) ==
    [s \in 0..(DecCap - 1) |->
        LET here == { p \in start..(start + n - 1) : p % DecCap = s }
        IN  IF here = {} THEN dec_ring[s]
            ELSE LET p == CHOOSE p \in here : TRUE IN [audio |-> AudioAt(p), pos |-> p]]

\* clear_kv_cache: logical only.
ClearKv ==
    /\ decoder_kv' = EmptyKv
    /\ mask_valid' = -1

\* voxtral_ctx_decoder_begin_incremental.
BeginDecoder ==
    /\ ClearKv
    /\ attached' = TRUE
    /\ UNCHANGED << audio_emb_ring, dec_ring, step_graph, device_mask, decoded >>

\* voxtral_ctx_decoder_reset_incremental.
ResetDecoder ==
    /\ ClearKv
    /\ attached' = FALSE
    /\ decoded' = NotDecoded
    /\ UNCHANGED << audio_emb_ring, dec_ring, step_graph, device_mask >>

\* build_decoder_prefill_graph: the embeddings are a contiguous view from column
\* 0 of the audio ring, not a lookup by position; the K/V rows go to the slots of
\* the plan.
PrefillGraph(n) ==
    [s \in 0..(DecCap - 1) |->
        LET here == { i \in 0..(n - 1) : (decoder_kv.next + i) % DecCap = s }
        IN  IF here = {} THEN dec_ring[s]
            ELSE LET i == CHOOSE i \in here : TRUE
                 IN  [audio |-> audio_emb_ring[i], pos |-> decoder_kv.next + i]]

\* run_decoder_prefill of the prompt.
Prefill(n) ==
    /\ ValidAppend(decoder_kv.next, n)
    /\ dec_ring' = PrefillGraph(n)
    /\ CommitPlan(n)
    /\ UNCHANGED << audio_emb_ring, attached, step_graph, mask_valid, device_mask,
                    decoded >>

\* Mutant of StepMask: the upload is skipped whenever some mask was uploaded.
StepMask_Sticky(valid) ==
    LET want    == IF valid = DecCap THEN "full" ELSE "masked"
        rebuilt == step_graph # want
        upload  == want = "masked" /\ (rebuilt \/ mask_valid = -1)
    IN  [graph  |-> want,
         cached |-> IF upload THEN valid ELSE IF rebuilt THEN -1 ELSE mask_valid,
         device |-> IF upload THEN valid ELSE IF rebuilt THEN Unset ELSE device_mask]

\* ensure_decoder_step_graph and the mask upload of run_decoder_step: the graph
\* is rebuilt when the cache becomes full or stops being full, and a rebuilt
\* graph has a mask tensor nobody has written yet.
StepMask(valid) ==
    LET want    == IF valid = DecCap THEN "full" ELSE "masked"
        rebuilt == step_graph # want
        cached  == IF rebuilt THEN -1 ELSE mask_valid
        upload  == want = "masked" /\ cached # valid
    IN  [graph  |-> want,
         cached |-> IF upload THEN valid ELSE cached,
         device |-> IF upload THEN valid ELSE IF rebuilt THEN Unset ELSE device_mask]

\* build_decoder_step_graph_reusable: the full topology has no mask, the masked one
\* sees the slots the uploaded mask opens.
OpenSlots(mask) ==
    IF mask.graph = "full" THEN 0..(DecCap - 1) ELSE 0..(mask.device - 1)

\* run_decoder_step at a position, on the reusable graph.
Step(p) ==
    LET mask == StepMask(UsedAfter(1))
        rows == WritePositions(p, 1)
    IN  /\ ValidAppend(p, 1)
        /\ dec_ring' = rows
        /\ CommitPlan(1)
        /\ step_graph' = mask.graph
        /\ mask_valid' = mask.cached
        /\ device_mask' = mask.device
        /\ decoded' = [pos |-> p, audio |-> AudioAt(p), keys |-> { rows[s] : s \in OpenSlots(mask) }]
        /\ UNCHANGED << audio_emb_ring, attached >>

\* The step's graph reports an error: the K/V row may be written, the span is not
\* moved.
StepFails(p) ==
    LET mask == StepMask(UsedAfter(1))
    IN  /\ dec_ring' \in {dec_ring, WritePositions(p, 1)}
        /\ step_graph' = mask.graph
        /\ mask_valid' = mask.cached
        /\ device_mask' = mask.device
        /\ UNCHANGED << audio_emb_ring, decoder_kv, attached, decoded >>

-----------------------------------------------------------------------------
(* Properties. *)

DecTypeOK ==
    /\ DOMAIN audio_emb_ring = 0..(AembCap - 1)
    /\ DOMAIN dec_ring = 0..(DecCap - 1)
    /\ decoder_kv \in [used : 0..DecCap, oldest : Nat, next : Nat]
    /\ attached \in BOOLEAN
    /\ step_graph \in {"none", "masked", "full"}
    /\ mask_valid \in -1..DecCap /\ device_mask \in -1..DecCap

\* A decoder step reads the embedding of its own position, computed from the
\* frames of its own group and stream, although both rings have wrapped and
\* hold rows of earlier streams (voxtral_ctx_adapter_commit, run_decoder_step).
StepHearsOwnGroup ==
    decoded.pos >= 0 => decoded.audio = GroupRows(decoded.pos)

\* A step attends exactly the newest DecCap positions of its own stream, itself
\* included, before, at and after the change of graph when the cache fills
\* (ensure_decoder_step_graph, decoder_step_mask_valid).
StepSeesSlidingWindow ==
    decoded.pos >= 0 =>
        decoded.keys = { [audio |-> GroupRows(p), pos |-> p] :
                         p \in MaxOf(0, decoded.pos - (DecCap - 1))..decoded.pos }

\* A decoder step reads the embedding of its own group and the keys of its own
\* sliding window (voxtral_ctx_adapter_commit, run_decoder_step).
StepReadsRight == StepHearsOwnGroup /\ StepSeesSlidingWindow
=============================================================================
