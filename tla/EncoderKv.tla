------------------------------ MODULE EncoderKv ------------------------------
(***************************************************************************)
(* The per-layer KV encoder of src/src/voxtral.cpp: the launch schedule,   *)
(* the Mel tail kept for the convolution stem, the device K/V ring, and    *)
(* the two places its output goes to: the device ring the adapter reads    *)
(* (incremental streams) or a host accumulator (finish-only streams and    *)
(* the batch encoder).                                                     *)
(*                                                                         *)
(* A frame is its position in its stream; a device row is the frame that   *)
(* was written there last.  An action is one call of the encoder, or one   *)
(* device graph of encoder_kv_drive's loop.                                *)
(***************************************************************************)
EXTENDS Integers, Sequences, FiniteSets

CONSTANTS
    Window,       \* VOXTRAL_ENC_WINDOW: frames a frame attends to, itself included
    MaxNew,       \* VOXTRAL_ENC_KV_MAX_NEW: rows of the startup block, ring headroom
    Group,        \* VOXTRAL_DOWNSAMPLE_FACTOR, and the rows of the steady graph
    BlockSizes,   \* the block sizes normalize_physical_rows returns
    FullGrid,     \* VOXTRAL_ENC_KV_ATTN_MIN_ROWS
    OutCap,       \* VOXTRAL_ENC_OUT_RING_CAP
    Envs,         \* the environments a context may be created in
    FinishSizes,  \* the values of encoder_finish_physical
    MaxMel        \* bound: Mel frames of one stream

Cap == Window + MaxNew        \* VOXTRAL_ENC_KV_CAP

MaxOf(a, b) == IF a >= b THEN a ELSE b
MinOf(a, b) == IF a <= b THEN a ELSE b

-----------------------------------------------------------------------------
(* The schedule a context keeps from its environment; 0 is an unset knob.  *)

\* normalize_physical_rows: the smallest block that holds the rows.
PhysicalRows(rows) ==
    IF \A b \in BlockSizes : b < rows
    THEN MaxNew
    ELSE CHOOSE b \in BlockSizes :
            b >= rows /\ \A c \in BlockSizes : c >= rows => b <= c

\* The largest logical batch that divides the physical block.
LogicalRows(logical, physical) ==
    CHOOSE d \in 1..MinOf(logical, physical) :
        /\ physical % d = 0
        /\ \A e \in 1..MinOf(logical, physical) : physical % e = 0 => e <= d

\* encoder_kv_schedule_from_env.
ScheduleFromEnv(env) ==
    LET logical0  == IF env.grid > 0 THEN MinOf(env.grid, MaxNew) ELSE Group
        physical0 == IF env.grid >= FullGrid THEN PhysicalRows(env.grid) ELSE Group
        logical   == IF env.logical > 0 THEN MinOf(env.logical, MaxNew) ELSE logical0
        physical  == PhysicalRows(IF env.physical > 0 THEN env.physical ELSE physical0)
    IN  IF env.throughput
        THEN [logical |-> MaxNew, physical |-> MaxNew]
        ELSE [logical |-> LogicalRows(logical, physical), physical |-> physical]

\* The static_asserts of voxtral.cpp, and the blocks, which divide the startup block.
ASSUME EncoderAssumption ==
    /\ Window \in Nat \ {0}
    /\ MaxNew \in Nat \ {0}
    /\ Group \in 1..MaxNew
    /\ BlockSizes \subseteq 1..MaxNew
    /\ \A b \in BlockSizes : MaxNew % b = 0
    /\ FinishSizes \subseteq BlockSizes
    /\ OutCap \in Nat \ {0}
    /\ MaxNew <= OutCap
    /\ OutCap % Group = 0
    /\ MaxMel \in Nat
    /\ Envs \subseteq [throughput : BOOLEAN, grid : Nat, logical : Nat, physical : Nat]

VARIABLES
    schedule,         \* ctx->encoder_schedule
    finish_physical,  \* ctx->encoder_finish_physical
    incremental,      \* ctx->want_enc_out_ring, and with it reusable_stream_graph
    stream,           \* ghost: streams the device has seen before this one
    stable_mel,       \* Mel frames received
    tail_base,        \* first Mel frame still held for the convolution
    tail_frames,      \* Mel frames held
    emitted,          \* encoder frames produced
    finalized,
    ring,             \* K/V ring: slot -> row
    enc_out_ring,     \* encoder output ring: slot -> row
    enc_accum,        \* host accumulator: rows in order
    attended,         \* ghost: what each row of the last graph read
    launched          \* ghost: the graphs of this stream, in order

encConfig == << schedule, finish_physical, incremental >>
encCounts == << stable_mel, tail_base, tail_frames, emitted, finalized >>
encDevice == << ring, enc_out_ring, enc_accum >>
encGhosts == << attended, launched >>
encVars   == << encConfig, stream, encCounts, encDevice, encGhosts >>

Row(p)  == [stream |-> stream, pos |-> p]
Blank   == [stream |-> -1, pos |-> -1]    \* the one-time clear at allocation
Padding == [stream |-> -2, pos |-> -2]    \* a dummy row of the graph
ZeroMel == -1                             \* the convolution's own zero padding

-----------------------------------------------------------------------------
(* The plan of one launch. *)

\* Mutant of RingSegments: the span is not split where the ring ends.
RingSegments_Unsplit(start, len) ==
    << [slot |-> MinOf(start % Cap, Cap - len), len |-> len] >>

\* enc_kv_ring_segments: a span of positions as at most two runs of slots.
RingSegments(start, len) ==
    LET slot  == start % Cap
        first == MinOf(len, Cap - slot)
    IN  IF first >= len
        THEN << [slot |-> slot, len |-> len] >>
        ELSE << [slot |-> slot, len |-> first], [slot |-> 0, len |-> len - first] >>

SegmentSlot(segs, i) ==
    IF i < segs[1].len THEN segs[1].slot + i ELSE segs[2].slot + (i - segs[1].len)

ValidPlan(q, n) == q >= 0 /\ n > 0 /\ n <= Cap - Window

\* The first Mel frame of the convolution window of a launch, and of the tail
\* to keep for it.
ConvStart(q) == MaxOf(0, 2 * (q - 2))

ConvEnd(q, n) == 2 * (q + n)

\* Mutant of WindowStart: a window one frame too wide.
WindowStart_Wide(q) == MaxOf(0, q - Window)

\* voxtral_enc_kv_mask_allows, as the first key a query may see.
WindowStart(q) == MaxOf(0, q - (Window - 1))

\* enc_frames_realizable.
Realizable(mel) == IF mel < 2 THEN 0 ELSE (mel - 2) \div 2 + 1

\* The Mel frames the two causal convolutions (kernel 3, strides 1 and 2) read
\* for output j of an input that starts at Mel frame start.
ConvReads(start, j) ==
    { IF i < 0 \/ start + i < 0 THEN ZeroMel ELSE start + i :
      i \in (2 * j - 3)..(2 * j + 1) }

-----------------------------------------------------------------------------
(* The graphs. *)

\* The K/V rows of a launch, written at the plan's slots before the attention
\* of the same graph reads them.
WriteRows(q, n) ==
    LET segs == RingSegments(q, n)
        New(s) == { i \in 0..(n - 1) : SegmentSlot(segs, i) = s }
    IN  [s \in 0..(Cap - 1) |->
            IF New(s) = {} THEN ring[s] ELSE Row(q + (CHOOSE i \in New(s) : TRUE))]

\* build_encoder_kv_graph: the queries sit at their offset in a block of P rows.
\* The key columns are dummy rows, old rows out of the ring in one or two
\* segments, the new rows, dummy rows; the mask opens the causal window.
BatchReads(q, n, P) ==
    LET block_start == q - (q % P)
        key_start   == WindowStart(block_start)
        valid_old   == MaxOf(key_start, WindowStart(q))
        prefix_len  == valid_old - key_start
        old_len     == q - valid_old
        old_segs    == RingSegments(valid_old, old_len)
        rows        == WriteRows(q, n)
        Column(c)   == CASE c < prefix_len -> Padding
                         [] c >= prefix_len /\ c < prefix_len + old_len ->
                                rows[SegmentSlot(old_segs, c - prefix_len)]
                         [] c >= prefix_len + old_len /\ c < prefix_len + old_len + n ->
                                Row(q + (c - prefix_len - old_len))
                         [] OTHER -> Padding
        Open(r)     == { c \in 0..(block_start + P - key_start - 1) :
                            key_start + c \in WindowStart(r)..r }
        start       == ConvStart(q)
    IN  [r \in q..(q + n - 1) |->
            [keys |-> { Column(c) : c \in Open(r) },
             mel  |-> ConvReads(start, (q - start \div 2) + (r - q))]]

\* build_encoder_steady_graph: a fixed shape over the whole ring; the mask opens
\* the slots of each query's window.
SteadyReads(q) ==
    LET rows == WriteRows(q, Group)
    IN  [r \in q..(q + Group - 1) |->
            [keys |-> { rows[k % Cap] : k \in WindowStart(r)..r },
             mel  |-> ConvReads(2 * (q - 2), 2 + (r - q))]]

IsSteady(l) == incremental /\ l.n = Group /\ l.p = Group

\* Both ways into the output ring, SET_ROWS of the steady graph and the copy
\* of the staged rows: position modulo capacity.
CopyOut(q, n) ==
    LET New(s) == { i \in 0..(n - 1) : (q + i) % OutCap = s }
    IN  [s \in 0..(OutCap - 1) |->
            IF New(s) = {} THEN enc_out_ring[s]
            ELSE Row(q + (CHOOSE i \in New(s) : \A j \in New(s) : j <= i))]

-----------------------------------------------------------------------------
(* encoder_kv_drive: the next graph of the loop, if there is one. *)

NoLaunch == [q |-> -1, n |-> 0, p |-> 0, final |-> FALSE]

\* The startup block waits for all its rows, and nothing runs before it.
Startup(final) == emitted = 0 /\ (Realizable(stable_mel) >= MaxNew \/ ~final)

\* Mutant of NextLaunch: steady graphs may run before the startup block.
NextLaunch_Eager(final) ==
    LET rem == Realizable(stable_mel) - emitted
    IN  IF rem <= 0 \/ (~final /\ rem < schedule.logical) THEN NoLaunch
        ELSE [q |-> emitted, n |-> MinOf(schedule.logical, rem),
              p |-> schedule.physical, final |-> final]

NextLaunch(final) ==
    LET rem      == Realizable(stable_mel) - emitted
        terminal == final /\ incremental
        physical == IF terminal THEN finish_physical ELSE schedule.physical
        logical  == IF terminal THEN finish_physical ELSE schedule.logical
        room     == physical - (emitted % physical)
    IN  CASE rem <= 0 -> NoLaunch
          [] rem > 0 /\ Startup(final) ->
                IF rem < MaxNew THEN NoLaunch
                ELSE [q |-> 0, n |-> MaxNew, p |-> MaxNew, final |-> final]
          [] rem > 0 /\ ~Startup(final) /\ ~final /\ rem < schedule.logical -> NoLaunch
          [] OTHER -> [q |-> emitted, n |-> MinOf(MinOf(logical, room), rem),
                       p |-> physical, final |-> final]

\* What encoder_kv_run, run_encoder_kv_batch and the graph builder check before
\* anything is computed.
Runnable(l) ==
    /\ ValidPlan(l.q, l.n)
    /\ ConvEnd(l.q, l.n) <= stable_mel
    /\ ConvStart(l.q) >= tail_base
    /\ ConvEnd(l.q, l.n) <= tail_base + tail_frames
    /\ (l.q % l.p) + l.n <= l.p

-----------------------------------------------------------------------------
(* The operations. *)

EncInit ==
    /\ \E env \in Envs : schedule = ScheduleFromEnv(env)
    /\ finish_physical \in FinishSizes
    /\ incremental \in BOOLEAN
    /\ stream = 0
    /\ stable_mel = 0 /\ tail_base = 0 /\ tail_frames = 0
    /\ emitted = 0 /\ finalized = FALSE
    /\ ring = [s \in 0..(Cap - 1) |-> Blank]
    /\ enc_out_ring = [s \in 0..(OutCap - 1) |-> Blank]
    /\ enc_accum = << >> /\ attended = << >> /\ launched = << >>

\* push_mel and push_mel_final up to the call of encoder_kv_drive; also the
\* whole Mel of run_encoder_global.
PushMel(n) ==
    /\ ~finalized /\ n > 0 /\ stable_mel + n <= MaxMel
    /\ stable_mel' = stable_mel + n
    /\ tail_frames' = tail_frames + n
    /\ UNCHANGED << encConfig, stream, tail_base, emitted, finalized, encDevice,
                    encGhosts >>

\* Mutant of TrimTail: the tail starts at the next frame itself.
TrimTail_NoContext(e) ==
    /\ tail_base' = MaxOf(tail_base, 2 * e)
    /\ tail_frames' = MaxOf(0, tail_frames - (2 * e - tail_base))

\* encoder_kv_trim_tail after the head has moved to e.
TrimTail(e) ==
    LET keep_from == ConvStart(e)
        drop      == keep_from - tail_base
    IN  IF keep_from > tail_base
        THEN /\ tail_base' = keep_from
             /\ tail_frames' = IF drop >= tail_frames THEN 0 ELSE tail_frames - drop
        ELSE UNCHANGED << tail_base, tail_frames >>

\* The output of a graph: mirrored on the device, or read back to the host.
StoreOutput(l) ==
    IF incremental
    THEN enc_out_ring' = CopyOut(l.q, l.n) /\ UNCHANGED enc_accum
    ELSE /\ enc_accum' = enc_accum \o [i \in 1..l.n |-> Row(l.q + i - 1)]
         /\ UNCHANGED enc_out_ring

\* encoder_kv_run for the next graph of the loop.
Launch(final) ==
    LET l == NextLaunch(final)
    IN  /\ ~finalized
        /\ l # NoLaunch
        /\ Runnable(l)
        /\ ring' = WriteRows(l.q, l.n)
        /\ StoreOutput(l)
        /\ attended' = IF IsSteady(l) THEN SteadyReads(l.q) ELSE BatchReads(l.q, l.n, l.p)
        /\ emitted' = l.q + l.n
        /\ launched' = Append(launched, l)
        /\ TrimTail(l.q + l.n)
        /\ UNCHANGED << encConfig, stream, stable_mel, finalized >>

\* The backend refuses the graph, or reports an error after rows were written:
\* the head and the tail stay.
LaunchFails(final) ==
    LET l == NextLaunch(final)
    IN  /\ ~finalized
        /\ l # NoLaunch
        /\ ring' \in {ring, WriteRows(l.q, l.n)}
        /\ enc_out_ring' \in {enc_out_ring} \cup
                             (IF incremental THEN {CopyOut(l.q, l.n)} ELSE {})
        /\ UNCHANGED << encConfig, stream, encCounts, enc_accum, encGhosts >>

\* encoder_stream_finish after its own drive: nothing is left to launch, unless
\* a launch of that drive failed.
FinishEncoder ==
    /\ ~finalized
    /\ finalized' = TRUE
    /\ tail_frames' = 0
    /\ tail_base' = stable_mel
    /\ UNCHANGED << encConfig, stream, stable_mel, emitted, encDevice, encGhosts >>

\* encoder_kv_reset: counters only, the device rows of the old stream stay.
ResetEncoder ==
    /\ stream' = stream + 1
    /\ stable_mel' = 0 /\ tail_base' = 0 /\ tail_frames' = 0
    /\ emitted' = 0 /\ finalized' = FALSE
    /\ enc_accum' = << >> /\ attended' = << >> /\ launched' = << >>
    /\ UNCHANGED << encConfig, ring, enc_out_ring >>

EncNext ==
    \/ \E n \in 1..MaxMel : PushMel(n)
    \/ \E final \in BOOLEAN : Launch(final) \/ LaunchFails(final)
    \/ FinishEncoder
    \/ ResetEncoder

EncSpec == EncInit /\ [][EncNext]_encVars

-----------------------------------------------------------------------------
(* Properties. *)

\* The frames a frame attends to: the newest Window up to itself.
CausalWindow(r) == { k \in 0..r : r - k < Window }

\* The one type invariant of the encoder.
EncTypeOK ==
    /\ schedule \in [logical : 1..MaxNew, physical : 1..MaxNew]
    /\ finish_physical \in FinishSizes
    /\ incremental \in BOOLEAN
    /\ stream \in Nat
    /\ stable_mel \in 0..MaxMel
    /\ tail_base \in Nat /\ tail_frames \in Nat
    /\ emitted \in Nat
    /\ finalized \in BOOLEAN
    /\ DOMAIN ring = 0..(Cap - 1)
    /\ DOMAIN enc_out_ring = 0..(OutCap - 1)

\* Every row attends exactly the frames of its own causal window and stream,
\* whichever graph computed it, wherever the ring wrapped, and whatever an
\* earlier stream or a failed graph left on the device (build_encoder_kv_graph,
\* run_encoder_steady_batch).
AttendsOwnWindow ==
    \A r \in DOMAIN attended :
        attended[r].keys = { Row(k) : k \in CausalWindow(r) }

\* Every row is convolved from its real Mel frames: the stem's zero padding
\* stands only for frames before the stream (the two frames of left context
\* voxtral_enc_kv_plan asks for and encoder_kv_trim_tail keeps).
ConvolvesOwnMel ==
    \A r \in DOMAIN attended :
        attended[r].mel = { IF i < 0 THEN ZeroMel ELSE i : i \in (2*r - 3)..(2*r + 1) }

\* Whichever graph computes a row, wherever the rings wrapped and whatever an
\* earlier stream or a failed graph left on the device, it reads the keys and the
\* Mel frames of its own window (build_encoder_kv_graph, encoder_kv_trim_tail).
EncoderReadsRight == AttendsOwnWindow /\ ConvolvesOwnMel

\* The drive loop never computes a launch its own checks would refuse: the plan
\* fits the ring, the trimmed tail still covers the convolution, no launch
\* crosses a physical block.  A refusal fails the stream for good.
NeverRefused ==
    \A final \in BOOLEAN :
        LET l == NextLaunch(final) IN ~finalized /\ l # NoLaunch => Runnable(l)

\* The rows the next launch attends to are still in the ring, even after a
\* failed launch has written beyond the head (VOXTRAL_ENC_KV_CAP's headroom).
RingHoldsWindow ==
    \A p \in CausalWindow(emitted) \ {emitted} : ring[p % Cap] = Row(p)

\* Every emitted frame is where its reader looks for it: once each and in order
\* in the host accumulator, or in the device ring until the reader is more than
\* the ring less one launch behind, even after a launch that failed half way.
OutputInOrder ==
    IF incremental
    THEN \A p \in MaxOf(0, emitted - (OutCap - MaxNew))..(emitted - 1) :
            enc_out_ring[p % OutCap] = Row(p)
    ELSE enc_accum = [i \in 1..emitted |-> Row(i - 1)]

\* What a later graph or reader needs is on the device, even after a launch that
\* failed half way (VOXTRAL_ENC_KV_CAP, copy_chunk_to_enc_out_ring).
DeviceRowsKept == RingHoldsWindow /\ OutputInOrder

\* Before the end of the audio the k-th graph is the same for every way of
\* cutting the Mel frames into pushes (encoder_kv_drive: "every feed plan uses
\* the same graph sequence").
CanonicalLaunch(k) ==
    IF k = 1 THEN [q |-> 0, n |-> MaxNew, p |-> MaxNew, final |-> FALSE]
    ELSE [q |-> MaxNew + (k - 2) * schedule.logical, n |-> schedule.logical,
          p |-> schedule.physical, final |-> FALSE]

SameGraphsForEveryPlan ==
    \A k \in DOMAIN launched : ~launched[k].final => launched[k] = CanonicalLaunch(k)
=============================================================================
