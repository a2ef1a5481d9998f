----------------------- MODULE ReferenceEncoder_proofs -----------------------
(***************************************************************************)
(* Proofs about the reference encoder of a stream, for every overlap,      *)
(* downsampling factor and emission interval that ReferenceAssumption      *)
(* allows: the types, the bounds of its window and of its work, and that   *)
(* it hands the adapter the frames of the batch path's chunked encoder.    *)
(*                                                                         *)
(* Two loops meet here.  The batch path's runs over a complete signal and  *)
(* has a closed form, frame by frame (RunsToBatchFrames); the stream's is  *)
(* spread over pushes, and its invariant says which of those frames it     *)
(* has emitted and from which window it will emit the next.                *)
(***************************************************************************)
EXTENDS ReferenceEncoder, MelFrontend_proofs

-----------------------------------------------------------------------------
(* Arithmetic of chunks.                                                   *)

\* The sizes of a chunk in terms of overlap and group.
LEMMA Sizes ==
    /\ Overlap \in Nat \ {0} /\ Downsample \in Nat \ {0} /\ Whole \in Nat \ {0}
    /\ Whole = 2 * Downsample /\ ChunkMel = 4 * Overlap /\ MelStride = 2 * Overlap
    /\ ChunkMel % Whole = 0 /\ EmitMel \in Nat \ {0} /\ EmitMel % Whole = 0
  BY ReferenceAssumption DEF Whole, MelStride

\* Where chunk c starts, in Mel and in encoder frames.
LEMMA Starts ==
    ASSUME NEW c \in Nat
    PROVE  /\ c * Overlap \in Nat /\ c * MelStride = 2 * (c * Overlap)
           /\ (c + 1) * Overlap = c * Overlap + Overlap
           /\ (c + 1) * MelStride = c * MelStride + 2 * Overlap
           /\ c <= c * Overlap /\ 0 * Overlap = 0
           /\ c > 0 => c * Overlap >= Overlap /\ (c - 1) * Overlap = c * Overlap - Overlap
  <1>1. Overlap \in Nat \ {0} /\ MelStride = 2 * Overlap
    BY Sizes
  <1>2. /\ c * Overlap \in Nat /\ c <= c * Overlap /\ (c + 1) * Overlap = c * Overlap + 1 * Overlap
        /\ c > 0 => c * Overlap >= Overlap
    BY <1>1, Multiples
  <1>3. c * MelStride = 2 * (c * Overlap) /\ 1 * Overlap = Overlap /\ 0 * Overlap = 0
    BY <1>1
  <1>4. (c + 1) * MelStride = 2 * ((c + 1) * Overlap)
    BY <1>1
  <1>5. ASSUME c > 0
        PROVE  (c - 1) * Overlap = c * Overlap - Overlap
    <2>1. PICK d \in Nat : c = d + 1
      <3>1. c - 1 \in Nat /\ c = (c - 1) + 1
        BY <1>5
      <3> QED  BY <3>1
    <2>2. (d + 1) * Overlap = d * Overlap + 1 * Overlap
      BY <1>1, Multiples
    <2>3. d * Overlap \in Nat
      BY <1>1
    <2> QED  BY <1>1, <1>3, <2>1, <2>2, <2>3
  <1> QED  BY <1>1, <1>2, <1>3, <1>4, <1>5

\* A number is its quotient's multiple and its remainder.
LEMMA Division ==
    ASSUME NEW h \in Nat \ {0}, NEW n \in Nat
    PROVE  n \div h \in Nat /\ n % h \in 0 .. h - 1 /\ n = (n \div h) * h + (n % h)
  <1> DEFINE q == n \div h
             r == n % h
  <1>1. n = q * h + r /\ r \in 0 .. h - 1 /\ q \in Nat
    OBVIOUS
  <1> QED  BY <1>1

\* Multiples of a positive number, and their differences.
LEMMA Minus ==
    ASSUME NEW n \in Nat \ {0}, NEW k \in Int, NEW q \in Int
    PROVE  (k - q) * n = k * n - q * n
  OBVIOUS

\* A multiple has no remainder.
LEMMA MultipleRemainder ==
    ASSUME NEW n \in Nat \ {0}, NEW k \in Nat
    PROVE  (k * n) % n = 0
  <1> DEFINE x == k * n
             q == x \div n
             r == x % n
  <1>1. x \in Nat
    OBVIOUS
  <1>2. x = q * n + r /\ r \in 0 .. n - 1 /\ q \in Nat
    BY <1>1, Division
  <1>3. r = (k - q) * n
    <2> HIDE DEF q, r
    <2>1. (k - q) * n = k * n - q * n
      BY <1>2, Minus
    <2> QED  BY <1>1, <1>2, <2>1
  <1> HIDE DEF x, q, r
  <1>4. r = 0
    BY <1>2, <1>3, SmallMultiple
  <1> QED  BY <1>4 DEF r, x

\* Frames of the second convolution and of a truncated chunk.
LEMMA Tokens ==
    ASSUME NEW n \in Nat
    PROVE  /\ ConvFrames(n) \in Nat /\ n <= 2 * ConvFrames(n) /\ 2 * ConvFrames(n) <= n + 1
           /\ Trunc(n) \in Nat /\ EncTokens(n) \in Nat
           /\ Trunc(n) + EncTokens(n) = ConvFrames(n)
  <1> DEFINE v == ConvFrames(n)
  <1>1. v \in Nat /\ n <= 2 * v /\ 2 * v <= n + 1
    BY DEF ConvFrames
  <1>2. Downsample \in Nat \ {0}
    BY Sizes
  <1> HIDE DEF v
  <1>3. v % Downsample \in Nat /\ v % Downsample <= v
    <2>1. CASE v < Downsample
      BY <1>1, <1>2, <2>1, SmallRemainder
    <2>2. CASE v >= Downsample
      <3>1. v % Downsample \in 0 .. Downsample - 1
        BY <1>1, <1>2
      <3> QED  BY <1>1, <1>2, <2>2, <3>1
    <2> QED  BY <1>1, <1>2, <2>1, <2>2
  <1> QED  BY <1>1, <1>3 DEF v, Trunc, EncTokens

\* Whole groups are not truncated, and two Mel frames make an encoder frame.
LEMMA WholeGroups ==
    ASSUME NEW n \in Nat, n % Whole = 0
    PROVE  Trunc(n) = 0 /\ 2 * EncTokens(n) = n /\ 2 * ConvFrames(n) = n
  <1>1. Downsample \in Nat \ {0} /\ Whole = 2 * Downsample /\ Whole \in Nat \ {0}
    BY Sizes
  <1>2. PICK k \in Nat : n = k * Whole
    <2> DEFINE q == n \div Whole
    <2>1. n = q * Whole + (n % Whole) /\ q \in Nat
      BY <1>1, Division
    <2>2. q * Whole \in Nat
      BY <1>1, <2>1
    <2> DEFINE x == q * Whole
    <2> HIDE DEF q, x
    <2>3. n = x
      BY <2>1, <2>2 DEF x
    <2>4. n = q * Whole
      BY <2>3 DEF x
    <2> QED  BY <2>1, <2>4
  <1> DEFINE d == k * Downsample
  <1>3. n = 2 * d /\ d \in Nat /\ d % Downsample = 0
    BY <1>1, <1>2, MultipleRemainder
  <1> HIDE DEF d
  <1>4. ConvFrames(n) = d
    BY <1>3 DEF ConvFrames
  <1> QED  BY <1>3, <1>4 DEF Trunc, EncTokens

\* A complete chunk gives two overlaps of frames, and one that is a stride short
\* at most one.
LEMMA ChunkTokens ==
    /\ EncTokens(ChunkMel) = 2 * Overlap /\ Trunc(ChunkMel) = 0
    /\ \A n \in Nat : n <= MelStride => EncTokens(n) <= Overlap
    /\ \A n \in Nat : n <= ChunkMel => EncTokens(n) <= 2 * Overlap
  <1>1. Overlap \in Nat \ {0} /\ ChunkMel = 4 * Overlap /\ MelStride = 2 * Overlap /\ ChunkMel % Whole = 0
    BY Sizes
  <1>2. ChunkMel \in Nat /\ 2 * EncTokens(ChunkMel) = ChunkMel /\ Trunc(ChunkMel) = 0
        /\ EncTokens(ChunkMel) \in Nat
    BY <1>1, WholeGroups, Tokens
  <1>3. ASSUME NEW n \in Nat
        PROVE  EncTokens(n) \in Nat /\ 2 * EncTokens(n) <= n + 1
    <2> DEFINE e == EncTokens(n)
               v == ConvFrames(n)
               t == Trunc(n)
    <2>1. v \in Nat /\ 2 * v <= n + 1 /\ t \in Nat /\ e \in Nat /\ t + e = v
      BY Tokens
    <2> HIDE DEF e, v, t
    <2>2. 2 * e <= n + 1
      BY <2>1
    <2> QED  BY <2>1, <2>2 DEF e
  <1>4. ASSUME NEW n \in Nat
        PROVE  /\ n <= MelStride => EncTokens(n) <= Overlap
               /\ n <= ChunkMel => EncTokens(n) <= 2 * Overlap
    <2> DEFINE e == EncTokens(n)
    <2>1. e \in Nat /\ 2 * e <= n + 1
      BY <1>3
    <2> HIDE DEF e
    <2>2. (n <= MelStride => e <= Overlap) /\ (n <= ChunkMel => e <= 2 * Overlap)
      BY <1>1, <2>1
    <2> QED  BY <2>2 DEF e
  <1>5. EncTokens(ChunkMel) = 2 * Overlap
    <2> DEFINE e == EncTokens(ChunkMel)
    <2> HIDE DEF e
    <2>1. 2 * e = 4 * Overlap /\ e \in Nat
      BY <1>1, <1>2 DEF e
    <2>2. e = 2 * Overlap
      BY <1>1, <2>1
    <2> QED  BY <2>2 DEF e
  <1> QED  BY <1>2, <1>4, <1>5

-----------------------------------------------------------------------------
(* A chunk, frame by frame.                                                *)

EncFrames == [first : Int, last : Int, pos : Int]

\* Encoder frame i of n Mel frames taken as chunk c.
ChunkFrame(c, n, i) ==
    [first |-> c * MelStride + 2 * Trunc(n) + 1,
     last  |-> c * MelStride + SmallerOf(2 * (Trunc(n) + i), n),
     pos   |-> c * Overlap + i - 1]

LEMMA ChunkFrameType ==
    ASSUME NEW c \in Nat, NEW n \in Nat, NEW i \in Int
    PROVE  ChunkFrame(c, n, i) \in EncFrames
  <1>1. c * MelStride \in Int /\ c * Overlap \in Int /\ Trunc(n) \in Int
    BY Starts, Tokens
  <1>2. SmallerOf(2 * (Trunc(n) + i), n) \in Int
    BY <1>1 DEF SmallerOf
  <1> QED  BY <1>1, <1>2 DEF ChunkFrame, EncFrames

\* What run_encoder_chunk makes of consecutive Mel frames.
LEMMA ChunkOutputIs ==
    ASSUME NEW c \in Nat, NEW mel \in Seq(Int),
           \A k \in 1 .. Len(mel) : mel[k] = c * MelStride + k
    PROVE  LET chunk == ChunkOutput(mel, c * Overlap)
           IN  /\ chunk \in Seq(EncFrames) /\ Len(chunk) = EncTokens(Len(mel))
               /\ \A i \in 1 .. EncTokens(Len(mel)) : chunk[i] = ChunkFrame(c, Len(mel), i)
  <1> DEFINE n == Len(mel)
             cut == Trunc(n)
             e == EncTokens(n)
             b == c * MelStride
             chunk == ChunkOutput(mel, c * Overlap)
  <1>1. n \in Nat
    BY LenProperties
  <1>2. cut \in Nat /\ e \in Nat /\ 2 * (cut + e) <= n + 1
    <2> DEFINE v == ConvFrames(n)
    <2>1. v \in Nat /\ 2 * v <= n + 1 /\ cut \in Nat /\ e \in Nat /\ cut + e = v
      BY <1>1, Tokens
    <2> HIDE DEF v, cut, e, n
    <2> QED  BY <2>1
  <1>3. ASSUME NEW i \in 1 .. e
        PROVE  /\ mel[2 * cut + 1] = b + 2 * cut + 1
               /\ mel[SmallerOf(2 * (cut + i), n)] = b + SmallerOf(2 * (cut + i), n)
    <2> HIDE DEF cut, e, b
    <2>1. 2 * cut + 1 \in 1 .. n
      <3> HIDE DEF n
      <3> QED  BY <1>1, <1>2
    <2>2. SmallerOf(2 * (cut + i), n) \in 1 .. n
      <3> HIDE DEF n
      <3> QED  BY <1>1, <1>2 DEF SmallerOf
    <2>3. b \in Int
      BY Starts DEF b
    <2>4. \A k \in 1 .. n : mel[k] = b + k
      BY DEF b
    <2> HIDE DEF n
    <2>5. mel[2 * cut + 1] = b + (2 * cut + 1)
      BY <2>1, <2>4
    <2> QED  BY <1>2, <2>2, <2>3, <2>4, <2>5
  <1>4. chunk = [i \in 1 .. e |-> [first |-> mel[2 * cut + 1],
                                   last  |-> mel[SmallerOf(2 * (cut + i), n)],
                                   pos   |-> c * Overlap + i - 1]]
    BY DEF ChunkOutput
  <1>5. ASSUME NEW i \in 1 .. e
        PROVE  chunk[i] = ChunkFrame(c, n, i)
    <2>1. chunk[i] = [first |-> mel[2 * cut + 1], last |-> mel[SmallerOf(2 * (cut + i), n)],
                      pos |-> c * Overlap + i - 1]
      BY <1>4
    <2> HIDE DEF chunk, e
    <2> QED  BY <1>3, <2>1 DEF ChunkFrame
  <1>6. chunk = [i \in 1 .. e |-> ChunkFrame(c, n, i)]
    BY <1>4, <1>5
  <1>7. \A i \in 1 .. e : ChunkFrame(c, n, i) \in EncFrames
    BY <1>1, <1>2, ChunkFrameType
  <1>8. chunk \in Seq(EncFrames) /\ Len(chunk) = e
    <2> HIDE DEF chunk, e, n, cut
    <2> QED  BY <1>2, <1>6, <1>7
  <1> QED  BY <1>5, <1>8

\* Whole groups give the same frames however many of them are run together.
LEMMA SameInWholeGroups ==
    ASSUME NEW c \in Nat, NEW n \in Nat, NEW m \in Nat, NEW i \in Int,
           n % Whole = 0, m % Whole = 0, 2 * i <= n, 2 * i <= m
    PROVE  ChunkFrame(c, n, i) = ChunkFrame(c, m, i)
  <1>1. Trunc(n) = 0 /\ Trunc(m) = 0
    BY WholeGroups
  <1>2. SmallerOf(2 * (0 + i), n) = 2 * i /\ SmallerOf(2 * (0 + i), m) = 2 * i
    BY DEF SmallerOf
  <1> QED  BY <1>1, <1>2 DEF ChunkFrame

\* A quotient between two multiples.
LEMMA QuotientIs ==
    ASSUME NEW h \in Nat \ {0}, NEW k \in Nat, NEW n \in Nat, k * h <= n, n < k * h + h
    PROVE  n \div h = k
  <1> DEFINE q == n \div h
             x == k * h
  <1>1. q \in Nat /\ k <= q /\ (k < q => x + h <= n) /\ x \in Nat
    BY QuotientBounds
  <1>2. n < x + h
    OBVIOUS
  <1> HIDE DEF q, x
  <1>3. q = k
    BY <1>1, <1>2
  <1> QED  BY <1>3 DEF q

\* The chunk that emits frame g: the first emits two overlaps, the others the
\* second overlap of theirs.
Owner(g) == IF g <= 2 * Overlap THEN 0 ELSE (g - 1) \div Overlap - 1

LEMMA OwnerIs ==
    ASSUME NEW c \in Nat, NEW g \in Nat, g > c * Overlap + Skip(c), g <= c * Overlap + 2 * Overlap
    PROVE  Owner(g) = c
  <1>1. /\ Overlap \in Nat \ {0} /\ c * Overlap \in Nat /\ (c + 1) * Overlap = c * Overlap + Overlap
        /\ 0 * Overlap = 0 /\ c > 0 => c * Overlap >= Overlap
    BY Sizes, Starts
  <1>2. CASE c = 0
    BY <1>1, <1>2 DEF Owner
  <1>3. CASE c # 0
    <2> DEFINE x == (c + 1) * Overlap
               q == (g - 1) \div Overlap
    <2>1. g > 2 * Overlap /\ g - 1 \in Nat /\ x \in Nat /\ x <= g - 1 /\ g - 1 < x + Overlap
      BY <1>1, <1>3 DEF Skip
    <2>4. q = c + 1
      <3> DEFINE n == g - 1
                 k == c + 1
      <3>1. n \in Nat /\ k \in Nat /\ k * Overlap <= n /\ n < k * Overlap + Overlap
        BY <2>1
      <3> HIDE DEF n, k
      <3>2. n \div Overlap = k
        BY <1>1, <3>1, QuotientIs
      <3> QED  BY <3>2 DEF n, k
    <2> HIDE DEF q, x
    <2>5. ~(g <= 2 * Overlap)
      BY <1>1, <2>1
    <2> QED  BY <2>4, <2>5 DEF Owner, q
  <1> QED  BY <1>2, <1>3

\* Encoder frame g of a signal of total Mel frames, and of one that goes on.
BatchFrame(g, total) ==
    ChunkFrame(Owner(g), Len(MelOf(Owner(g), total)), g - Owner(g) * Overlap)
StableFrame(g) == ChunkFrame(Owner(g), ChunkMel, g - Owner(g) * Overlap)

-----------------------------------------------------------------------------
(* The batch path's loops.                                                 *)

\* The Mel frames of a chunk.
LEMMA MelOfIs ==
    ASSUME NEW c \in Nat, NEW total \in Nat, c * MelStride < total
    PROVE  LET mel == MelOf(c, total)
           IN  /\ mel \in Seq(Int) /\ Len(mel) = SmallerOf(ChunkMel, total - c * MelStride)
               /\ Len(mel) \in Nat \ {0} /\ Len(mel) <= ChunkMel
               /\ \A k \in 1 .. Len(mel) : mel[k] = c * MelStride + k
  <1> DEFINE b == c * MelStride
             n == SmallerOf(ChunkMel, total - b)
  <1>1. b \in Nat /\ ChunkMel \in Nat \ {0} /\ total - b \in Nat \ {0}
    BY Sizes, Starts
  <1>2. n \in Nat \ {0} /\ n <= ChunkMel
    <2> HIDE DEF b
    <2> QED  BY <1>1 DEF SmallerOf
  <1>3. MelOf(c, total) = [i \in 1 .. n |-> b + i]
    BY DEF MelOf
  <1> HIDE DEF b, n
  <1> QED  BY <1>1, <1>2, <1>3 DEF b, n

\* A chunk that ends the loop, or does not.
LEMMA NoChunkIs ==
    ASSUME NEW c \in Nat, NEW total \in Nat
    PROVE  /\ c * MelStride >= total => NoChunk(c, total)
           /\ ~NoChunk(c, total) => /\ c * MelStride < total
                                    /\ EncTokens(Len(MelOf(c, total))) > Skip(c)
  <1>1. c * MelStride \in Nat /\ Skip(c) \in Nat
    BY Sizes, Starts DEF Skip
  <1>2. ASSUME c * MelStride < total
        PROVE  EncTokens(Len(MelOf(c, total))) \in Nat
    BY <1>2, MelOfIs, Tokens
  <1> DEFINE x == c * MelStride
  <1>3. CASE x >= total
    BY <1>3 DEF NoChunk
  <1>4. CASE ~(x >= total)
    <2>1. x < total
      BY <1>1, <1>4
    <2>2. EncTokens(Len(MelOf(c, total))) \in Nat
      BY <1>2, <2>1
    <2> HIDE DEF x
    <2> QED  BY <1>1, <1>4, <2>1, <2>2 DEF NoChunk, x
  <1> QED  BY <1>3, <1>4

\* Only a complete chunk has a successor.
LEMMA BeforeAnother ==
    ASSUME NEW c \in Nat, NEW total \in Nat, ~NoChunk(c + 1, total)
    PROVE  total - c * MelStride >= ChunkMel
  <1> DEFINE b == c * MelStride
             d == (c + 1) * MelStride
             n == Len(MelOf(c + 1, total))
  <1>1. /\ b \in Nat /\ d = b + 2 * Overlap /\ Overlap \in Nat \ {0}
        /\ ChunkMel = 4 * Overlap /\ MelStride = 2 * Overlap
    BY Sizes, Starts
  <1>2. d < total /\ EncTokens(n) > Overlap
    <2>1. c + 1 \in Nat /\ Skip(c + 1) = Overlap
      BY DEF Skip
    <2>2. d < total /\ EncTokens(n) > Skip(c + 1)
      BY <2>1, NoChunkIs
    <2> QED  BY <2>1, <2>2
  <1>3. n = SmallerOf(ChunkMel, total - d) /\ n \in Nat
    <2> DEFINE k == c + 1
    <2>1. k \in Nat /\ k * MelStride < total
      BY <1>2
    <2> HIDE DEF k
    <2>2. /\ Len(MelOf(k, total)) = SmallerOf(ChunkMel, total - k * MelStride)
          /\ Len(MelOf(k, total)) \in Nat
      BY <2>1, MelOfIs
    <2> QED  BY <2>2 DEF k
  <1>4. ~(n <= MelStride)
    <2>1. EncTokens(n) \in Nat /\ (n <= MelStride => EncTokens(n) <= Overlap)
      BY <1>3, Tokens, ChunkTokens
    <2> HIDE DEF n
    <2> QED  BY <1>1, <1>2, <2>1
  <1> HIDE DEF b, d, n
  <1>5. total - b >= ChunkMel
    BY <1>1, <1>2, <1>3, <1>4 DEF SmallerOf
  <1> QED  BY <1>5 DEF b

\* A complete chunk is run.
LEMMA CompleteRuns ==
    ASSUME NEW c \in Nat, NEW total \in Nat, total - c * MelStride >= ChunkMel
    PROVE  /\ ~NoChunk(c, total) /\ Len(MelOf(c, total)) = ChunkMel
           /\ EncTokens(Len(MelOf(c, total))) = 2 * Overlap
  <1> DEFINE b == c * MelStride
  <1>1. b \in Nat /\ ChunkMel \in Nat \ {0} /\ Overlap \in Nat \ {0}
    BY Sizes, Starts
  <1>2. b < total /\ SmallerOf(ChunkMel, total - b) = ChunkMel
    <2> HIDE DEF b
    <2> QED  BY <1>1 DEF b, SmallerOf
  <1>3. Len(MelOf(c, total)) = ChunkMel
    BY <1>2, MelOfIs
  <1>4. EncTokens(Len(MelOf(c, total))) = 2 * Overlap
    BY <1>3, ChunkTokens
  <1>5. ~(2 * Overlap <= Skip(c))
    BY <1>1 DEF Skip
  <1>6. ~(b >= total)
    <2> HIDE DEF b
    <2> QED  BY <1>1, <1>2
  <1> QED  BY <1>3, <1>4, <1>5, <1>6 DEF NoChunk

\* The loop's last pass.
LEMMA ChunksIs ==
    ASSUME NEW total \in Nat
    PROVE  /\ Chunks(total) \in 0 .. total /\ NoChunk(Chunks(total), total)
           /\ \A b \in 0 .. Chunks(total) - 1 : ~NoChunk(b, total)
  <1> DEFINE S == {c \in 0 .. total : NoChunk(c, total)}
             P(c) == NoChunk(c, total) /\ \A b \in 0 .. (c - 1) : ~NoChunk(b, total)
  <1>1. total \in S
    <2>1. total <= total * Overlap /\ total * MelStride = 2 * (total * Overlap) /\ total * Overlap \in Nat
      BY Starts
    <2>2. total * MelStride >= total
      BY <2>1
    <2> QED  BY <2>2, NoChunkIs
  <1>2. PICK c \in S : \A y \in S : c <= y
    <2>1. S \subseteq Nat /\ S # {}
      BY <1>1
    <2> HIDE DEF S
    <2> QED  BY <2>1, LeastElement
  <1>3. ASSUME NEW b \in 0 .. (c - 1)
        PROVE  ~NoChunk(b, total)
    <2>1. b \in 0 .. total /\ ~(c <= b)
      BY <1>2
    <2> QED  BY <1>2, <2>1
  <1>4. c \in 0 .. total /\ P(c)
    BY <1>2, <1>3
  <1>5. Chunks(total) = CHOOSE k \in 0 .. total : P(k)
    BY DEF Chunks
  <1> HIDE DEF P
  <1>6. Chunks(total) \in 0 .. total /\ P(Chunks(total))
    BY <1>4, <1>5
  <1> QED  BY <1>6 DEF P

LEMMA ChunksUnique ==
    ASSUME NEW total \in Nat, NEW c \in Nat, NoChunk(c, total),
           \A b \in 0 .. c - 1 : ~NoChunk(b, total)
    PROVE  Chunks(total) = c
  <1> DEFINE k == Chunks(total)
  <1>1. /\ k \in Nat /\ NoChunk(k, total) /\ \A b \in 0 .. k - 1 : ~NoChunk(b, total)
    BY ChunksIs
  <1> HIDE DEF k
  <1>2. ~(k < c)
    <2>1. k < c => k \in 0 .. c - 1
      BY <1>1
    <2> QED  BY <1>1, <2>1
  <1>3. ~(c < k)
    <2>1. c < k => c \in 0 .. k - 1
      BY <1>1
    <2> QED  BY <1>1, <2>1
  <1> QED  BY <1>1, <1>2, <1>3 DEF k

\* The output after c passes: its length, and its frames.
BatchLen(c, total) ==
    IF c = 0 THEN 0 ELSE (c - 1) * Overlap + EncTokens(Len(MelOf(c - 1, total)))
BatchOutput(c, total) == [g \in 1 .. BatchLen(c, total) |-> BatchFrame(g, total)]

\* Before a chunk that is run the output ends where its new frames begin.
LEMMA LenBefore ==
    ASSUME NEW c \in Nat, NEW total \in Nat, ~NoChunk(c, total)
    PROVE  BatchLen(c, total) = c * Overlap + Skip(c)
  <1>1. 0 * Overlap = 0 /\ Overlap \in Nat
    BY Sizes, Starts
  <1>2. CASE c = 0
    BY <1>1, <1>2 DEF BatchLen, Skip
  <1>3. CASE c # 0
    <2>1. PICK b \in Nat : c = b + 1
      <3>1. c - 1 \in Nat /\ c = (c - 1) + 1
        BY <1>3
      <3> QED  BY <3>1
    <2>2. EncTokens(Len(MelOf(b, total))) = 2 * Overlap
      BY <2>1, BeforeAnother, CompleteRuns
    <2>3. c * Overlap = b * Overlap + Overlap /\ c - 1 = b /\ b * Overlap \in Nat
      <3>1. (b + 1) * Overlap = b * Overlap + Overlap /\ b * Overlap \in Nat
        BY Starts
      <3>2. c - 1 = b
        BY <2>1
      <3> QED  BY <2>1, <3>1, <3>2
    <2> QED  BY <1>1, <1>3, <2>2, <2>3 DEF BatchLen, Skip
  <1> QED  BY <1>2, <1>3

\* A pass adds its new frames.
LEMMA LenAfter ==
    ASSUME NEW c \in Nat, NEW total \in Nat, ~NoChunk(c, total)
    PROVE  LET e == EncTokens(Len(MelOf(c, total)))
           IN  /\ e \in Nat /\ e > Skip(c) /\ e <= 2 * Overlap
               /\ BatchLen(c + 1, total) = c * Overlap + e
               /\ BatchLen(c + 1, total) = BatchLen(c, total) + e - Skip(c)
               /\ BatchLen(c, total) \in Nat /\ BatchLen(c + 1, total) \in Nat
  <1> DEFINE e == EncTokens(Len(MelOf(c, total)))
             x == c * Overlap
  <1>1. c * MelStride < total /\ e > Skip(c)
    BY NoChunkIs
  <1>2. e \in Nat /\ e <= 2 * Overlap
    BY <1>1, MelOfIs, Tokens, ChunkTokens
  <1>3. BatchLen(c + 1, total) = x + e
    <2>1. c + 1 # 0 /\ (c + 1) - 1 = c
      OBVIOUS
    <2> QED  BY <2>1 DEF BatchLen
  <1>4. BatchLen(c, total) = x + Skip(c) /\ x \in Nat /\ Skip(c) \in Nat
    BY LenBefore, Starts, Sizes DEF Skip
  <1> HIDE DEF e, x
  <1> QED  BY <1>1, <1>2, <1>3, <1>4 DEF e, x

\* The output grows from pass to pass.
LEMMA LenGrows ==
    ASSUME NEW total \in Nat, NEW c \in 0 .. Chunks(total)
    PROVE  BatchLen(c, total) \in Nat /\ BatchLen(c, total) <= BatchLen(Chunks(total), total)
  <1> DEFINE N == Chunks(total)
  <1>1. N \in Nat /\ \A b \in 0 .. N - 1 : ~NoChunk(b, total)
    BY ChunksIs
  <1>2. CASE N = 0
    <2>1. c = 0
      BY <1>1, <1>2
    <2> QED  BY <1>2, <2>1 DEF BatchLen
  <1>3. CASE N # 0
    <2>1. PICK a \in Nat : N = a + 1
      <3>1. N - 1 \in Nat /\ N = (N - 1) + 1
        BY <1>1, <1>3
      <3> QED  BY <3>1
    <2> HIDE DEF N
    <2>2. ~NoChunk(a, total)
      BY <1>1, <2>1
    <2>3. BatchLen(N, total) > a * Overlap + Skip(a) /\ BatchLen(N, total) \in Nat
          /\ a * Overlap \in Nat
      <3> DEFINE e == EncTokens(Len(MelOf(a, total)))
                 l == BatchLen(N, total)
      <3>1. e \in Nat /\ e > Skip(a) /\ l = a * Overlap + e /\ l \in Nat /\ a * Overlap \in Nat
        BY <2>1, <2>2, LenAfter, Starts
      <3>2. Skip(a) \in Nat
        BY Sizes DEF Skip
      <3> HIDE DEF e, l
      <3>3. l > a * Overlap + Skip(a)
        BY <3>1, <3>2
      <3> QED  BY <3>1, <3>3 DEF l
    <2>4. CASE c = N
      BY <2>3, <2>4 DEF N
    <2>5. CASE c # N
      <3>1. c \in Nat /\ c <= a /\ ~NoChunk(c, total)
        BY <1>1, <2>1, <2>5 DEF N
      <3>2. BatchLen(c, total) = c * Overlap + Skip(c) /\ c * Overlap \in Nat /\ Skip(c) \in Nat
        BY <3>1, LenBefore, Starts, Sizes DEF Skip
      <3>3. c * Overlap + Skip(c) <= a * Overlap + Skip(a)
        <4>1. PICK d \in Nat : a = c + d
          <5>1. a - c \in Nat /\ a = c + (a - c)
            BY <3>1
          <5> QED  BY <5>1
        <4>2. (c + d) * Overlap = c * Overlap + d * Overlap /\ d * Overlap \in Nat /\ Overlap \in Nat
          BY <3>1, Multiples, Sizes
        <4>3. Skip(c) <= Skip(a)
          BY <3>1, <4>2 DEF Skip
        <4> DEFINE x == c * Overlap
                   y == d * Overlap
                   z == a * Overlap
        <4>4. z = x + y /\ x \in Nat /\ y \in Nat
          BY <3>2, <4>1, <4>2
        <4>5. Skip(c) \in Nat /\ Skip(a) \in Nat
          BY <4>2 DEF Skip
        <4> HIDE DEF x, y, z
        <4>6. x + Skip(c) <= z + Skip(a)
          BY <4>3, <4>4, <4>5
        <4> QED  BY <4>6 DEF x, z
      <3> DEFINE u == c * Overlap
                 v == a * Overlap
                 l == BatchLen(c, total)
                 m == BatchLen(N, total)
      <3>4. l = u + Skip(c) /\ u + Skip(c) <= v + Skip(a) /\ m > v + Skip(a) /\ m \in Nat
            /\ u \in Nat /\ v \in Nat /\ Skip(c) \in Nat /\ Skip(a) \in Nat
        BY <2>3, <3>2, <3>3, Sizes DEF Skip
      <3> HIDE DEF u, v, l, m
      <3>5. l \in Nat /\ l <= m
        BY <3>4
      <3> QED  BY <3>5 DEF l, m, N
    <2> QED  BY <2>4, <2>5
  <1> QED  BY <1>2, <1>3

\* Counting up to n.
LEMMA CountUp ==
    ASSUME NEW n \in Nat, NEW S, 0 \in S, \A i \in 1 .. n : i - 1 \in S => i \in S
    PROVE  0 .. n \subseteq S
  <1> DEFINE bad == {i \in 0 .. n : i \notin S}
  <1> SUFFICES ASSUME bad # {}
               PROVE  FALSE
    OBVIOUS
  <1>1. bad \subseteq Nat
    OBVIOUS
  <1>2. PICK m \in bad : \A i \in bad : m <= i
    <2> HIDE DEF bad
    <2> QED  BY <1>1, LeastElement
  <1>3. m \in 1 .. n
    <2>1. m # 0
      BY <1>2
    <2> QED  BY <1>2, <2>1
  <1>4. m - 1 \in bad
    BY <1>2, <1>3
  <1> QED  BY <1>2, <1>3, <1>4

\* compute_total_enc_tokens, pass by pass.
NextSum(F, total, c) ==
    IF c = 0 THEN 0 ELSE F[c - 1] + EncTokens(Len(MelOf(c - 1, total))) - Skip(c - 1)
Sums(F, total) == F = [c \in 0 .. Chunks(total) |-> NextSum(F, total, c)]
SumOf(total) == CHOOSE F : Sums(F, total)

\* The length of the batch path's output is known beforehand.
LEMMA TotalIs ==
    ASSUME NEW total \in Nat
    PROVE  TotalEncTokens(total) = BatchLen(Chunks(total), total)
  <1> DEFINE N == Chunks(total)
             G == [c \in 0 .. N |-> BatchLen(c, total)]
             F == SumOf(total)
  <1>1. N \in Nat /\ \A b \in 0 .. N - 1 : ~NoChunk(b, total)
    BY ChunksIs
  <1>2. ASSUME NEW c \in 1 .. N
        PROVE  BatchLen(c, total) = BatchLen(c - 1, total)
                                    + EncTokens(Len(MelOf(c - 1, total))) - Skip(c - 1)
    <2>1. PICK b \in Nat : c = b + 1 /\ b = c - 1 /\ b \in 0 .. N - 1
      <3>1. c - 1 \in Nat /\ c = (c - 1) + 1 /\ c - 1 \in 0 .. N - 1
        BY <1>1
      <3> QED  BY <3>1
    <2>2. ~NoChunk(b, total)
      BY <1>1, <2>1
    <2>3. BatchLen(b + 1, total) = BatchLen(b, total) + EncTokens(Len(MelOf(b, total))) - Skip(b)
      BY <2>2, LenAfter
    <2> QED  BY <2>1, <2>3
  <1>3. Sums(G, total)
    <2>1. ASSUME NEW c \in 0 .. N
          PROVE  G[c] = NextSum(G, total, c)
      <3>1. CASE c = 0
        BY <3>1 DEF NextSum, BatchLen
      <3>2. CASE c # 0
        <4>1. c \in 1 .. N /\ c - 1 \in 0 .. N
          BY <1>1, <3>2
        <4>2. G[c - 1] = BatchLen(c - 1, total) /\ G[c] = BatchLen(c, total)
          BY <4>1
        <4> HIDE DEF G
        <4> QED  BY <1>2, <3>2, <4>1, <4>2 DEF NextSum
      <3> QED  BY <3>1, <3>2
    <2>2. G = [c \in 0 .. N |-> G[c]]
      OBVIOUS
    <2> HIDE DEF G
    <2> QED  BY <2>1, <2>2 DEF Sums
  <1> HIDE DEF G
  <1>4. Sums(F, total)
    BY <1>3 DEF SumOf
  <1>5. TotalEncTokens(total) = F[N]
    BY DEF TotalEncTokens, SumOf, Sums, NextSum
  <1> HIDE DEF F
  <1>6. \A c \in 0 .. N : F[c] = NextSum(F, total, c)
    BY <1>4 DEF Sums
  <1> DEFINE S == {c \in 0 .. N : F[c] = BatchLen(c, total)}
  <1>7. 0 \in S
    BY <1>1, <1>6 DEF NextSum, BatchLen
  <1>8. ASSUME NEW c \in 1 .. N, c - 1 \in S
        PROVE  c \in S
    <2>1. F[c - 1] = BatchLen(c - 1, total) /\ c \in 0 .. N /\ c # 0
      BY <1>1, <1>8
    <2>2. F[c] = F[c - 1] + EncTokens(Len(MelOf(c - 1, total))) - Skip(c - 1)
      BY <1>6, <2>1 DEF NextSum
    <2>3. F[c] = BatchLen(c, total)
      BY <1>2, <2>1, <2>2
    <2> QED  BY <2>1, <2>3
  <1> HIDE DEF S
  <1>9. 0 .. N \subseteq S
    BY <1>1, <1>7, <1>8, CountUp
  <1>10. N \in S
    BY <1>1, <1>9
  <1> QED  BY <1>5, <1>10 DEF S

\* The frames of the batch path are frames.
LEMMA BatchFrameType ==
    ASSUME NEW total \in Nat, NEW g \in Nat
    PROVE  BatchFrame(g, total) \in EncFrames
  <1> DEFINE c == Owner(g)
  <1>1. c \in Nat
    <2>1. Overlap \in Nat \ {0} /\ 1 * Overlap = Overlap
      BY Sizes
    <2>2. CASE g <= 2 * Overlap
      BY <2>2 DEF Owner
    <2>3. CASE ~(g <= 2 * Overlap)
      <3> DEFINE n == g - 1
      <3>1. n \in Nat /\ 1 * Overlap <= n
        BY <2>1, <2>3
      <3> HIDE DEF n
      <3>2. n \div Overlap \in Nat /\ 1 <= n \div Overlap
        BY <2>1, <3>1, QuotientBounds
      <3>3. Owner(g) = n \div Overlap - 1
        BY <2>3 DEF Owner, n
      <3> QED  BY <3>2, <3>3
    <2> QED  BY <2>2, <2>3
  <1>2. Len(MelOf(c, total)) \in Nat
    <2> HIDE DEF c
    <2>1. CASE c * MelStride < total
      BY <1>1, <2>1, MelOfIs
    <2>2. CASE ~(c * MelStride < total)
      <3> DEFINE m == SmallerOf(ChunkMel, total - c * MelStride)
      <3>1. m \in Int /\ ~(m >= 1)
        <4> DEFINE x == c * MelStride
        <4>1. x \in Nat /\ ChunkMel \in Nat \ {0} /\ ~(x < total)
          BY <1>1, <2>2, Starts, Sizes
        <4> HIDE DEF x
        <4>2. SmallerOf(ChunkMel, total - x) \in Int /\ ~(SmallerOf(ChunkMel, total - x) >= 1)
          BY <4>1 DEF SmallerOf
        <4> QED  BY <4>2 DEF x
      <3>2. 1 .. m = 1 .. 0
        <4> HIDE DEF m
        <4> QED  BY <3>1
      <3>3. MelOf(c, total) = [i \in 1 .. m |-> c * MelStride + i]
        BY DEF MelOf
      <3>4. MelOf(c, total) = [i \in 1 .. 0 |-> c * MelStride + i]
        BY <3>2, <3>3
      <3> QED  BY <3>4
    <2> QED  BY <2>1, <2>2
  <1>3. g - c * Overlap \in Int
    BY <1>1, Starts
  <1> HIDE DEF c
  <1>4. ChunkFrame(c, Len(MelOf(c, total)), g - c * Overlap) \in EncFrames
    BY <1>1, <1>2, <1>3, ChunkFrameType
  <1> QED  BY <1>4 DEF BatchFrame, c

LEMMA BatchOutputType ==
    ASSUME NEW total \in Nat, NEW c \in 0 .. Chunks(total)
    PROVE  /\ BatchOutput(c, total) \in Seq(EncFrames) /\ BatchLen(c, total) \in Nat
           /\ Len(BatchOutput(c, total)) = BatchLen(c, total)
           /\ \A g \in 1 .. BatchLen(c, total) : BatchOutput(c, total)[g] = BatchFrame(g, total)
  <1> DEFINE l == BatchLen(c, total)
             out == BatchOutput(c, total)
  <1>1. l \in Nat
    BY LenGrows
  <1>2. out = [g \in 1 .. l |-> BatchFrame(g, total)]
    BY DEF BatchOutput
  <1> HIDE DEF l, out
  <1>3. \A g \in 1 .. l : BatchFrame(g, total) \in EncFrames
    BY <1>1, BatchFrameType
  <1>4. out \in Seq(EncFrames) /\ Len(out) = l
    BY <1>1, <1>2, <1>3
  <1> QED  BY <1>1, <1>2, <1>4 DEF l, out

\* A pass of run_encoder_chunked appends the frames its chunk owns.
LEMMA PassAppends ==
    ASSUME NEW total \in Nat, NEW c \in 0 .. Chunks(total) - 1
    PROVE  AfterChunk(c, total, BatchOutput(c, total)) = BatchOutput(c + 1, total)
  <1> DEFINE mel == MelOf(c, total)
             n == Len(mel)
             e == EncTokens(n)
             x == c * Overlap
             s == Skip(c)
             out == BatchOutput(c, total)
             next == BatchOutput(c + 1, total)
             chunk == ChunkOutput(mel, x)
             sum == TotalEncTokens(total)
  <1>1. /\ c \in Nat /\ c \in 0 .. Chunks(total) /\ c + 1 \in 0 .. Chunks(total)
        /\ ~NoChunk(c, total)
    <2>1. Chunks(total) \in Nat /\ ~NoChunk(c, total)
      BY ChunksIs
    <2> DEFINE N == Chunks(total)
    <2>2. c \in 0 .. N - 1 /\ N \in Nat
      BY <2>1
    <2> HIDE DEF N
    <2>3. c \in Nat /\ c \in 0 .. N /\ c + 1 \in 0 .. N
      BY <2>2
    <2> QED  BY <2>1, <2>3 DEF N
  <1>2. /\ e \in Nat /\ e > s /\ e <= 2 * Overlap /\ BatchLen(c + 1, total) = x + e
        /\ BatchLen(c, total) = x + s /\ x \in Nat /\ s \in Nat
    <2>1. e \in Nat /\ e > s /\ e <= 2 * Overlap /\ BatchLen(c + 1, total) = x + e
      BY <1>1, LenAfter
    <2>2. BatchLen(c, total) = x + s
      BY <1>1, LenBefore
    <2>3. x \in Nat
      BY <1>1, Starts
    <2>4. s \in Nat
      BY Sizes DEF Skip
    <2> QED  BY <2>1, <2>2, <2>3, <2>4
  <1>3. sum >= x + e /\ sum \in Nat
    <2>1. sum = BatchLen(Chunks(total), total) /\ BatchLen(c + 1, total) <= BatchLen(Chunks(total), total)
      BY <1>1, TotalIs, LenGrows
    <2>2. Chunks(total) \in 0 .. Chunks(total)
      BY ChunksIs
    <2>3. sum \in Nat
      BY <2>1, <2>2, LenGrows
    <2> HIDE DEF sum, e, x
    <2> QED  BY <1>2, <2>1, <2>3
  <1>4. /\ mel \in Seq(Int) /\ n \in Nat /\ \A k \in 1 .. n : mel[k] = c * MelStride + k
    BY <1>1, NoChunkIs, MelOfIs
  <1>5. /\ chunk \in Seq(EncFrames) /\ Len(chunk) = e
        /\ \A i \in 1 .. e : chunk[i] = ChunkFrame(c, n, i)
    BY <1>1, <1>4, ChunkOutputIs
  <1>6. /\ out \in Seq(EncFrames) /\ Len(out) = x + s
        /\ \A g \in 1 .. x + s : out[g] = BatchFrame(g, total)
    BY <1>1, <1>2, BatchOutputType
  <1>7. /\ next \in Seq(EncFrames) /\ Len(next) = x + e
        /\ \A g \in 1 .. x + e : next[g] = BatchFrame(g, total)
    BY <1>1, <1>2, BatchOutputType
  <1>8. AfterChunk(c, total, out) = out \o SubSeq(chunk, s + 1, Len(chunk))
    <2> DEFINE len == Len(out)
               elen == Len(chunk)
    <2> HIDE DEF sum, e, x, s, out, mel
    <2>1. len - s = x /\ len = x + s
      BY <1>2, <1>6
    <2>2. SmallerOf(e - s, sum - len) = e - s /\ s + (e - s) = e
      BY <1>2, <1>3, <2>1 DEF SmallerOf
    <2>3. AfterChunk(c, total, out) =
             out \o SubSeq(ChunkOutput(mel, len - s), s + 1,
                           s + SmallerOf(Len(ChunkOutput(mel, len - s)) - s, sum - len))
      BY DEF AfterChunk, sum, s, mel
    <2>4. AfterChunk(c, total, out) = out \o SubSeq(chunk, s + 1, s + SmallerOf(Len(chunk) - s, sum - len))
      BY <2>1, <2>3
    <2> HIDE DEF chunk, len
    <2> QED  BY <1>5, <2>2, <2>4
  <1> DEFINE new == SubSeq(chunk, s + 1, Len(chunk))
             r == out \o new
  <1> HIDE DEF e, x, s, out, next, chunk, n, mel, sum
  <1>9. /\ new \in Seq(EncFrames) /\ Len(new) = e - s
        /\ \A i \in 1 .. e - s : new[i] = chunk[s + i]
    <2>1. s \in 0 .. Len(chunk)
      BY <1>2, <1>5
    <2> QED  BY <1>5, <2>1, Suffix
  <1> HIDE DEF new
  <1>10. /\ r \in Seq(EncFrames) /\ Len(r) = x + e
         /\ \A g \in 1 .. x + e : r[g] = IF g <= x + s THEN out[g] ELSE new[g - (x + s)]
    <2>1. /\ r \in Seq(EncFrames) /\ Len(r) = Len(out) + Len(new)
          /\ \A g \in 1 .. Len(out) + Len(new) : r[g] = IF g <= Len(out) THEN out[g] ELSE new[g - Len(out)]
      BY <1>6, <1>9, ConcatProperties
    <2>2. Len(out) + Len(new) = x + e
      BY <1>2, <1>6, <1>9
    <2> QED  BY <1>6, <2>1, <2>2
  <1> HIDE DEF r
  <1>11. ASSUME NEW g \in 1 .. x + e
         PROVE  r[g] = next[g]
    <2>1. CASE g <= x + s
      <3>1. g \in 1 .. x + s
        BY <1>2, <2>1
      <3> QED  BY <1>6, <1>7, <1>10, <2>1, <3>1
    <2>2. CASE ~(g <= x + s)
      <3>1. /\ g - (x + s) \in 1 .. e - s /\ s + (g - (x + s)) = g - x /\ g - x \in 1 .. e
            /\ g \in Nat /\ g > x + s /\ g <= x + 2 * Overlap
        BY <1>2, <2>2, Sizes
      <3>2. r[g] = chunk[g - x]
        BY <1>9, <1>10, <2>2, <3>1
      <3>3. r[g] = ChunkFrame(c, n, g - x)
        BY <1>5, <3>1, <3>2
      <3>4. Owner(g) = c
        BY <1>1, <3>1, OwnerIs DEF x, s
      <3>5. BatchFrame(g, total) = ChunkFrame(c, n, g - x)
        BY <3>4 DEF BatchFrame, n, mel, x
      <3> QED  BY <1>7, <3>3, <3>5
    <2> QED  BY <2>1, <2>2
  <1>12. r = next
    BY <1>7, <1>10, <1>11, SameSequence
  <1> QED  BY <1>8, <1>12 DEF r, new, out, next, e, s

\* run_encoder_chunked, pass by pass.
NextOutput(F, total, c) == IF c = 0 THEN <<>> ELSE AfterChunk(c - 1, total, F[c - 1])
Outputs(F, total) == F = [c \in 0 .. Chunks(total) |-> NextOutput(F, total, c)]
OutputOf(total) == CHOOSE F : Outputs(F, total)

\* The chunked encoder of the batch path in closed form: frame g comes from the
\* chunk that owns it, and the clamp to the allocated buffer never cuts one off.
THEOREM RunsToBatchFrames ==
    ASSUME NEW total \in Nat
    PROVE  RunChunked(total) = BatchOutput(Chunks(total), total)
  <1> DEFINE N == Chunks(total)
             G == [c \in 0 .. N |-> BatchOutput(c, total)]
             F == OutputOf(total)
  <1>1. N \in Nat
    BY ChunksIs
  <1>2. BatchOutput(0, total) = <<>>
    BY DEF BatchOutput, BatchLen
  <1>3. ASSUME NEW c \in 1 .. N
        PROVE  AfterChunk(c - 1, total, BatchOutput(c - 1, total)) = BatchOutput(c, total)
    <2>1. c - 1 \in 0 .. N - 1 /\ (c - 1) + 1 = c
      BY <1>1
    <2> DEFINE b == c - 1
    <2> HIDE DEF b
    <2>2. AfterChunk(b, total, BatchOutput(b, total)) = BatchOutput(b + 1, total)
      BY <2>1, PassAppends DEF b
    <2> QED  BY <2>1, <2>2 DEF b
  <1>4. Outputs(G, total)
    <2>1. ASSUME NEW c \in 0 .. N
          PROVE  G[c] = NextOutput(G, total, c)
      <3>1. CASE c = 0
        BY <1>2, <3>1 DEF NextOutput
      <3>2. CASE c # 0
        <4>1. c \in 1 .. N /\ c - 1 \in 0 .. N
          BY <1>1, <3>2
        <4>2. G[c - 1] = BatchOutput(c - 1, total) /\ G[c] = BatchOutput(c, total)
          BY <4>1
        <4> HIDE DEF G
        <4> QED  BY <1>3, <3>2, <4>1, <4>2 DEF NextOutput
      <3> QED  BY <3>1, <3>2
    <2>2. G = [c \in 0 .. N |-> G[c]]
      OBVIOUS
    <2> HIDE DEF G
    <2> QED  BY <2>1, <2>2 DEF Outputs
  <1> HIDE DEF G
  <1>5. Outputs(F, total)
    BY <1>4 DEF OutputOf
  <1>6. RunChunked(total) = F[N]
    BY DEF RunChunked, OutputOf, Outputs, NextOutput
  <1> HIDE DEF F
  <1>7. \A c \in 0 .. N : F[c] = NextOutput(F, total, c)
    BY <1>5 DEF Outputs
  <1> DEFINE S == {c \in 0 .. N : F[c] = BatchOutput(c, total)}
  <1>8. 0 \in S
    BY <1>1, <1>2, <1>7 DEF NextOutput
  <1>9. ASSUME NEW c \in 1 .. N, c - 1 \in S
        PROVE  c \in S
    <2>1. F[c - 1] = BatchOutput(c - 1, total) /\ c \in 0 .. N /\ c # 0
      BY <1>1, <1>9
    <2>2. F[c] = AfterChunk(c - 1, total, F[c - 1])
      BY <1>7, <2>1 DEF NextOutput
    <2>3. F[c] = BatchOutput(c, total)
      BY <1>3, <2>1, <2>2
    <2> QED  BY <2>1, <2>3
  <1> HIDE DEF S
  <1>10. 0 .. N \subseteq S
    BY <1>1, <1>8, <1>9, CountUp
  <1>11. N \in S
    BY <1>1, <1>10
  <1> QED  BY <1>6, <1>11 DEF S

-----------------------------------------------------------------------------
(* The stream's encoder.                                                   *)

EncoderStates ==
    [mel_window : Seq(Int), window_base : Nat, stable_mel : Nat, cur_chunk : Nat,
     emitted : Nat, last_run_mel_end : Nat, finalized : BOOLEAN,
     enc_accum : Seq(EncFrames), encoder_input_frames : Nat]

\* The window holds the Mel frames from the current chunk's first to the last.
WindowAt(e) ==
    /\ e.window_base = e.cur_chunk * MelStride
    /\ e.window_base + Len(e.mel_window) = e.stable_mel
    /\ \A k \in 1 .. Len(e.mel_window) : e.mel_window[k] = e.window_base + k

\* What the chunks before the current one gave has been emitted, and they were
\* complete.
EmittedFrom(e) ==
    /\ e.emitted = Len(e.enc_accum)
    /\ e.emitted >= e.cur_chunk * Overlap + Skip(e.cur_chunk)
    /\ e.cur_chunk > 0 => e.stable_mel - e.cur_chunk * MelStride >= MelStride

\* Until the final chunk is run: chunk 0 was run up to a whole group, later chunks
\* once, when they were complete.
Worked(e) ==
    IF e.cur_chunk = 0
    THEN /\ 2 * e.emitted = e.last_run_mel_end /\ e.last_run_mel_end % Whole = 0
         /\ e.last_run_mel_end < ChunkMel /\ e.last_run_mel_end <= e.stable_mel
         /\ e.encoder_input_frames <= 3 * e.last_run_mel_end
    ELSE /\ e.emitted = e.cur_chunk * Overlap + Overlap
         /\ e.encoder_input_frames <= (e.cur_chunk + 3) * ChunkMel

Interval(e) ==
    IF EmitMel >= e.last_run_mel_end \div 2 THEN EmitMel ELSE e.last_run_mel_end \div 2

\* Between drives no chunk is complete, and chunk 0 not due.
Settled(e) ==
    /\ e.stable_mel - e.cur_chunk * MelStride < ChunkMel
    /\ e.cur_chunk = 0 => e.stable_mel - e.last_run_mel_end < Interval(e) + Whole

\* The final chunk has not been run.
Early == ~es.finalized /\ driving # "finish" /\ status # "failed"

StreamInv ==
    /\ es \in EncoderStates
    /\ driving \in {"no", "push", "last", "finish"}
    /\ es.stable_mel = enc_pushed_frames
    /\ EmittedFrom(es)
    /\ ~es.finalized => WindowAt(es)
    /\ es.finalized => es.window_base = es.stable_mel /\ driving = "no" /\ status # "open"
    /\ AtFinish => status = "completed"
    /\ Early => Worked(es)
    /\ status = "open" /\ driving = "no" => Settled(es)

\* How much Mel a pass has and how much it runs.
LEMMA RunLengthIs ==
    ASSUME StreamInv, ~es.finalized, Due
    PROVE  /\ Available \in Nat \ {0} /\ RunLength \in Nat \ {0} /\ RunLength <= Available
           /\ ChunkStart \in Nat /\ ChunkStart + Available = es.stable_mel
           /\ Available = Len(es.mel_window) /\ ChunkStart = es.window_base
           /\ Complete => RunLength = ChunkMel
           /\ ~Complete => /\ Available < ChunkMel
                           /\ AtFinish => RunLength = Available
                           /\ ~AtFinish => /\ es.cur_chunk = 0 /\ RunLength = Prefix
                                           /\ Prefix - es.last_run_mel_end >= Interval(es)
  <1>1. /\ es.stable_mel \in Nat /\ es.cur_chunk \in Nat /\ es.mel_window \in Seq(Int)
        /\ WindowAt(es) /\ Len(es.mel_window) \in Nat
    BY LenProperties DEF StreamInv, EncoderStates
  <1>2. ChunkStart \in Nat /\ ChunkMel \in Nat \ {0} /\ Whole \in Nat \ {0}
    <2>1. ChunkStart = 2 * (es.cur_chunk * Overlap) /\ es.cur_chunk * Overlap \in Nat
      BY <1>1, Starts DEF ChunkStart
    <2>2. ChunkStart \in Nat
      <3> DEFINE x == es.cur_chunk * Overlap
      <3> HIDE DEF x
      <3> QED  BY <2>1 DEF x
    <2> QED  BY <2>2, Sizes
  <1>3. ChunkStart + Len(es.mel_window) = es.stable_mel /\ ChunkStart = es.window_base
    BY <1>1 DEF WindowAt, ChunkStart
  <1>4. Available = Len(es.mel_window) /\ Available > 0
    <2>1. Available = es.stable_mel - ChunkStart /\ Available > 0
      BY DEF Available, Due
    <2> DEFINE l == Len(es.mel_window)
    <2> HIDE DEF l
    <2> QED  BY <1>1, <1>2, <1>3, <2>1 DEF l
  <1>5. ~Complete => Available < ChunkMel
    BY <1>1, <1>2, <1>4 DEF Complete
  <1>6. Prefix \in Nat /\ Prefix <= Available
    <2> DEFINE q == Available \div Whole
    <2>0. Available \in Nat
      BY <1>1, <1>4
    <2>1. Available = q * Whole + (Available % Whole) /\ q \in Nat /\ Available % Whole \in Nat
      <3> DEFINE a == Available
      <3>1. a \in Nat
        BY <2>0
      <3> HIDE DEF a
      <3>2. a = (a \div Whole) * Whole + (a % Whole) /\ a \div Whole \in Nat
            /\ a % Whole \in 0 .. Whole - 1
        BY <1>2, <3>1, Division
      <3> QED  BY <1>2, <3>2 DEF a
    <2>2. q * Whole \in Nat
      BY <1>2, <2>1
    <2> DEFINE x == q * Whole
    <2>3. Available = x + (Available % Whole) /\ x \in Nat
      BY <2>1, <2>2
    <2>4. x \in Nat /\ x <= Available
      <3> HIDE DEF x, q
      <3> QED  BY <1>1, <1>4, <2>1, <2>3
    <2> QED  BY <2>4 DEF Prefix
  <1>7. ~Complete /\ ~AtFinish => /\ es.cur_chunk = 0 /\ Prefix > 0
                                  /\ Prefix - es.last_run_mel_end >= PrefixInterval
    BY DEF Due
  <1>8. PrefixInterval = Interval(es)
    BY DEF PrefixInterval, Interval
  <1>9. /\ Complete => RunLength = ChunkMel /\ Available >= ChunkMel
        /\ ~Complete /\ AtFinish => RunLength = Available
        /\ ~Complete /\ ~AtFinish => RunLength = Prefix
    BY DEF RunLength, Complete
  <1>10. RunLength \in Nat \ {0} /\ RunLength <= Available
    BY <1>1, <1>2, <1>4, <1>6, <1>7, <1>9
  <1>11. ChunkStart + Available = es.stable_mel /\ Available \in Nat \ {0}
    BY <1>1, <1>3, <1>4
  <1> QED  BY <1>2, <1>3, <1>4, <1>5, <1>7, <1>8, <1>9, <1>10, <1>11

\* encoder_stream_run_chunk adds what its chunk has beyond what was emitted.
LEMMA RunDoes ==
    ASSUME StreamInv, ~es.finalized, Due
    PROVE  LET r == AfterRun
               n == RunLength
               x == es.cur_chunk * Overlap
               e == EncTokens(n)
           IN  /\ r \in EncoderStates
               /\ r.mel_window = es.mel_window /\ r.window_base = es.window_base
               /\ r.stable_mel = es.stable_mel /\ r.cur_chunk = es.cur_chunk
               /\ r.finalized = es.finalized
               /\ r.encoder_input_frames = es.encoder_input_frames + n
               /\ r.last_run_mel_end = ChunkStart + n
               /\ r.emitted = IF x + e > es.emitted THEN x + e ELSE es.emitted
               /\ r.emitted = Len(r.enc_accum)
               /\ \A g \in 1 .. r.emitted :
                     r.enc_accum[g] = IF g <= es.emitted THEN es.enc_accum[g]
                                      ELSE ChunkFrame(es.cur_chunk, n, g - x)
  <1> DEFINE n == RunLength
             c == es.cur_chunk
             x == c * Overlap
             e == EncTokens(n)
             w == es.mel_window
             mel == SubSeq(w, 1, n)
             chunk == ChunkOutput(mel, x)
             old == es.enc_accum
             run == [es EXCEPT !.encoder_input_frames = @ + n, !.last_run_mel_end = ChunkStart + n]
  <1>1. /\ es \in EncoderStates /\ c \in Nat /\ w \in Seq(Int) /\ es.emitted \in Nat
        /\ old \in Seq(EncFrames) /\ es.emitted = Len(old) /\ es.emitted >= x + Skip(c)
        /\ es.encoder_input_frames \in Nat
    BY DEF StreamInv, EncoderStates, EmittedFrom
  <1>2. /\ n \in Nat \ {0} /\ n <= Len(w) /\ ChunkStart = es.window_base /\ ChunkStart \in Nat
        /\ Len(w) \in Nat
    BY RunLengthIs
  <1>3. x \in Nat /\ e \in Nat /\ Skip(c) \in Nat
    BY <1>1, <1>2, Starts, Tokens, Sizes DEF Skip
  <1>4. /\ mel \in Seq(Int) /\ Len(mel) = n
        /\ \A k \in 1 .. n : mel[k] = c * MelStride + k
    <2>1. \A i \in 1 .. n : w[i] \in Int
      BY <1>1, <1>2, ElementOfSeq
    <2>2. /\ mel \in Seq(Int) /\ Len(mel) = IF 1 <= n THEN n - 1 + 1 ELSE 0
          /\ \A i \in 1 .. n - 1 + 1 : mel[i] = w[1 + i - 1]
      <3> HIDE DEF w, n
      <3> QED  BY <1>2, <2>1, SubSeqProperties
    <2>3. \A k \in 1 .. Len(w) : w[k] = c * MelStride + k
      BY DEF StreamInv, WindowAt
    <2> HIDE DEF mel, w, n
    <2>4. Len(mel) = n /\ n - 1 + 1 = n
      BY <1>2, <2>2
    <2>5. ASSUME NEW k \in 1 .. n
          PROVE  mel[k] = c * MelStride + k
      <3>1. 1 + k - 1 = k /\ k \in 1 .. Len(w)
        BY <1>2
      <3>2. mel[k] = w[k]
        BY <2>2, <2>4, <3>1
      <3> QED  BY <2>3, <3>1, <3>2
    <2> QED  BY <2>2, <2>4, <2>5
  <1>5. /\ chunk \in Seq(EncFrames) /\ Len(chunk) = e
        /\ \A i \in 1 .. e : chunk[i] = ChunkFrame(c, n, i)
    <2> HIDE DEF mel, c, n
    <2> QED  BY <1>1, <1>4, ChunkOutputIs
  <1> DEFINE held == es.emitted - x
             start == IF held < Skip(c) THEN Skip(c) ELSE held
             longer == [run EXCEPT !.enc_accum = @ \o SubSeq(chunk, start + 1, Len(chunk)),
                                   !.emitted = x + Len(chunk)]
  <1>6. held \in Nat /\ start = held
    <2>1. es.emitted - x \in Nat /\ ~(es.emitted - x < Skip(c))
      <3> DEFINE m == es.emitted
                 s == Skip(c)
      <3> HIDE DEF x, m, s
      <3>1. m - x \in Nat /\ ~(m - x < s)
        BY <1>1, <1>3 DEF m, s
      <3> QED  BY <3>1 DEF m, s
    <2> QED  BY <2>1
  <1>7. AfterRun = IF Len(chunk) > start THEN longer ELSE run
    <2>1. ChunkStart - es.window_base = 0
      BY <1>1, <1>2 DEF EncoderStates
    <2>2. 0 + 1 = 1 /\ 0 + RunLength = RunLength
      BY <1>2
    <2> QED  BY <2>1, <2>2 DEF AfterRun
  <1>8. ChunkStart + n \in Nat /\ es.encoder_input_frames + n \in Nat
    BY <1>1, <1>2
  <1>9. /\ run \in EncoderStates
        /\ run.mel_window = w /\ run.window_base = es.window_base
        /\ run.stable_mel = es.stable_mel /\ run.cur_chunk = c /\ run.finalized = es.finalized
        /\ run.encoder_input_frames = es.encoder_input_frames + n
        /\ run.last_run_mel_end = ChunkStart + n /\ run.emitted = es.emitted /\ run.enc_accum = old
    <2> HIDE DEF n
    <2> QED  BY <1>1, <1>8 DEF EncoderStates
  <1> HIDE DEF run, chunk, mel, e, x
  <1>10. CASE ~(e > held)
    <2>1. AfterRun = run
      BY <1>5, <1>6, <1>7, <1>10
    <2>2. ~(x + e > es.emitted)
      BY <1>1, <1>3, <1>10
    <2> QED  BY <1>1, <1>9, <2>1, <2>2 DEF x, e
  <1>11. CASE e > held
    <2> DEFINE new == SubSeq(chunk, held + 1, Len(chunk))
               all == old \o new
    <2>1. AfterRun = longer /\ x + e > es.emitted
      BY <1>1, <1>3, <1>5, <1>6, <1>7, <1>11
    <2>2. longer = [run EXCEPT !.enc_accum = old \o new, !.emitted = x + e]
      BY <1>5, <1>6, <1>9
    <2>3. /\ new \in Seq(EncFrames) /\ Len(new) = e - held
          /\ \A i \in 1 .. e - held : new[i] = chunk[held + i]
      <3>1. held \in 0 .. Len(chunk)
        BY <1>3, <1>5, <1>6, <1>11
      <3> HIDE DEF held
      <3> QED  BY <1>5, <3>1, Suffix
    <2> HIDE DEF new
    <2>4. /\ all \in Seq(EncFrames) /\ Len(all) = Len(old) + Len(new)
          /\ \A g \in 1 .. Len(old) + Len(new) : all[g] = IF g <= Len(old) THEN old[g] ELSE new[g - Len(old)]
      BY <1>1, <2>3, ConcatProperties
    <2> HIDE DEF all
    <2>5. Len(old) + Len(new) = x + e /\ x + e \in Nat
      BY <1>1, <1>3, <2>3
    <2>6. ASSUME NEW g \in 1 .. x + e
          PROVE  all[g] = IF g <= es.emitted THEN old[g] ELSE ChunkFrame(c, n, g - x)
      <3>1. CASE g <= es.emitted
        BY <1>1, <2>4, <2>5, <3>1
      <3>2. CASE ~(g <= es.emitted)
        <4>1. /\ g - es.emitted \in 1 .. e - held /\ held + (g - es.emitted) = g - x
              /\ g - x \in 1 .. e
          BY <1>1, <1>3, <1>6, <3>2
        <4>2. all[g] = new[g - es.emitted]
          BY <1>1, <2>4, <2>5, <3>2
        <4> HIDE DEF held
        <4>3. new[g - es.emitted] = chunk[g - x]
          BY <2>3, <4>1
        <4> HIDE DEF n, c
        <4> QED  BY <1>5, <3>2, <4>1, <4>2, <4>3
      <3> QED  BY <3>1, <3>2
    <2>7. /\ longer \in EncoderStates
          /\ longer.mel_window = w /\ longer.window_base = es.window_base
          /\ longer.stable_mel = es.stable_mel /\ longer.cur_chunk = c /\ longer.finalized = es.finalized
          /\ longer.encoder_input_frames = es.encoder_input_frames + n
          /\ longer.last_run_mel_end = ChunkStart + n /\ longer.emitted = x + e /\ longer.enc_accum = all
      <3> DEFINE l == longer
      <3>1. l = [run EXCEPT !.enc_accum = all, !.emitted = x + e]
        BY <2>2 DEF all
      <3> HIDE DEF l
      <3> HIDE DEF n
      <3>2. l.mel_window = run.mel_window /\ l.window_base = run.window_base
            /\ l.stable_mel = run.stable_mel /\ l.cur_chunk = run.cur_chunk
            /\ l.finalized = run.finalized /\ l.encoder_input_frames = run.encoder_input_frames
            /\ l.last_run_mel_end = run.last_run_mel_end /\ l.emitted = x + e /\ l.enc_accum = all
            /\ l \in EncoderStates
        BY <1>9, <2>4, <2>5, <3>1 DEF EncoderStates
      <3> QED  BY <1>9, <3>2 DEF l
    <2> HIDE DEF longer
    <2> QED  BY <2>1, <2>4, <2>5, <2>6, <2>7 DEF x, e
  <1> QED  BY <1>10, <1>11

\* The whole groups of what is available.
LEMMA PrefixIs ==
    ASSUME Available \in Nat
    PROVE  /\ Prefix \in Nat /\ Prefix <= Available /\ Available < Prefix + Whole
           /\ Prefix % Whole = 0
  <1> DEFINE a == Available
             q == a \div Whole
             p == q * Whole
  <1>1. Whole \in Nat \ {0} /\ a \in Nat
    BY Sizes
  <1> HIDE DEF a
  <1>2. a = p + (a % Whole) /\ q \in Nat /\ a % Whole \in 0 .. Whole - 1
    BY <1>1, Division
  <1>3. p \in Nat /\ p % Whole = 0
    <2> HIDE DEF q
    <2> QED  BY <1>1, <1>2, MultipleRemainder
  <1>4. Prefix = p
    BY DEF Prefix, a
  <1> HIDE DEF p, q
  <1> QED  BY <1>1, <1>2, <1>3, <1>4 DEF a

\* The interval is at least half of what was covered, and never empty.
LEMMA IntervalIs ==
    ASSUME NEW e \in EncoderStates
    PROVE  /\ Interval(e) \in Nat \ {0}
           /\ \A h \in Nat : e.last_run_mel_end = 2 * h => h <= Interval(e)
  <1>1. EmitMel \in Nat \ {0} /\ e.last_run_mel_end \in Nat
    BY Sizes DEF EncoderStates
  <1>2. \A h \in Nat : e.last_run_mel_end = 2 * h => e.last_run_mel_end \div 2 = h
    BY <1>1
  <1> QED  BY <1>1, <1>2 DEF Interval

\* A push moves the window's end.
LEMMA TakeDoes ==
    ASSUME StreamInv, NEW n \in Nat, NEW drive, TakeMel(enc_pushed_frames, n, drive)
    PROVE  /\ driving = "no" /\ driving' = drive /\ ~es.finalized
           /\ es' \in EncoderStates /\ WindowAt(es') /\ es'.stable_mel = es.stable_mel + n
           /\ es'.cur_chunk = es.cur_chunk /\ es'.emitted = es.emitted
           /\ es'.last_run_mel_end = es.last_run_mel_end /\ es'.finalized = es.finalized
           /\ es'.enc_accum = es.enc_accum
           /\ es'.encoder_input_frames = es.encoder_input_frames
  <1> DEFINE w == es.mel_window
             b == es.stable_mel
             new == [k \in 1 .. n |-> b + k]
  <1>1. /\ driving = "no" /\ driving' = drive /\ ~es.finalized /\ enc_pushed_frames = b
        /\ es' = [es EXCEPT !.mel_window = @ \o [k \in 1 .. n |-> enc_pushed_frames + k],
                            !.stable_mel = @ + n]
    BY DEF TakeMel
  <1>2. /\ es \in EncoderStates /\ w \in Seq(Int) /\ b \in Nat /\ es.window_base \in Nat
        /\ WindowAt(es)
    BY <1>1 DEF StreamInv, EncoderStates
  <1>3. new \in Seq(Int) /\ Len(new) = n /\ \A k \in 1 .. n : new[k] = b + k
    BY <1>2, SamplesProperty
  <1>4. es' = [es EXCEPT !.mel_window = w \o new, !.stable_mel = b + n]
    BY <1>1, <1>2 DEF EncoderStates
  <1> HIDE DEF new
  <1> DEFINE all == w \o new
  <1>5. /\ all \in Seq(Int) /\ Len(all) = Len(w) + n /\ Len(w) \in Nat
        /\ \A k \in 1 .. Len(w) + n : all[k] = IF k <= Len(w) THEN w[k] ELSE new[k - Len(w)]
    BY <1>2, <1>3, ConcatProperties, LenProperties
  <1> HIDE DEF all
  <1>6. /\ es' \in EncoderStates /\ es'.mel_window = all /\ es'.stable_mel = b + n
        /\ es'.window_base = es.window_base
        /\ es'.cur_chunk = es.cur_chunk /\ es'.emitted = es.emitted
        /\ es'.last_run_mel_end = es.last_run_mel_end /\ es'.finalized = es.finalized
        /\ es'.enc_accum = es.enc_accum
        /\ es'.encoder_input_frames = es.encoder_input_frames
    <2>1. b + n \in Nat
      BY <1>2
    <2>2. es' = [es EXCEPT !.mel_window = all, !.stable_mel = b + n]
      BY <1>4 DEF all
    <2> QED  BY <1>2, <1>5, <2>1, <2>2 DEF EncoderStates
  <1>7. WindowAt(es')
    <2>1. /\ es.window_base = es.cur_chunk * MelStride /\ es.window_base + Len(w) = b
          /\ \A k \in 1 .. Len(w) : w[k] = es.window_base + k
      BY <1>2 DEF WindowAt
    <2> DEFINE a == es.window_base
               l == Len(w)
    <2>2. a + (l + n) = b + n /\ a + l = b /\ a \in Nat /\ l \in Nat
      BY <1>2, <1>5, <2>1
    <2>3. ASSUME NEW k \in 1 .. Len(all)
          PROVE  all[k] = a + k
      <3>1. k \in 1 .. l + n /\ all[k] = IF k <= l THEN w[k] ELSE new[k - l]
        BY <1>5
      <3>2. CASE k <= l
        <4>1. k \in 1 .. Len(w)
          BY <2>2, <3>1, <3>2
        <4> QED  BY <2>1, <3>1, <3>2, <4>1
      <3>3. CASE ~(k <= l)
        <4>1. k - l \in 1 .. n /\ b + (k - l) = a + k
          <5> HIDE DEF a, b, l
          <5> QED  BY <2>2, <3>1, <3>3
        <4>2. all[k] = new[k - l]
          BY <3>1, <3>3
        <4>3. new[k - l] = b + (k - l)
          BY <1>3, <4>1
        <4> HIDE DEF a, b, l
        <4> QED  BY <4>1, <4>2, <4>3
      <3> QED  BY <3>2, <3>3
    <2>4. /\ es'.window_base = es'.cur_chunk * MelStride
          /\ es'.window_base + Len(es'.mel_window) = es'.stable_mel
      BY <1>5, <1>6, <2>1, <2>2
    <2> QED  BY <1>6, <2>3, <2>4 DEF WindowAt
  <1> QED  BY <1>1, <1>6, <1>7

\* The next chunk's window is what is left behind its start.
LEMMA AdvancedDoes ==
    ASSUME NEW r \in EncoderStates, WindowAt(r),
           r.stable_mel - r.cur_chunk * MelStride >= ChunkMel
    PROVE  LET a == Advanced(r)
           IN  /\ a \in EncoderStates /\ WindowAt(a) /\ a.cur_chunk = r.cur_chunk + 1
               /\ a.stable_mel - a.cur_chunk * MelStride >= MelStride
               /\ a.stable_mel = r.stable_mel /\ a.emitted = r.emitted
               /\ a.finalized = r.finalized /\ a.enc_accum = r.enc_accum
               /\ a.encoder_input_frames = r.encoder_input_frames
  <1> DEFINE c == r.cur_chunk
             w == r.mel_window
             base == (c + 1) * MelStride
             rest == SubSeq(w, MelStride + 1, Len(w))
             a == Advanced(r)
  <1>1. /\ c \in Nat /\ w \in Seq(Int) /\ r.stable_mel \in Nat /\ r.window_base \in Nat
        /\ Len(w) \in Nat
    BY LenProperties DEF EncoderStates
  <1>2. /\ r.window_base = c * MelStride /\ r.window_base + Len(w) = r.stable_mel
        /\ \A k \in 1 .. Len(w) : w[k] = r.window_base + k
    BY DEF WindowAt
  <1>3. /\ base = c * MelStride + MelStride /\ MelStride \in Nat /\ ChunkMel = MelStride + MelStride
        /\ base \in Nat
    <2>1. base = c * MelStride + 2 * Overlap /\ c * MelStride = 2 * (c * Overlap) /\ c * Overlap \in Nat
      BY <1>1, Starts
    <2> QED  BY <2>1, Sizes
  <1>4. base - r.window_base = MelStride /\ MelStride \in 0 .. Len(w)
        /\ base + (Len(w) - MelStride) = r.stable_mel
        /\ r.stable_mel - base >= MelStride
    <2> DEFINE l == Len(w)
               s == r.window_base
               m == r.stable_mel
    <2>1. base = s + MelStride /\ s + l = m /\ m - s >= ChunkMel
      BY <1>2, <1>3
    <2>2. s \in Nat /\ l \in Nat /\ m \in Nat /\ base \in Nat
      BY <1>1, <1>3
    <2>3. MelStride \in Nat /\ ChunkMel = MelStride + MelStride
      BY <1>3
    <2> HIDE DEF s, l, m, base
    <2>4. base - s = MelStride /\ MelStride \in 0 .. l /\ base + (l - MelStride) = m
          /\ m - base >= MelStride
      BY <2>1, <2>2, <2>3
    <2> QED  BY <2>4 DEF s, l, m
  <1>5. /\ rest \in Seq(Int) /\ Len(rest) = Len(w) - MelStride
        /\ \A k \in 1 .. Len(w) - MelStride : rest[k] = w[MelStride + k]
    <2> HIDE DEF w
    <2> QED  BY <1>1, <1>4, Suffix
  <1>6. a = [r EXCEPT !.cur_chunk = c + 1, !.mel_window = rest, !.window_base = base]
    <2>1. a = [r EXCEPT !.cur_chunk = c + 1,
                        !.mel_window = SubSeq(w, base - r.window_base + 1, Len(w)),
                        !.window_base = base]
      BY DEF Advanced, EncoderStates
    <2> HIDE DEF a, base
    <2> QED  BY <1>4, <2>1
  <1> HIDE DEF rest, a
  <1>7. /\ a \in EncoderStates /\ a.cur_chunk = c + 1 /\ a.mel_window = rest /\ a.window_base = base
        /\ a.stable_mel = r.stable_mel /\ a.emitted = r.emitted
        /\ a.finalized = r.finalized /\ a.enc_accum = r.enc_accum
        /\ a.encoder_input_frames = r.encoder_input_frames
    <2> DEFINE next == c + 1
    <2>1. next \in Nat
      BY <1>1
    <2>2. a = [r EXCEPT !.cur_chunk = next, !.mel_window = rest, !.window_base = base]
      BY <1>6
    <2> HIDE DEF base, next, c, w
    <2>3. /\ a \in EncoderStates /\ a.cur_chunk = next /\ a.mel_window = rest
          /\ a.window_base = base
          /\ a.stable_mel = r.stable_mel /\ a.emitted = r.emitted
          /\ a.finalized = r.finalized /\ a.enc_accum = r.enc_accum
          /\ a.encoder_input_frames = r.encoder_input_frames
      BY <1>3, <1>5, <2>1, <2>2 DEF EncoderStates
    <2> QED  BY <2>3 DEF next
  <1>8. WindowAt(a)
    <2>1. ASSUME NEW k \in 1 .. Len(rest)
          PROVE  rest[k] = base + k
      <3>1. k \in 1 .. Len(w) - MelStride /\ rest[k] = w[MelStride + k]
        BY <1>5
      <3>2. MelStride + k \in 1 .. Len(w)
        <4> DEFINE n == Len(w)
        <4>1. n \in Nat /\ MelStride \in 0 .. n /\ k \in 1 .. n - MelStride
          BY <1>1, <1>4, <3>1
        <4> HIDE DEF n
        <4>2. MelStride + k \in 1 .. n
          BY <4>1
        <4> QED  BY <4>2 DEF n
      <3>3. w[MelStride + k] = r.window_base + (MelStride + k)
        BY <1>2, <3>2
      <3> DEFINE s == r.window_base
      <3>4. s \in Nat /\ base \in Nat /\ MelStride \in Nat /\ base - s = MelStride
        BY <1>1, <1>3, <1>4
      <3> HIDE DEF base, s
      <3>5. s + (MelStride + k) = base + k
        BY <3>4
      <3> QED  BY <3>1, <3>3, <3>5 DEF s
    <2> QED  BY <1>4, <1>5, <1>7, <2>1 DEF WindowAt
  <1>9. a.stable_mel - a.cur_chunk * MelStride >= MelStride
    BY <1>4, <1>7
  <1> QED  BY <1>7, <1>8, <1>9 DEF a

\* The finished encoder holds no Mel.
LEMMA FinalizedDoes ==
    ASSUME NEW r \in EncoderStates
    PROVE  LET a == Finalized(r)
           IN  /\ a \in EncoderStates /\ a.finalized /\ a.window_base = r.stable_mel
               /\ a.stable_mel = r.stable_mel /\ a.cur_chunk = r.cur_chunk
               /\ a.emitted = r.emitted /\ a.enc_accum = r.enc_accum
  <1>1. <<>> \in Seq(Int) /\ r.stable_mel \in Nat
    BY DEF EncoderStates
  <1> QED  BY <1>1 DEF Finalized, EncoderStates

-----------------------------------------------------------------------------
(* The steps of a drive.                                                   *)

\* After a pass over a complete chunk.
LEMMA CompleteRunStep ==
    ASSUME StreamInv, driving # "no", Due, Complete, es' = Advanced(AfterRun),
           UNCHANGED driving, UNCHANGED vars
    PROVE  StreamInv'
  <1> DEFINE r == AfterRun
             a == Advanced(r)
             c == es.cur_chunk
             x == c * Overlap
  <1>1. ~es.finalized /\ es \in EncoderStates /\ c \in Nat /\ es.emitted \in Nat
    BY DEF StreamInv, EncoderStates
  <1>2. /\ WindowAt(es) /\ EmittedFrom(es) /\ (Early => Worked(es))
    BY <1>1 DEF StreamInv
  <1>3. /\ RunLength = ChunkMel /\ ChunkStart + Available = es.stable_mel /\ Available \in Nat
        /\ ChunkStart \in Nat /\ RunLength <= Available
    BY <1>1, RunLengthIs
  <1>4. /\ r \in EncoderStates /\ r.mel_window = es.mel_window /\ r.window_base = es.window_base
        /\ r.stable_mel = es.stable_mel /\ r.cur_chunk = c /\ r.finalized = es.finalized
        /\ r.emitted = (IF x + 2 * Overlap > es.emitted THEN x + 2 * Overlap ELSE es.emitted)
        /\ r.emitted = Len(r.enc_accum)
        /\ r.encoder_input_frames = es.encoder_input_frames + ChunkMel
    <2>1. EncTokens(RunLength) = 2 * Overlap
      BY <1>3, ChunkTokens
    <2> HIDE DEF r
    <2> QED  BY <1>1, <1>3, <2>1, RunDoes DEF r
  <1> HIDE DEF r
  <1>5. WindowAt(r) /\ r.stable_mel - r.cur_chunk * MelStride >= ChunkMel
    <2>1. WindowAt(r)
      BY <1>2, <1>4 DEF WindowAt
    <2>2. es.stable_mel - ChunkStart >= ChunkMel
      BY DEF Complete, Available
    <2> QED  BY <1>4, <2>1, <2>2 DEF ChunkStart
  <1>6. /\ a \in EncoderStates /\ WindowAt(a) /\ a.cur_chunk = c + 1
        /\ a.stable_mel - a.cur_chunk * MelStride >= MelStride
        /\ a.stable_mel = es.stable_mel /\ a.emitted = r.emitted
        /\ a.finalized = es.finalized /\ a.enc_accum = r.enc_accum
        /\ a.encoder_input_frames = es.encoder_input_frames + ChunkMel
    BY <1>4, <1>5, AdvancedDoes
  <1> HIDE DEF a
  <1>7. /\ x \in Nat /\ (c + 1) * Overlap = x + Overlap /\ Overlap \in Nat \ {0}
        /\ c + 1 # 0 /\ Skip(c + 1) = Overlap /\ 0 * Overlap = 0
    BY <1>1, Starts, Sizes DEF Skip
  <1>8. EmittedFrom(a)
    <2>1. r.emitted >= (x + Overlap) + Overlap
      <3> DEFINE em == r.emitted
      <3>1. em = IF x + 2 * Overlap > es.emitted THEN x + 2 * Overlap ELSE es.emitted
        BY <1>4
      <3> HIDE DEF em, x
      <3>2. em >= (x + Overlap) + Overlap
        BY <1>1, <1>7, <3>1
      <3> QED  BY <3>2 DEF em
    <2> QED  BY <1>4, <1>6, <1>7, <2>1 DEF EmittedFrom
  <1>9. ASSUME Early
        PROVE  Worked(a)
    <2>1. es.emitted < x + 2 * Overlap
      <3>1. CASE c = 0
        <4>1. 2 * es.emitted = es.last_run_mel_end /\ es.last_run_mel_end < ChunkMel
          BY <1>2, <1>9, <3>1 DEF Worked
        <4>2. 2 * es.emitted < 4 * Overlap
          BY <4>1, Sizes
        <4>3. x = 0
          BY <1>7, <3>1
        <4> HIDE DEF x
        <4> QED  BY <1>1, <1>7, <4>2, <4>3
      <3>2. CASE c # 0
        <4>1. es.emitted = x + Overlap
          BY <1>2, <1>9, <3>2 DEF Worked
        <4> HIDE DEF x
        <4> QED  BY <1>7, <4>1
      <3> QED  BY <3>1, <3>2
    <2>2. a.emitted = x + 2 * Overlap
      BY <1>4, <1>6, <2>1
    <2>3. a.emitted = (c + 1) * Overlap + Overlap
      <3> HIDE DEF x
      <3> QED  BY <1>7, <2>2
    <2>4. a.encoder_input_frames <= ((c + 1) + 3) * ChunkMel
      <3> DEFINE i == es.encoder_input_frames
                 l == es.last_run_mel_end
                 y == (c + 3) * ChunkMel
      <3>1. i \in Nat /\ l \in Nat /\ ChunkMel \in Nat \ {0}
        BY <1>1, Sizes DEF EncoderStates
      <3>2. ((c + 1) + 3) * ChunkMel = y + ChunkMel /\ y \in Nat
        <4>1. (c + 1) + 3 = (c + 3) + 1 /\ c + 3 \in Nat /\ 1 * ChunkMel = ChunkMel
          BY <1>1, <3>1
        <4> DEFINE k == c + 3
        <4>2. k \in Nat
          BY <4>1
        <4> HIDE DEF k
        <4>3. (k + 1) * ChunkMel = k * ChunkMel + 1 * ChunkMel /\ k * ChunkMel \in Nat
          BY <3>1, <4>2, Multiples
        <4> QED  BY <4>1, <4>3 DEF k
      <3>3. i <= y
        <4>1. CASE c = 0
          <5>1. i <= 3 * l /\ l < ChunkMel
            BY <1>2, <1>9, <4>1 DEF Worked
          <5>2. c + 3 = 3
            BY <4>1
          <5>3. y = 3 * ChunkMel
            BY <5>2
          <5> HIDE DEF i, l, y
          <5> QED  BY <3>1, <5>1, <5>3
        <4>2. CASE c # 0
          BY <1>2, <1>9, <4>2 DEF Worked
        <4> QED  BY <4>1, <4>2
      <3> HIDE DEF i, y
      <3>4. i + ChunkMel <= y + ChunkMel
        BY <3>1, <3>2, <3>3
      <3> QED  BY <1>6, <3>2, <3>4 DEF i
    <2> QED  BY <1>6, <1>7, <2>3, <2>4 DEF Worked
  <1>10. es' = a /\ driving' = driving /\ status' = status /\ enc_pushed_frames' = enc_pushed_frames
    BY DEF a, r, vars, callVars
  <1>11. /\ a \in EncoderStates /\ a.stable_mel = enc_pushed_frames /\ ~a.finalized
         /\ driving \in {"no", "push", "last", "finish"} /\ (AtFinish => status = "completed")
    BY <1>1, <1>6 DEF StreamInv
  <1>12. Early' <=> Early
    BY <1>1, <1>10, <1>11 DEF Early
  <1> QED  BY <1>6, <1>8, <1>9, <1>10, <1>11, <1>12 DEF StreamInv, AtFinish

\* After a pass over an incomplete chunk, with which the drive ends.
LEMMA PartialRunStep ==
    ASSUME StreamInv, driving # "no", Due, ~Complete, EndDrive(AfterRun), UNCHANGED vars
    PROVE  StreamInv'
  <1> DEFINE r == AfterRun
             c == es.cur_chunk
             n == RunLength
             e == EncTokens(n)
  <1>1. ~es.finalized /\ es \in EncoderStates /\ c \in Nat /\ es.emitted \in Nat
    BY DEF StreamInv, EncoderStates
  <1>2. /\ WindowAt(es) /\ EmittedFrom(es) /\ (Early => Worked(es))
        /\ driving \in {"push", "last", "finish"} /\ (AtFinish => status = "completed")
        /\ es.stable_mel = enc_pushed_frames
    BY <1>1 DEF StreamInv
  <1>3. /\ Available \in Nat \ {0} /\ n \in Nat \ {0} /\ n <= Available /\ Available < ChunkMel
        /\ ChunkStart + Available = es.stable_mel /\ ChunkStart \in Nat
        /\ ~AtFinish => c = 0 /\ n = Prefix /\ Prefix - es.last_run_mel_end >= Interval(es)
    BY <1>1, RunLengthIs
  <1>4. /\ r \in EncoderStates /\ r.mel_window = es.mel_window /\ r.window_base = es.window_base
        /\ r.stable_mel = es.stable_mel /\ r.cur_chunk = c /\ r.finalized = es.finalized
        /\ r.encoder_input_frames = es.encoder_input_frames + n
        /\ r.last_run_mel_end = ChunkStart + n
        /\ r.emitted = (IF c * Overlap + e > es.emitted THEN c * Overlap + e ELSE es.emitted)
        /\ r.emitted = Len(r.enc_accum)
    <2> HIDE DEF r
    <2> QED  BY <1>1, RunDoes DEF r
  <1>5. WindowAt(r)
    BY <1>2, <1>4 DEF WindowAt
  <1>6. EmittedFrom(r)
    <2>1. r.emitted >= es.emitted
      <3>1. c * Overlap + e \in Nat
        <4>1. c * Overlap \in Nat
          BY <1>1, Starts
        <4>2. e \in Nat
          <5> HIDE DEF n
          <5> QED  BY <1>3, Tokens
        <4> HIDE DEF e
        <4> QED  BY <4>1, <4>2
      <3> DEFINE y == c * Overlap + e
      <3> HIDE DEF y, r
      <3> QED  BY <1>1, <1>4, <3>1 DEF y
    <2>2. es.emitted >= c * Overlap + Skip(c) /\ c * Overlap + Skip(c) \in Nat
      BY <1>1, <1>2, Starts, Sizes DEF EmittedFrom, Skip
    <2>3. r.emitted >= c * Overlap + Skip(c) /\ r.emitted \in Nat
      <3> DEFINE y == c * Overlap + Skip(c)
                 m == r.emitted
      <3>1. m \in Nat /\ y \in Nat /\ m >= es.emitted /\ es.emitted >= y
        BY <1>4, <2>1, <2>2 DEF EncoderStates
      <3> HIDE DEF y, m
      <3>2. m >= y
        BY <1>1, <3>1
      <3> QED  BY <3>1, <3>2 DEF y, m
    <2> QED  BY <1>2, <1>4, <2>3 DEF EmittedFrom
  <1>7. ASSUME ~AtFinish
        PROVE  (Early => Worked(r)) /\ Settled(r)
    <2>1. /\ c = 0 /\ n = Prefix /\ Prefix - es.last_run_mel_end >= Interval(es)
          /\ n % Whole = 0 /\ Available < n + Whole
      BY <1>3, <1>7, PrefixIs
    <2>2. 2 * e = n /\ e \in Nat
      BY <1>3, <2>1, WholeGroups, Tokens
    <2>3. /\ ChunkStart = 0 /\ 0 * Overlap = 0 /\ 0 * MelStride = 0
      BY <2>1, Sizes DEF ChunkStart
    <2> DEFINE m == es.stable_mel
               l == es.last_run_mel_end
               i == es.encoder_input_frames
    <2>4. m \in Nat /\ l \in Nat /\ i \in Nat /\ m = Available
      BY <1>1, <1>3, <2>3 DEF EncoderStates
    <2>5. ASSUME Early
          PROVE  Worked(r)
      <3>1. 2 * es.emitted = l /\ i <= 3 * l
        BY <1>2, <2>1, <2>5 DEF Worked
      <3> DEFINE v == Interval(es)
      <3>2. v \in Nat \ {0} /\ es.emitted <= v /\ n - l >= v
        BY <1>1, <2>1, <3>1, IntervalIs
      <3> HIDE DEF n, e, m, l, i, v, r
      <3>3. e > es.emitted /\ i + n <= 3 * n /\ n <= m
        BY <1>1, <1>3, <2>2, <2>4, <3>1, <3>2
      <3>4. n < ChunkMel
        BY <1>3, Sizes
      <3>5. c * Overlap + e = e /\ ChunkStart + n = n
        BY <1>3, <2>1, <2>2, <2>3
      <3>6. r.emitted = e /\ r.last_run_mel_end = n /\ r.encoder_input_frames = i + n
            /\ r.stable_mel = m /\ r.cur_chunk = 0
        BY <1>4, <2>1, <3>3, <3>5 DEF i, m
      <3> QED  BY <2>1, <2>2, <3>3, <3>4, <3>6 DEF Worked
    <2>6. Settled(r)
      <3> DEFINE v == Interval(r)
      <3>1. v \in Nat \ {0}
        BY <1>4, IntervalIs
      <3>2. r.last_run_mel_end = n /\ r.stable_mel = m /\ r.cur_chunk = 0
        BY <1>3, <1>4, <2>1, <2>3
      <3> HIDE DEF v, n, m
      <3>3. m - n < v + Whole /\ m - 0 < ChunkMel
        BY <1>3, <2>1, <2>4, <3>1, Sizes
      <3> QED  BY <2>3, <3>2, <3>3 DEF Settled, v
    <2> QED  BY <2>5, <2>6
  <1> HIDE DEF r
  <1>8. /\ driving' = (IF driving = "last" THEN "finish" ELSE "no")
        /\ es' = (IF driving = "finish" THEN Finalized(r) ELSE r)
        /\ status' = status /\ enc_pushed_frames' = enc_pushed_frames
    BY DEF EndDrive, r, vars, callVars
  <1>9. CASE driving = "push"
    <2>1. es' = r /\ driving' = "no" /\ ~AtFinish /\ ~AtFinish'
      BY <1>8, <1>9 DEF AtFinish
    <2>2. Early' => Early
      BY <1>1, <1>4, <1>8, <1>9, <2>1 DEF Early
    <2> QED  BY <1>1, <1>2, <1>4, <1>5, <1>6, <1>7, <1>8, <2>1, <2>2 DEF StreamInv
  <1>10. CASE driving = "last"
    <2>1. es' = r /\ driving' = "finish" /\ AtFinish /\ ~Early'
      BY <1>8, <1>10 DEF AtFinish, Early
    <2> QED  BY <1>1, <1>2, <1>4, <1>5, <1>6, <1>8, <2>1 DEF StreamInv
  <1>11. CASE driving = "finish"
    <2> DEFINE f == Finalized(r)
    <2>1. es' = f /\ driving' = "no" /\ AtFinish /\ ~AtFinish' /\ status = "completed"
      BY <1>2, <1>8, <1>11 DEF AtFinish
    <2>2. f \in EncoderStates /\ f.finalized /\ f.window_base = f.stable_mel
          /\ f.stable_mel = es.stable_mel /\ f.cur_chunk = c /\ f.emitted = r.emitted
          /\ f.enc_accum = r.enc_accum
      BY <1>4, FinalizedDoes
    <2> HIDE DEF f
    <2>3. EmittedFrom(f)
      BY <1>4, <1>6, <2>2 DEF EmittedFrom
    <2>4. ~Early'
      BY <2>1, <2>2 DEF Early
    <2> QED  BY <1>2, <1>8, <2>1, <2>2, <2>3, <2>4 DEF StreamInv
  <1> QED  BY <1>2, <1>9, <1>10, <1>11

\* When nothing is due: no chunk is complete, and chunk 0 is run up to what it must.
LEMMA NotDue ==
    ASSUME StreamInv, ~es.finalized, ~Due, Early
    PROVE  /\ ~AtFinish => Settled(es)
           /\ Available \in Nat /\ Available < ChunkMel
           /\ AtFinish => Available = 0 \/ EncTokens(Available) <= Skip(es.cur_chunk)
  <1> DEFINE c == es.cur_chunk
             a == Available
             l == es.last_run_mel_end
  <1>1. /\ es \in EncoderStates /\ c \in Nat /\ es.stable_mel \in Nat /\ l \in Nat
        /\ es.mel_window \in Seq(Int) /\ Len(es.mel_window) \in Nat
    BY LenProperties DEF StreamInv, EncoderStates
  <1>2. WindowAt(es) /\ Worked(es)
    BY DEF StreamInv
  <1>3. a \in Nat /\ ChunkStart \in Nat /\ ChunkStart + a = es.stable_mel
    <2>1. ChunkStart + Len(es.mel_window) = es.stable_mel
      BY <1>2 DEF WindowAt, ChunkStart
    <2>0. ChunkStart \in Nat
      <3>1. c * MelStride = 2 * (c * Overlap) /\ c * Overlap \in Nat
        BY <1>1, Starts
      <3> HIDE DEF c
      <3>2. c * MelStride \in Nat
        BY <3>1
      <3> QED  BY <3>2 DEF ChunkStart, c
    <2>2. a = es.stable_mel - ChunkStart
      BY DEF Available
    <2> DEFINE m == es.stable_mel
               k == Len(es.mel_window)
               s == ChunkStart
    <2>3. s + k = m /\ s \in Nat /\ a = m - s /\ m \in Nat /\ k \in Nat
      BY <1>1, <2>0, <2>1, <2>2
    <2> HIDE DEF a, m, k, s
    <2>4. a \in Nat /\ s + a = m
      BY <2>3
    <2> QED  BY <2>3, <2>4 DEF m, s
  <1>4. Overlap \in Nat \ {0} /\ ChunkMel \in Nat \ {0} /\ Whole \in Nat \ {0} /\ Skip(c) \in {0, Overlap}
    BY Sizes DEF Skip
  <1>5. a < ChunkMel
    <2> SUFFICES ASSUME ~(a < ChunkMel)
                 PROVE  FALSE
      OBVIOUS
    <2>1. Complete /\ a > 0
      BY <1>3, <1>4 DEF Complete
    <2>2. EncTokens(RunLength) > Skip(c)
      BY <1>4, <2>1, ChunkTokens DEF RunLength
    <2> QED  BY <2>1, <2>2 DEF Due
  <1>6. ~Complete
    BY <1>3, <1>4, <1>5 DEF Complete
  <1>7. ASSUME AtFinish
        PROVE  a = 0 \/ EncTokens(a) <= Skip(c)
    <2>1. EncTokens(a) \in Nat /\ RunLength = a /\ Skip(c) \in Nat
      <3>1. EncTokens(a) \in Nat
        <4> HIDE DEF a
        <4> QED  BY <1>3, Tokens
      <3>2. RunLength = a
        BY <1>6, <1>7 DEF RunLength
      <3>3. Skip(c) \in Nat
        BY <1>4
      <3> QED  BY <3>1, <3>2, <3>3
    <2>2. ~(a > 0) \/ ~(EncTokens(RunLength) > Skip(c))
      BY <1>7 DEF Due
    <2> HIDE DEF a
    <2> QED  BY <1>3, <2>1, <2>2
  <1>8. ASSUME ~AtFinish
        PROVE  Settled(es)
    <2>1. es.stable_mel - c * MelStride < ChunkMel
      BY <1>5 DEF Available, ChunkStart
    <2>2. ASSUME c = 0
          PROVE  es.stable_mel - l < Interval(es) + Whole
      <3> DEFINE v == Interval(es)
                 p == Prefix
      <3>1. v \in Nat \ {0} /\ v = PrefixInterval
        BY <1>1, IntervalIs DEF PrefixInterval, Interval
      <3>2. p \in Nat /\ a < p + Whole /\ p % Whole = 0
        BY <1>3, PrefixIs
      <3>3. ASSUME p > 0, p - l >= v
            PROVE  FALSE
        <4>1. a > 0
          <5> HIDE DEF a, p
          <5>1. p <= a
            BY <1>3, PrefixIs DEF a, p
          <5> QED  BY <1>3, <3>2, <3>3, <5>1
        <4>2. RunLength = p
          BY <1>6, <1>8 DEF RunLength
        <4>3. 2 * EncTokens(p) = p /\ EncTokens(p) \in Nat
          BY <3>2, WholeGroups, Tokens
        <4>4. EncTokens(RunLength) > Skip(c)
          <5> DEFINE e == EncTokens(p)
          <5> HIDE DEF e, p
          <5>1. e > 0 /\ Skip(c) = 0
            BY <2>2, <3>2, <3>3, <4>3 DEF e, Skip
          <5> QED  BY <4>2, <5>1 DEF e
        <4> QED  BY <2>2, <3>1, <3>3, <4>1, <4>4 DEF Due
      <3>4. es.stable_mel = a
        BY <1>1, <1>3, <2>2, Sizes DEF ChunkStart
      <3> HIDE DEF v, p, a, l
      <3>5. CASE p > 0
        <4>1. ~(p - l >= v)
          BY <3>3, <3>5
        <4> QED  BY <1>1, <1>3, <1>4, <3>1, <3>2, <3>4, <4>1 DEF v
      <3>6. CASE ~(p > 0)
        <4>1. p = 0
          BY <3>2, <3>6
        <4> QED  BY <1>1, <1>3, <1>4, <3>1, <3>2, <3>4, <4>1 DEF v
      <3> QED  BY <3>5, <3>6
    <2> QED  BY <2>1, <2>2 DEF Settled
  <1> QED  BY <1>3, <1>5, <1>7, <1>8

\* A pass that finds nothing to run ends the drive.
LEMMA DriveEndsStep ==
    ASSUME StreamInv, DriveEnds
    PROVE  StreamInv'
  <1>1. /\ driving # "no" /\ ~Due /\ ~es.finalized /\ es \in EncoderStates
        /\ driving' = (IF driving = "last" THEN "finish" ELSE "no")
        /\ es' = (IF driving = "finish" THEN Finalized(es) ELSE es)
        /\ status' = status /\ enc_pushed_frames' = enc_pushed_frames
    BY DEF DriveEnds, EndDrive, vars, callVars, StreamInv
  <1>2. driving \in {"push", "last", "finish"}
    BY <1>1 DEF StreamInv
  <1>3. CASE driving = "push"
    <2>1. es' = es /\ driving' = "no" /\ ~AtFinish /\ ~AtFinish'
      BY <1>1, <1>3 DEF AtFinish
    <2>2. Early' => Early
      BY <1>1, <1>3, <2>1 DEF Early
    <2>3. status = "open" => Early
      BY <1>1, <1>3 DEF Early
    <2>4. status = "open" => Settled(es)
      BY <1>1, <2>1, <2>3, NotDue
    <2> QED  BY <1>1, <2>1, <2>2, <2>4 DEF StreamInv
  <1>4. CASE driving = "last"
    <2>1. es' = es /\ driving' = "finish" /\ AtFinish /\ ~Early'
      BY <1>1, <1>4 DEF AtFinish, Early
    <2> QED  BY <1>1, <2>1 DEF StreamInv
  <1>5. CASE driving = "finish"
    <2> DEFINE f == Finalized(es)
    <2>1. es' = f /\ driving' = "no" /\ ~AtFinish' /\ status = "completed"
      BY <1>1, <1>5 DEF AtFinish, StreamInv
    <2>2. f \in EncoderStates /\ f.finalized /\ f.window_base = f.stable_mel
          /\ f.stable_mel = es.stable_mel /\ f.cur_chunk = es.cur_chunk /\ f.emitted = es.emitted
          /\ f.enc_accum = es.enc_accum
      BY <1>1, FinalizedDoes
    <2> HIDE DEF f
    <2>3. EmittedFrom(f)
      BY <2>2 DEF StreamInv, EmittedFrom
    <2>4. ~Early'
      BY <2>1, <2>2 DEF Early
    <2>5. es.stable_mel = enc_pushed_frames
      BY DEF StreamInv
    <2> QED  BY <1>1, <2>1, <2>2, <2>3, <2>4, <2>5 DEF StreamInv
  <1> QED  BY <1>2, <1>3, <1>4, <1>5

-----------------------------------------------------------------------------
(* The steps of the stream.                                                *)

\* A call that is not over belongs to an open stream.
BusyInv == pc # "idle" => status = "open"

RefInv == HoldInv /\ BusyInv /\ StreamInv

\* A call that does not reach the encoder.
LEMMA EncoderStays ==
    ASSUME StreamInv, UNCHANGED <<es, driving, enc_pushed_frames>>,
           status' = status \/ (driving = "no" /\ (status = "open" \/ status' = "failed")),
           status' = "open" => status = "open"
    PROVE  StreamInv'
  <1>1. Early' => Early
    BY DEF Early
  <1>2. AtFinish' => AtFinish
    BY DEF AtFinish
  <1> QED  BY <1>1, <1>2 DEF StreamInv, AtFinish

\* A push leaves the encoder where it was, with more Mel ahead.
LEMMA TakeStep ==
    ASSUME StreamInv, NEW n \in Nat, NEW drive \in {"push", "last"},
           TakeMel(enc_pushed_frames, n, drive), enc_pushed_frames' = enc_pushed_frames + n,
           status # "failed", drive = "last" => status' = "completed"
    PROVE  StreamInv'
  <1>1. /\ driving = "no" /\ driving' = drive /\ ~es.finalized
        /\ es' \in EncoderStates /\ WindowAt(es') /\ es'.stable_mel = es.stable_mel + n
        /\ es'.cur_chunk = es.cur_chunk /\ es'.emitted = es.emitted
        /\ es'.last_run_mel_end = es.last_run_mel_end /\ es'.finalized = es.finalized
        /\ es'.enc_accum = es.enc_accum
        /\ es'.encoder_input_frames = es.encoder_input_frames
    BY TakeDoes
  <1> DEFINE m == es.stable_mel
             s == es.cur_chunk * MelStride
             l == es.last_run_mel_end
  <1>2. Early /\ Worked(es) /\ EmittedFrom(es) /\ m = enc_pushed_frames /\ es \in EncoderStates
    BY <1>1 DEF StreamInv, Early
  <1>3. m \in Nat /\ l \in Nat /\ es.cur_chunk \in Nat /\ MelStride \in Nat
    BY <1>2, Sizes DEF EncoderStates
  <1>4. s \in Nat
    <2>1. es.cur_chunk * MelStride = 2 * (es.cur_chunk * Overlap) /\ es.cur_chunk * Overlap \in Nat
      BY <1>3, Starts
    <2> QED  BY <2>1
  <1>5. EmittedFrom(es')
    <2>1. es.cur_chunk > 0 => m - s >= MelStride
      BY <1>2 DEF EmittedFrom
    <2>2. es.cur_chunk > 0 => (m + n) - s >= MelStride
      <3> HIDE DEF m, s
      <3> QED  BY <1>3, <1>4, <2>1
    <2> QED  BY <1>1, <1>2, <2>2 DEF EmittedFrom
  <1>6. Worked(es')
    <2>1. es.cur_chunk = 0 => l <= m
      BY <1>2 DEF Worked
    <2>2. es.cur_chunk = 0 => l <= m + n
      <3> HIDE DEF m, l
      <3> QED  BY <1>3, <2>1
    <2> QED  BY <1>1, <1>2, <2>2 DEF Worked
  <1>7. es'.stable_mel = enc_pushed_frames'
    BY <1>1, <1>2
  <1>8. driving' # "no" /\ driving' \in {"no", "push", "last", "finish"}
        /\ (AtFinish' => status' = "completed") /\ ~es'.finalized
    BY <1>1 DEF AtFinish
  <1> QED  BY <1>1, <1>5, <1>6, <1>7, <1>8 DEF StreamInv

\* What a push hands over.
LEMMA PushSize ==
    ASSUME HoldInv, DrainOne \/ DrainFinal
    PROVE  /\ enc_pushed_frames' - enc_pushed_frames \in Nat
           /\ enc_pushed_frames' = enc_pushed_frames + (enc_pushed_frames' - enc_pushed_frames)
  <1>1. /\ enc_pushed_frames \in Nat /\ next_frame \in Nat /\ enc_pushed_frames <= next_frame
    BY DEF HoldInv, CursorInv, FrontInv
  <1>2. \E n \in Nat : enc_pushed_frames' = enc_pushed_frames + n
    <2>1. CASE DrainOne
      <3> DEFINE n == SmallerOf(MelSlice, next_frame - enc_pushed_frames)
      <3>1. enc_pushed_frames' = enc_pushed_frames + n
        BY <2>1 DEF DrainOne, Push
      <3>2. next_frame - enc_pushed_frames \in Nat /\ MelSlice \in Nat
        BY <1>1, MelAssumption
      <3>3. n \in Nat
        BY <3>2 DEF SmallerOf
      <3> QED  BY <3>1, <3>3
    <2>2. CASE DrainFinal
      <3>1. enc_pushed_frames' = enc_pushed_frames + (next_frame - enc_pushed_frames)
        BY <2>2 DEF DrainFinal, Push
      <3>2. next_frame - enc_pushed_frames \in Nat
        BY <1>1
      <3> QED  BY <3>1, <3>2
    <2> QED  BY <2>1, <2>2
  <1> QED  BY <1>1, <1>2

\* A failed run ends the call and the stream.
LEMMA RunFailsHold ==
    ASSUME HoldInv, RunFails
    PROVE  HoldInv'
  <1>1. /\ UNCHANGED <<feVars, left_pad_injected, samples, sent, enc_pushed_frames>>
        /\ status' = "failed" /\ pc' = "idle" /\ todo' = 0
    BY DEF RunFails
  <1>2. todo' \in 0 .. MaxSamples
    BY <1>1, MelAssumption
  <1>3. FrontInv'
    BY <1>1 DEF HoldInv, FrontInv, feVars
  <1>4. CursorInv'
    BY <1>1, <1>2 DEF HoldInv, CursorInv, feVars
  <1> QED  BY <1>3, <1>4 DEF HoldInv

\* Every step of the composition is one of the frontend, leaves it as it is, or is a
\* failed run.
LEMMA FrontendSteps ==
    ASSUME [RefNext]_refVars
    PROVE  [Next]_vars \/ RunFails
  BY DEF RefNext, StreamStep, PushSlice, PushRest, RunChunk, DriveEnds, ResetStream, Next, refVars

LEMMA BusyStep ==
    ASSUME BusyInv, [RefNext]_refVars
    PROVE  BusyInv'
  <1>1. CASE RunFails
    BY <1>1 DEF RunFails, BusyInv
  <1>2. CASE Next
    <2>1. CASE \E n \in FeedSizes : CallFeed(n)
      BY <2>1 DEF CallFeed, BusyInv
    <2>2. CASE FeedSlice \/ DrainOne \/ DrainEnds \/ DrainFails
      BY <2>2 DEF FeedSlice, DrainOne, DrainEnds, DrainFails, BusyInv
    <2>3. CASE FinishEmpty \/ CallFinish \/ DrainFinal \/ CallReset
      BY <2>3 DEF FinishEmpty, CallFinish, DrainFinal, CallReset, BusyInv
    <2> QED  BY <1>2, <2>1, <2>2, <2>3 DEF Next
  <1>3. CASE UNCHANGED vars
    BY <1>3 DEF vars, callVars, BusyInv
  <1> QED  BY <1>1, <1>2, <1>3, FrontendSteps

\* A stream starts with an encoder that has seen nothing.
LEMMA FreshIs ==
    /\ FreshEncoder \in EncoderStates /\ WindowAt(FreshEncoder) /\ EmittedFrom(FreshEncoder)
    /\ Worked(FreshEncoder) /\ Settled(FreshEncoder)
  <1> DEFINE e == FreshEncoder
  <1>1. /\ e.mel_window = <<>> /\ e.window_base = 0 /\ e.stable_mel = 0 /\ e.cur_chunk = 0
        /\ e.emitted = 0 /\ e.last_run_mel_end = 0 /\ e.finalized = FALSE /\ e.enc_accum = <<>>
        /\ e.encoder_input_frames = 0
    BY DEF FreshEncoder
  <1>2. e \in EncoderStates
    <2>1. <<>> \in Seq(Int) /\ <<>> \in Seq(EncFrames)
      OBVIOUS
    <2> QED  BY <2>1 DEF FreshEncoder, EncoderStates
  <1>3. 0 * MelStride = 0 /\ 0 * Overlap = 0 /\ Len(<<>>) = 0 /\ 0 % Whole = 0 /\ ChunkMel > 0
        /\ Whole \in Nat
    BY Sizes
  <1>4. Interval(e) \in Nat \ {0}
    BY <1>2, IntervalIs
  <1> HIDE DEF e
  <1>5. WindowAt(e)
    <2>1. \A k \in 1 .. 0 : FALSE
      OBVIOUS
    <2> QED  BY <1>1, <1>3, <2>1 DEF WindowAt
  <1>6. EmittedFrom(e)
    BY <1>1, <1>3 DEF EmittedFrom, Skip
  <1>7. Worked(e)
    BY <1>1, <1>3 DEF Worked
  <1>8. Settled(e)
    <2> DEFINE v == Interval(e)
    <2>1. v \in Nat \ {0}
      BY <1>4
    <2> HIDE DEF v
    <2>2. 0 - 0 < v + Whole
      BY <1>3, <2>1
    <2> QED  BY <1>1, <1>3, <2>2 DEF Settled, v
  <1> QED  BY <1>2, <1>5, <1>6, <1>7, <1>8 DEF e

LEMMA RefInitInv ==
    ASSUME RefInit
    PROVE  RefInv
  <1>1. /\ HoldInv /\ pc = "idle" /\ status = "open" /\ enc_pushed_frames = 0
        /\ es = FreshEncoder /\ driving = "no"
    BY InitHold DEF RefInit, Init
  <1>2. es.stable_mel = 0 /\ ~es.finalized
    BY <1>1 DEF FreshEncoder
  <1>3. StreamInv
    BY <1>1, <1>2, FreshIs DEF StreamInv, AtFinish
  <1> QED  BY <1>1, <1>3 DEF RefInv, BusyInv

LEMMA StreamInvStep ==
    ASSUME RefInv, [RefNext]_refVars
    PROVE  StreamInv'
  <1>1. StreamInv /\ HoldInv /\ BusyInv
    BY DEF RefInv
  <1>2. CASE StreamStep
    <2>1. UNCHANGED <<es, driving, enc_pushed_frames>> /\ driving = "no"
      BY <1>2 DEF StreamStep, CallFeed, FeedSlice, DrainEnds, DrainFails, FinishEmpty, CallFinish
    <2>2. /\ status' = status \/ status = "open" \/ status' = "failed"
          /\ status' = "open" => status = "open"
      BY <1>2 DEF StreamStep, CallFeed, FeedSlice, DrainEnds, DrainFails, FinishEmpty, CallFinish
    <2> QED  BY <1>1, <2>1, <2>2, EncoderStays
  <1>3. CASE PushSlice
    <2> DEFINE n == enc_pushed_frames' - enc_pushed_frames
    <2>1. DrainOne /\ TakeMel(enc_pushed_frames, n, "push") /\ status = "open"
      BY <1>1, <1>3 DEF PushSlice, DrainOne, BusyInv
    <2>2. n \in Nat /\ enc_pushed_frames' = enc_pushed_frames + n
      BY <1>1, <2>1, PushSize
    <2> HIDE DEF n
    <2> QED  BY <1>1, <2>1, <2>2, TakeStep
  <1>4. CASE PushRest
    <2> DEFINE n == enc_pushed_frames' - enc_pushed_frames
    <2>1. DrainFinal /\ TakeMel(enc_pushed_frames, n, "last") /\ status = "open"
          /\ status' = "completed"
      BY <1>1, <1>4 DEF PushRest, DrainFinal, BusyInv
    <2>2. n \in Nat /\ enc_pushed_frames' = enc_pushed_frames + n
      BY <1>1, <2>1, PushSize
    <2> HIDE DEF n
    <2> QED  BY <1>1, <2>1, <2>2, TakeStep
  <1>5. CASE RunChunk
    BY <1>1, <1>5, CompleteRunStep, PartialRunStep DEF RunChunk
  <1>6. CASE DriveEnds
    BY <1>1, <1>6, DriveEndsStep
  <1>7. CASE RunFails
    <2>1. /\ driving # "no" /\ driving' = "no" /\ status' = "failed" /\ es' = es
          /\ enc_pushed_frames' = enc_pushed_frames
      BY <1>7 DEF RunFails
    <2>2. ~es.finalized
      BY <1>1, <2>1 DEF StreamInv
    <2>3. ~Early' /\ ~AtFinish'
      BY <2>1 DEF Early, AtFinish
    <2> QED  BY <1>1, <2>1, <2>2, <2>3 DEF StreamInv
  <1>8. CASE ResetStream
    <2>1. /\ es' = FreshEncoder /\ driving' = "no" /\ enc_pushed_frames' = 0 /\ status' = "open"
      BY <1>8 DEF ResetStream, CallReset
    <2>2. es'.stable_mel = 0 /\ ~es'.finalized
      BY <2>1 DEF FreshEncoder
    <2>3. ~AtFinish'
      BY <2>1 DEF AtFinish
    <2> QED  BY <2>1, <2>2, <2>3, FreshIs DEF StreamInv
  <1>9. CASE UNCHANGED refVars
    BY <1>1, <1>9, EncoderStays DEF refVars, vars, callVars
  <1> QED  BY <1>2, <1>3, <1>4, <1>5, <1>6, <1>7, <1>8, <1>9 DEF RefNext

LEMMA RefNextInv ==
    ASSUME RefInv, [RefNext]_refVars
    PROVE  RefInv'
  <1>1. HoldInv'
    BY FrontendSteps, NextHold, RunFailsHold DEF RefInv
  <1> QED  BY <1>1, BusyStep, StreamInvStep DEF RefInv

-----------------------------------------------------------------------------
(* Types, the window and the work.                                         *)

\* The invariant of the stream's encoder and the frontend that feeds it is
\* inductive.
THEOREM RefInductive == RefSpec => []RefInv
  BY RefInitInv, RefNextInv, PTL DEF RefSpec

\* Types, for every chunk, overlap and emission interval.
THEOREM RefTypeCorrect == RefSpec => []RefTypeOK
  <1>1. RefInv => RefTypeOK
    <2> SUFFICES ASSUME RefInv
                 PROVE  RefTypeOK
      OBVIOUS
    <2>1. TypeOK
      BY DEF RefInv, HoldInv, FrontInv, CursorInv, TypeOK
    <2>2. /\ es \in EncoderStates /\ es.emitted = Len(es.enc_accum)
          /\ driving \in {"no", "push", "last", "finish"}
      BY DEF RefInv, StreamInv, EmittedFrom
    <2>3. es.cur_chunk \in Nat /\ es.finalized \in BOOLEAN
      BY <2>2 DEF EncoderStates
    <2>4. es.window_base <= es.stable_mel
      <3> DEFINE b == es.window_base
                 l == Len(es.mel_window)
                 m == es.stable_mel
      <3>1. b \in Nat /\ m \in Nat /\ l \in Nat
        BY <2>2, LenProperties DEF EncoderStates
      <3>2. b = m \/ b + l = m
        BY DEF RefInv, StreamInv, WindowAt
      <3> HIDE DEF b, l, m
      <3>3. b <= m
        BY <3>1, <3>2
      <3> QED  BY <3>3 DEF b, m
    <2> QED  BY <2>1, <2>2, <2>3, <2>4 DEF RefTypeOK
  <1> QED  BY <1>1, RefInductive, PTL

\* Between calls the window is what the next chunk still lacks, and what was run
\* bounds both the work and the delay.
LEMMA BoundsHold ==
    ASSUME RefInv, driving = "no", status = "open"
    PROVE  WindowFollows /\ WorkBounded
  <1> DEFINE c == es.cur_chunk
             m == es.stable_mel
             s == c * MelStride
             l == es.last_run_mel_end
             w == Len(es.mel_window)
             em == es.emitted
  <1>1. StreamInv /\ ~es.finalized /\ Early
    BY DEF RefInv, StreamInv, Early
  <1>2. /\ WindowAt(es) /\ Worked(es) /\ Settled(es) /\ m = enc_pushed_frames
        /\ es \in EncoderStates
    BY <1>1 DEF StreamInv
  <1>3. /\ c \in Nat /\ m \in Nat /\ l \in Nat /\ em \in Nat /\ w \in Nat
    BY <1>2, LenProperties DEF EncoderStates
  <1>4. /\ s \in Nat /\ s = 2 * (c * Overlap) /\ c * Overlap \in Nat
        /\ Overlap \in Nat \ {0} /\ ChunkMel = 4 * Overlap /\ MelStride = 2 * Overlap
    <2>1. s = 2 * (c * Overlap) /\ c * Overlap \in Nat
      BY <1>3, Starts
    <2> QED  BY <2>1, Sizes
  <1>5. es.window_base = s /\ s + w = m /\ m - s < ChunkMel
    BY <1>2 DEF WindowAt, Settled
  <1>6. WindowFollows
    <2>1. w = m - s
      <3> HIDE DEF w, m, s
      <3> QED  BY <1>3, <1>4, <1>5
    <2>2. ChunkStart = s /\ Available = m - s
      BY DEF ChunkStart, Available
    <2>3. w < ChunkMel
      <3> HIDE DEF w, m, s
      <3> QED  BY <1>5, <2>1
    <2> QED  BY <1>2, <1>5, <2>1, <2>2, <2>3 DEF WindowFollows
  <1>7. CASE c = 0
    <2>1. /\ 2 * em = l /\ es.encoder_input_frames <= 3 * l
          /\ m - l < Interval(es) + Whole
      BY <1>2, <1>7 DEF Worked, Settled
    <2>2. m - 2 * em < PrefixInterval + Whole
      <3>1. PrefixInterval = Interval(es)
        BY DEF PrefixInterval, Interval
      <3> QED  BY <2>1, <3>1
    <2> QED  BY <1>6, <1>7, <2>1, <2>2 DEF WorkBounded
  <1>8. CASE c # 0
    <2>1. em = c * Overlap + Overlap
      BY <1>2, <1>8 DEF Worked
    <2>2. m - 2 * em < MelStride
      <3> DEFINE x == c * Overlap
      <3>1. em = x + Overlap /\ s = 2 * x /\ x \in Nat
        BY <1>4, <2>1
      <3> HIDE DEF em, x, s, m
      <3> QED  BY <1>3, <1>4, <1>5, <3>1
    <2>3. es.encoder_input_frames <= (c + 3) * ChunkMel
      BY <1>2, <1>8 DEF Worked
    <2> QED  BY <1>6, <1>8, <2>2, <2>3 DEF WorkBounded
  <1> QED  BY <1>7, <1>8

\* The encoder never asks for Mel it has dropped, and what it holds stays below one
\* chunk (encoder_stream_run_chunk's refusal of a window that does not cover it).
THEOREM WindowIsBounded == RefSpec => [](WindowFollows /\ WorkBounded)
  <1>1. RefInv => WindowFollows /\ WorkBounded
    BY BoundsHold DEF WindowFollows, WorkBounded
  <1> QED  BY <1>1, RefInductive, PTL

-----------------------------------------------------------------------------
(* The final chunk.                                                        *)

\* The chunks before one that starts a stride behind the end are complete.
LEMMA EarlierComplete ==
    ASSUME NEW c \in Nat, NEW total \in Nat, total - c * MelStride >= MelStride,
           NEW b \in Nat, b < c
    PROVE  total - b * MelStride >= ChunkMel
  <1>1. MelStride \in Nat \ {0} /\ ChunkMel = MelStride + MelStride
    BY Sizes
  <1>2. PICK d \in Nat : c = b + d /\ d > 0
    <2>1. c - b \in Nat /\ c = b + (c - b) /\ c - b > 0
      OBVIOUS
    <2> QED  BY <2>1
  <1> DEFINE x == b * MelStride
             y == d * MelStride
             z == c * MelStride
  <1>3. z = x + y /\ x \in Nat /\ y \in Nat /\ y >= MelStride
    BY <1>1, <1>2, Multiples
  <1> HIDE DEF x, y
  <1>4. total - x >= ChunkMel
    <2> HIDE DEF z
    <2>1. total - z >= MelStride
      BY DEF z
    <2> QED  BY <1>1, <1>3, <2>1
  <1> QED  BY <1>4 DEF x

\* The frames of the chunks before that one are the same however the signal ends.
LEMMA StableBelow ==
    ASSUME NEW c \in Nat, c > 0, NEW total \in Nat, total - c * MelStride >= MelStride,
           NEW g \in Nat \ {0}, g <= c * Overlap + Overlap
    PROVE  BatchFrame(g, total) = StableFrame(g)
  <1> DEFINE b == Owner(g)
  <1>1. Overlap \in Nat \ {0} /\ c * Overlap \in Nat /\ (c + 1) * Overlap = c * Overlap + Overlap
    BY Sizes, Starts
  <1>2. b \in Nat /\ b < c
    <2>1. CASE g <= 2 * Overlap
      BY <2>1 DEF Owner
    <2>2. CASE ~(g <= 2 * Overlap)
      <3> DEFINE n == g - 1
                 q == n \div Overlap
                 x == c * Overlap
                 k == c + 1
      <3>1. n \in Nat /\ 1 * Overlap <= n /\ n < x + Overlap /\ k \in Nat
        BY <1>1, <2>2
      <3>2. k * Overlap = x + Overlap
        BY <1>1
      <3> HIDE DEF n, x, k
      <3>3. q \in Nat /\ 1 <= q /\ (k < q => k * Overlap + Overlap <= n)
        BY <1>1, <3>1, QuotientBounds
      <3>4. q # k
        <4> SUFFICES ASSUME q = k
                     PROVE  FALSE
          OBVIOUS
        <4>1. n = q * Overlap + (n % Overlap) /\ n % Overlap \in 0 .. Overlap - 1
          BY <1>1, <3>1, Division
        <4> DEFINE y == q * Overlap
        <4>2. y = x + Overlap
          BY <3>2
        <4> HIDE DEF y, q
        <4>3. n = y + (n % Overlap) /\ x \in Nat
          BY <1>1, <4>1 DEF y, x
        <4> QED  BY <1>1, <3>1, <4>1, <4>2, <4>3
      <3>5. ~(k < q)
        BY <1>1, <3>1, <3>2, <3>3 DEF x
      <3>6. b = q - 1
        BY <2>2 DEF Owner, n
      <3> HIDE DEF q, b
      <3>7. b \in Nat /\ b < c
        BY <3>1, <3>3, <3>4, <3>5, <3>6 DEF k
      <3> QED  BY <3>7
    <2> QED  BY <2>1, <2>2
  <1> HIDE DEF b
  <1>3. Len(MelOf(b, total)) = ChunkMel
    BY <1>2, EarlierComplete, CompleteRuns
  <1> QED  BY <1>3 DEF BatchFrame, StableFrame, b

\* When the chunk behind the complete ones has nothing new, the loop ends before it.
LEMMA NoneLeft ==
    ASSUME NEW c \in Nat, NEW total \in Nat, NoChunk(c, total),
           c > 0 => total - c * MelStride >= MelStride
    PROVE  /\ Chunks(total) = c
           /\ BatchLen(c, total) = IF c = 0 THEN 0 ELSE c * Overlap + Overlap
  <1>1. ASSUME NEW b \in 0 .. c - 1
        PROVE  ~NoChunk(b, total) /\ EncTokens(Len(MelOf(b, total))) = 2 * Overlap
    <2>1. b \in Nat /\ b < c /\ c > 0
      BY <1>1
    <2> QED  BY <2>1, EarlierComplete, CompleteRuns
  <1>2. Chunks(total) = c
    BY <1>1, ChunksUnique
  <1>3. ASSUME c # 0
        PROVE  BatchLen(c, total) = c * Overlap + Overlap
    <2> DEFINE b == c - 1
               x == c * Overlap
    <2>1. b \in 0 .. c - 1 /\ b * Overlap = x - Overlap /\ x \in Nat /\ Overlap \in Nat
      BY <1>3, Starts, Sizes
    <2>2. BatchLen(c, total) = b * Overlap + EncTokens(Len(MelOf(b, total)))
      BY <1>3 DEF BatchLen
    <2> HIDE DEF b, x
    <2>3. BatchLen(c, total) = x + Overlap
      BY <1>1, <2>1, <2>2
    <2> QED  BY <2>3 DEF x
  <1> QED  BY <1>2, <1>3 DEF BatchLen

\* When it has, it is the last.
LEMMA OneLeft ==
    ASSUME NEW c \in Nat, NEW total \in Nat, NEW n \in Nat, n = total - c * MelStride, n < ChunkMel,
           n > 0, EncTokens(n) > Skip(c), c > 0 => n >= MelStride
    PROVE  /\ Len(MelOf(c, total)) = n /\ Chunks(total) = c + 1
           /\ BatchLen(c + 1, total) = c * Overlap + EncTokens(n)
  <1> DEFINE x == c * MelStride
  <1>1. x \in Nat /\ ChunkMel \in Nat
    <2>1. c * MelStride = 2 * (c * Overlap) /\ c * Overlap \in Nat
      BY Starts
    <2> QED  BY <2>1, Sizes
  <1>2. x < total
    <2> HIDE DEF x
    <2>1. n = total - x
      BY DEF x
    <2> QED  BY <1>1, <2>1
  <1>3. Len(MelOf(c, total)) = n
    <2>1. Len(MelOf(c, total)) = SmallerOf(ChunkMel, total - c * MelStride)
      BY <1>2, MelOfIs
    <2>2. SmallerOf(ChunkMel, n) = n
      BY <1>1 DEF SmallerOf
    <2> QED  BY <2>1, <2>2
  <1>4. ~NoChunk(c, total)
    <2>1. EncTokens(n) \in Nat /\ Skip(c) \in Nat
      BY Tokens, Sizes DEF Skip
    <2>2. ~(c * MelStride >= total)
      <3> HIDE DEF x
      <3>1. ~(x >= total)
        BY <1>1, <1>2
      <3> QED  BY <3>1 DEF x
    <2>3. ~(EncTokens(n) <= Skip(c))
      BY <2>1
    <2> QED  BY <1>3, <2>2, <2>3 DEF NoChunk
  <1>5. NoChunk(c + 1, total)
    <2> SUFFICES ASSUME ~NoChunk(c + 1, total)
                 PROVE  FALSE
      OBVIOUS
    <2>1. total - c * MelStride >= ChunkMel
      BY BeforeAnother
    <2> QED  BY <1>1, <2>1
  <1>6. ASSUME NEW b \in 0 .. (c + 1) - 1
        PROVE  ~NoChunk(b, total)
    <2>1. CASE b = c
      BY <1>4, <2>1
    <2>2. CASE b # c
      <3>1. b \in Nat /\ b < c /\ c > 0
        BY <1>6, <2>2
      <3> QED  BY <3>1, EarlierComplete, CompleteRuns
    <2> QED  BY <2>1, <2>2
  <1>7. Chunks(total) = c + 1
    <2>1. c + 1 \in Nat
      OBVIOUS
    <2> QED  BY <1>5, <1>6, <2>1, ChunksUnique
  <1>8. BatchLen(c + 1, total) = c * Overlap + EncTokens(n)
    <2>1. c + 1 # 0 /\ (c + 1) - 1 = c
      OBVIOUS
    <2> QED  BY <1>3, <2>1 DEF BatchLen
  <1> QED  BY <1>3, <1>7, <1>8

\* A sequence of the batch path's frames, as many as it has, is its output.
LEMMA IsRunChunked ==
    ASSUME NEW total \in Nat, NEW s \in Seq(EncFrames),
           Len(s) = BatchLen(Chunks(total), total),
           \A g \in 1 .. Len(s) : s[g] = BatchFrame(g, total)
    PROVE  s = RunChunked(total)
  <1> DEFINE c == Chunks(total)
             t == BatchOutput(c, total)
  <1>1. c \in 0 .. Chunks(total)
    BY ChunksIs
  <1>2. t \in Seq(EncFrames) /\ Len(t) = Len(s) /\ \A g \in 1 .. Len(s) : t[g] = BatchFrame(g, total)
    BY <1>1, BatchOutputType
  <1> HIDE DEF t
  <1>3. s = t
    BY <1>2, SameSequence
  <1> QED  BY <1>3, RunsToBatchFrames DEF t

-----------------------------------------------------------------------------
(* Whole groups at the end.                                                *)

\* The padded utterance is a number of tokens, its Mel a number of adapter groups.
LEMMA WholeAtTheEnd ==
    ASSUME NEW n \in Nat
    PROVE  (PaddedLen(n) \div Hop) % Whole = 0
  <1> DEFINE q == n \div PerToken
             r == n % PerToken
             fill == (PerToken - r) % PerToken
  <1>1. /\ PerToken \in Nat \ {0} /\ LeftTokens \in Nat /\ RightTokens \in Nat
        /\ Hop \in Nat \ {0} /\ Whole \in Nat \ {0} /\ PerToken = Whole * Hop
    BY MelAssumption, ReferenceAssumption, Sizes
  <1>2. q \in Nat /\ r \in 0 .. PerToken - 1 /\ n = q * PerToken + r
    BY <1>1, Division
  <1>3. \E d \in Nat : n + fill = d * PerToken
    <2> DEFINE y == q * PerToken
    <2>1. y \in Nat /\ n = y + r /\ (q + 1) * PerToken = y + PerToken
      <3>1. y \in Nat /\ (q + 1) * PerToken = y + 1 * PerToken /\ 1 * PerToken = PerToken
        <4> HIDE DEF q
        <4> QED  BY <1>1, <1>2, Multiples
      <3> QED  BY <1>2, <3>1
    <2> HIDE DEF q, r, y
    <2>2. CASE r = 0
      <3>1. (PerToken - r) % PerToken = 0
        <4>1. PerToken - r = 1 * PerToken
          BY <1>1, <2>2
        <4> QED  BY <1>1, <4>1, MultipleRemainder
      <3>2. n + fill = y
        BY <2>1, <2>2, <3>1
      <3> QED  BY <1>2, <3>2 DEF y
    <2>3. CASE r # 0
      <3>1. PerToken - r \in Nat /\ PerToken - r < PerToken
        BY <1>1, <1>2, <2>3
      <3>2. (PerToken - r) % PerToken = PerToken - r
        <4> DEFINE a == PerToken - r
        <4> HIDE DEF a
        <4> QED  BY <1>1, <3>1, SmallRemainder DEF a
      <3>3. n + fill = y + PerToken
        BY <1>1, <1>2, <2>1, <3>2
      <3>4. q + 1 \in Nat
        BY <1>2
      <3> QED  BY <2>1, <3>3, <3>4
    <2> QED  BY <2>2, <2>3
  <1> HIDE DEF q, r, fill
  <1>4. PICK d \in Nat : n + fill = d * PerToken
    BY <1>3
  <1> DEFINE k == LeftTokens + d + RightTokens
  <1>5. k \in Nat /\ PaddedLen(n) = k * PerToken
    <2> DEFINE a == LeftTokens * PerToken
               b == d * PerToken
               e == RightTokens * PerToken
    <2>1. (LeftTokens + d) * PerToken = a + b /\ LeftTokens + d \in Nat
      BY <1>1, Multiples
    <2>2. k * PerToken = (LeftTokens + d) * PerToken + e
      BY <1>1, <2>1, Multiples
    <2>3. PaddedLen(n) = a + n + (fill + e)
      BY DEF PaddedLen, Left, RightPad, fill, r
    <2>4. a \in Nat /\ b \in Nat /\ e \in Nat /\ k \in Nat
      BY <1>1, Multiples
    <2>5. fill \in Int
      BY <1>1, <1>2 DEF fill
    <2>6. n + fill = b
      BY <1>4
    <2>7. a + n + (fill + e) = k * PerToken
      <3> DEFINE z == k * PerToken
      <3>1. z = a + b + e
        BY <2>1, <2>2
      <3> HIDE DEF a, b, e, z, k
      <3>2. a + n + (fill + e) = z
        BY <2>4, <2>5, <2>6, <3>1
      <3> QED  BY <3>2 DEF z
    <2> QED  BY <2>3, <2>4, <2>7
  <1> HIDE DEF k
  <1>6. PaddedLen(n) = (k * Whole) * Hop /\ k * Whole \in Nat
    BY <1>1, <1>5
  <1> DEFINE w == k * Whole
             p == PaddedLen(n)
  <1>7. p = w * Hop /\ w \in Nat
    BY <1>6
  <1>8. p \div Hop = w
    <2> HIDE DEF w, p
    <2>1. p \in Nat /\ w * Hop <= p /\ p < w * Hop + Hop
      <3> DEFINE z == w * Hop
      <3>1. z \in Nat /\ p = z
        BY <1>1, <1>7, Multiples
      <3> HIDE DEF z
      <3>2. p \in Nat /\ z <= p /\ p < z + Hop
        BY <1>1, <3>1
      <3> QED  BY <3>2 DEF z
    <2> QED  BY <1>1, <1>7, <2>1, QuotientIs
  <1>9. w % Whole = 0
    BY <1>1, <1>5, MultipleRemainder
  <1> QED  BY <1>8, <1>9

-----------------------------------------------------------------------------
(* The stream replays the batch path.                                      *)

\* The frames emitted so far are those of a signal that goes on.
Stable(e) == \A g \in 1 .. e.emitted : e.enc_accum[g] = StableFrame(g)

\* The final chunk has been run: the output is the batch path's, and the chunk has
\* nothing more.
Replayed(e) ==
    /\ e.enc_accum = RunChunked(e.stable_mel)
    /\ e.stable_mel - e.cur_chunk * MelStride < ChunkMel
    /\ e.emitted >= e.cur_chunk * Overlap + EncTokens(e.stable_mel - e.cur_chunk * MelStride)

ReplayInv ==
    /\ Early => Stable(es)
    /\ driving = "last" => es.stable_mel % Whole = 0
    /\ status = "completed" /\ samples > 0 => AtFinish \/ es.finalized
    /\ driving = "finish" \/ es.finalized => Replayed(es)

\* A complete chunk's new frames, run ahead or not.
LEMMA CompleteRunReplay ==
    ASSUME StreamInv, ReplayInv, driving # "no", Due, Complete, es' = Advanced(AfterRun),
           UNCHANGED driving, UNCHANGED vars
    PROVE  ReplayInv'
  <1> DEFINE r == AfterRun
             c == es.cur_chunk
             x == c * Overlap
  <1>1. ~es.finalized /\ es \in EncoderStates /\ c \in Nat /\ es.emitted \in Nat /\ WindowAt(es)
        /\ es.emitted >= x + Skip(c)
    BY DEF StreamInv, EncoderStates, EmittedFrom
  <1>2. /\ RunLength = ChunkMel /\ ChunkStart + Available = es.stable_mel /\ Available \in Nat
        /\ ChunkStart \in Nat
    BY <1>1, RunLengthIs
  <1>3. EncTokens(RunLength) = 2 * Overlap
    BY <1>2, ChunkTokens
  <1>4. /\ r \in EncoderStates /\ r.mel_window = es.mel_window /\ r.window_base = es.window_base
        /\ r.stable_mel = es.stable_mel /\ r.cur_chunk = c /\ r.finalized = es.finalized
        /\ r.emitted = (IF x + 2 * Overlap > es.emitted THEN x + 2 * Overlap ELSE es.emitted)
        /\ r.emitted = Len(r.enc_accum)
        /\ \A g \in 1 .. r.emitted :
              r.enc_accum[g] = IF g <= es.emitted THEN es.enc_accum[g]
                               ELSE ChunkFrame(c, ChunkMel, g - x)
    <2> HIDE DEF r
    <2> QED  BY <1>1, <1>2, <1>3, RunDoes DEF r
  <1>5. ~(es.stable_mel - c * MelStride < ChunkMel)
    <2>1. Available >= ChunkMel /\ Available = es.stable_mel - c * MelStride
      BY DEF Complete, Available, ChunkStart
    <2> DEFINE a == es.stable_mel - c * MelStride
    <2>2. a \in Nat /\ a >= ChunkMel /\ ChunkMel \in Nat
      BY <1>2, <2>1, Sizes
    <2> HIDE DEF a
    <2>3. ~(a < ChunkMel)
      BY <2>2
    <2> QED  BY <2>3 DEF a
  <1>6. driving # "finish"
    BY <1>5 DEF ReplayInv, Replayed
  <1> HIDE DEF r
  <1>7. WindowAt(r) /\ r.stable_mel - r.cur_chunk * MelStride >= ChunkMel
    <2>1. WindowAt(r)
      BY <1>1, <1>4 DEF WindowAt
    <2>2. es.stable_mel - ChunkStart >= ChunkMel
      BY DEF Complete, Available
    <2> QED  BY <1>4, <2>1, <2>2 DEF ChunkStart
  <1>8. /\ es'.stable_mel = es.stable_mel /\ es'.emitted = r.emitted
        /\ es'.finalized = es.finalized /\ es'.enc_accum = r.enc_accum
    BY <1>4, <1>7, AdvancedDoes DEF r
  <1>9. driving' = driving /\ status' = status /\ samples' = samples
    BY DEF vars, callVars
  <1>10. ASSUME Early
         PROVE  Stable(es')
    <2>1. ASSUME NEW g \in 1 .. r.emitted
          PROVE  r.enc_accum[g] = StableFrame(g)
      <3>1. CASE g <= es.emitted
        <4>1. g \in 1 .. es.emitted
          BY <1>1, <3>1
        <4> QED  BY <1>4, <1>10, <3>1, <4>1 DEF ReplayInv, Stable
      <3>2. CASE ~(g <= es.emitted)
        <4>1. Owner(g) = c
          <5> DEFINE s == Skip(c)
                     m == r.emitted
          <5>1. s \in Nat /\ x \in Nat /\ Overlap \in Nat
            BY <1>1, Sizes, Starts DEF Skip
          <5>2. m = IF x + 2 * Overlap > es.emitted THEN x + 2 * Overlap ELSE es.emitted
            BY <1>4
          <5>3. es.emitted >= x + s
            BY <1>1
          <5>4. g \in 1 .. m
            OBVIOUS
          <5> HIDE DEF s, x, m
          <5>5. g \in Nat /\ g > x + s /\ g <= x + 2 * Overlap
            BY <1>1, <3>2, <5>1, <5>2, <5>3, <5>4
          <5> QED  BY <1>1, <5>5, OwnerIs DEF x, s
        <4> QED  BY <1>4, <3>2, <4>1 DEF StableFrame
      <3> QED  BY <3>1, <3>2
    <2> QED  BY <1>8, <2>1 DEF Stable
  <1>11. Early' => Early
    BY <1>8, <1>9 DEF Early
  <1> QED  BY <1>1, <1>6, <1>8, <1>9, <1>10, <1>11 DEF ReplayInv, AtFinish

\* A prefix of chunk 0 is whole groups, which the complete chunk cuts the same way.
LEMMA PrefixReplay ==
    ASSUME StreamInv, ReplayInv, driving = "push", Due, ~Complete, Early
    PROVE  Stable(AfterRun)
  <1> DEFINE r == AfterRun
             c == es.cur_chunk
             n == RunLength
             e == EncTokens(n)
  <1>1. ~es.finalized /\ es \in EncoderStates /\ es.emitted \in Nat /\ ~AtFinish
    BY DEF StreamInv, EncoderStates, AtFinish, Early
  <1>2. /\ Available \in Nat /\ n \in Nat \ {0} /\ n <= Available /\ Available < ChunkMel
        /\ c = 0 /\ n = Prefix
    BY <1>1, RunLengthIs
  <1>3. /\ r.emitted = (IF c * Overlap + e > es.emitted THEN c * Overlap + e ELSE es.emitted)
        /\ \A g \in 1 .. r.emitted :
              r.enc_accum[g] = IF g <= es.emitted THEN es.enc_accum[g]
                               ELSE ChunkFrame(c, n, g - c * Overlap)
    <2> HIDE DEF r
    <2> QED  BY <1>1, RunDoes DEF r
  <1>4. n % Whole = 0 /\ 2 * e = n /\ e \in Nat
    <2>1. n % Whole = 0
      BY <1>2, PrefixIs
    <2> HIDE DEF n
    <2> QED  BY <1>2, <2>1, WholeGroups, Tokens DEF e
  <1>5. 0 * Overlap = 0 /\ ChunkMel = 4 * Overlap /\ Overlap \in Nat /\ ChunkMel % Whole = 0
        /\ ChunkMel \in Nat
    BY Sizes
  <1>6. c * Overlap + e = e
    <2> HIDE DEF e
    <2> QED  BY <1>2, <1>4, <1>5
  <1> HIDE DEF r, e
  <1>7. ASSUME NEW g \in 1 .. r.emitted
        PROVE  r.enc_accum[g] = StableFrame(g)
    <2>1. CASE g <= es.emitted
      <3>1. g \in 1 .. es.emitted
        BY <1>1, <2>1
      <3> QED  BY <1>3, <2>1, <3>1 DEF ReplayInv, Stable
    <2>2. CASE ~(g <= es.emitted)
      <3>0. r.emitted = IF e > es.emitted THEN e ELSE es.emitted
        BY <1>3, <1>6
      <3>1. g \in Nat \ {0} /\ g <= e
        <4> DEFINE m == r.emitted
        <4>1. m = (IF e > es.emitted THEN e ELSE es.emitted) /\ g \in 1 .. m
          BY <3>0
        <4> HIDE DEF m
        <4> QED  BY <1>1, <1>4, <2>2, <4>1
      <3>2. 2 * g <= n /\ 2 * g <= ChunkMel /\ g <= 2 * Overlap
        <4> HIDE DEF n
        <4> QED  BY <1>2, <1>4, <1>5, <3>1
      <3>3. Owner(g) = 0
        BY <3>2 DEF Owner
      <3>4. ChunkFrame(0, n, g) = ChunkFrame(0, ChunkMel, g)
        <4> HIDE DEF n
        <4> QED  BY <1>2, <1>4, <1>5, <3>1, <3>2, SameInWholeGroups
      <3>5. g - 0 = g
        BY <3>1
      <3>6. r.enc_accum[g] = ChunkFrame(0, n, g)
        BY <1>2, <1>3, <1>5, <2>2, <3>5
      <3>7. StableFrame(g) = ChunkFrame(0, ChunkMel, g)
        BY <1>5, <3>3, <3>5 DEF StableFrame
      <3> QED  BY <3>4, <3>6, <3>7
    <2> QED  BY <2>1, <2>2
  <1> QED  BY <1>7 DEF Stable, r

\* The pass over the final chunk completes the batch path's output.
LEMMA LastRunReplay ==
    ASSUME StreamInv, ReplayInv, driving = "last", Due, ~Complete
    PROVE  Replayed(AfterRun)
  <1> DEFINE r == AfterRun
             c == es.cur_chunk
             x == c * Overlap
             n == RunLength
             e == EncTokens(n)
             m == es.stable_mel
             em == es.emitted
             l == es.last_run_mel_end
  <1>1. /\ AtFinish /\ ~es.finalized /\ Early /\ es \in EncoderStates /\ EmittedFrom(es) /\ Worked(es)
        /\ Stable(es) /\ m % Whole = 0
    BY DEF StreamInv, AtFinish, Early, ReplayInv
  <1>2. c \in Nat /\ m \in Nat /\ em \in Nat /\ l \in Nat
    BY <1>1 DEF EncoderStates
  <1>3. /\ n \in Nat \ {0} /\ n < ChunkMel /\ n = Available /\ n = m - c * MelStride
        /\ e > Skip(c)
    <2>1. n \in Nat \ {0} /\ n = Available /\ Available < ChunkMel
      BY <1>1, RunLengthIs
    <2> QED  BY <2>1 DEF Available, ChunkStart, Due
  <1>4. c > 0 => n >= MelStride
    <2> HIDE DEF n
    <2> QED  BY <1>1, <1>3 DEF EmittedFrom
  <1>5. /\ x \in Nat /\ Overlap \in Nat \ {0} /\ ChunkMel = 4 * Overlap /\ ChunkMel % Whole = 0
        /\ ChunkMel \in Nat /\ 0 * Overlap = 0 /\ 0 * MelStride = 0
    <2>1. x \in Nat
      BY <1>2, Starts
    <2> QED  BY <2>1, Sizes
  <1>6. e \in Nat /\ e <= 2 * Overlap
    <2> HIDE DEF n
    <2>1. n <= ChunkMel /\ n \in Nat
      BY <1>3, <1>5
    <2> QED  BY <2>1, Tokens, ChunkTokens
  <1>7. /\ Len(MelOf(c, m)) = n /\ Chunks(m) = c + 1
        /\ BatchLen(c + 1, m) = x + e
    <2> HIDE DEF n, c, m
    <2> QED  BY <1>2, <1>3, <1>4, OneLeft DEF e
  <1>8. /\ r.stable_mel = m /\ r.cur_chunk = c /\ r \in EncoderStates
        /\ r.emitted = (IF x + e > em THEN x + e ELSE em)
        /\ r.emitted = Len(r.enc_accum)
        /\ \A g \in 1 .. r.emitted :
              r.enc_accum[g] = IF g <= em THEN es.enc_accum[g] ELSE ChunkFrame(c, n, g - x)
    <2> HIDE DEF r
    <2> QED  BY <1>1, RunDoes DEF r
  <1> HIDE DEF r, e
  <1>9. em <= x + e /\ (c = 0 => 2 * em <= n /\ n % Whole = 0) /\ (c > 0 => em = x + Overlap)
    <2>1. CASE c = 0
      <3>1. 2 * em = l /\ l <= m
        BY <1>1, <2>1 DEF Worked
      <3>2. m = n /\ x = 0
        <4> HIDE DEF n, m
        <4> QED  BY <1>2, <1>3, <1>5, <2>1
      <3>3. n % Whole = 0
        BY <1>1, <3>2
      <3>4. 2 * e = n
        <4> HIDE DEF n
        <4> QED  BY <1>3, <3>3, WholeGroups DEF e
      <3>5. em <= x + e /\ 2 * em <= n
        <4> HIDE DEF n, m, em, l, x
        <4> QED  BY <1>2, <1>3, <1>6, <3>1, <3>2, <3>4
      <3> QED  BY <2>1, <3>3, <3>5
    <2>2. CASE c # 0
      <3>1. em = x + Overlap /\ Skip(c) = Overlap
        BY <1>1, <2>2 DEF Worked, Skip
      <3>2. em <= x + e
        <4> HIDE DEF em, x
        <4> QED  BY <1>3, <1>5, <1>6, <3>1
      <3> QED  BY <2>2, <3>1, <3>2
    <2> QED  BY <2>1, <2>2
  <1>10. r.emitted = x + e
    <2> DEFINE y == x + e
    <2>1. y \in Nat
      <3> HIDE DEF x
      <3> QED  BY <1>5, <1>6
    <2>2. r.emitted = (IF y > em THEN y ELSE em) /\ em <= y
      BY <1>8, <1>9
    <2> HIDE DEF y
    <2>3. r.emitted = y
      BY <1>2, <2>1, <2>2
    <2> QED  BY <2>3 DEF y
  <1>11. ASSUME NEW g \in 1 .. x + e
         PROVE  r.enc_accum[g] = BatchFrame(g, m)
    <2>0. g \in Nat \ {0} /\ g <= x + e
      <3> HIDE DEF x
      <3> QED  BY <1>5, <1>6
    <2>1. CASE g <= em
      <3>1. g \in 1 .. em
        BY <1>2, <2>0, <2>1
      <3>2. r.enc_accum[g] = StableFrame(g)
        BY <1>1, <1>8, <1>10, <2>1, <3>1 DEF Stable
      <3>3. CASE c = 0
        <4>1. 2 * g <= n /\ 2 * g <= ChunkMel /\ g <= 2 * Overlap
          <5> HIDE DEF n, em
          <5> QED  BY <1>2, <1>3, <1>5, <1>9, <2>0, <2>1, <3>3
        <4>2. Owner(g) = 0
          BY <4>1 DEF Owner
        <4>3. ChunkFrame(0, n, g) = ChunkFrame(0, ChunkMel, g)
          <5> HIDE DEF n
          <5> QED  BY <1>3, <1>5, <1>9, <2>0, <3>3, <4>1, SameInWholeGroups
        <4>4. g - 0 = g
          BY <2>0
        <4>5. StableFrame(g) = ChunkFrame(0, ChunkMel, g)
          BY <1>5, <4>2, <4>4 DEF StableFrame
        <4>6. BatchFrame(g, m) = ChunkFrame(0, n, g)
          BY <1>5, <1>7, <3>3, <4>2, <4>4 DEF BatchFrame
        <4> QED  BY <3>2, <4>3, <4>5, <4>6
      <3>4. CASE c # 0
        <4>1. c > 0 /\ g <= x + Overlap
          BY <1>2, <1>9, <2>1, <3>4
        <4>2. m - c * MelStride >= MelStride
          BY <1>1, <4>1 DEF EmittedFrom
        <4> HIDE DEF c, m
        <4>3. BatchFrame(g, m) = StableFrame(g)
          BY <1>2, <2>0, <4>1, <4>2, StableBelow
        <4> QED  BY <3>2, <4>3
      <3> QED  BY <3>3, <3>4
    <2>2. CASE ~(g <= em)
      <3>1. r.enc_accum[g] = ChunkFrame(c, n, g - x)
        BY <1>8, <1>10, <2>2
      <3>2. Owner(g) = c
        <4> DEFINE s == Skip(c)
        <4>1. s \in Nat /\ em >= x + s
          BY <1>1, <1>5 DEF Skip, EmittedFrom
        <4> HIDE DEF s, x, em
        <4>2. g > x + s /\ g <= x + 2 * Overlap
          BY <1>2, <1>5, <1>6, <2>0, <2>2, <4>1
        <4> QED  BY <1>2, <2>0, <4>2, OwnerIs DEF s, x
      <3> QED  BY <1>7, <3>1, <3>2 DEF BatchFrame
    <2> QED  BY <2>1, <2>2
  <1>12. r.enc_accum = RunChunked(m)
    <2> DEFINE a == r.enc_accum
    <2>1. a \in Seq(EncFrames) /\ Len(a) = x + e
      BY <1>8, <1>10 DEF EncoderStates
    <2>2. Len(a) = BatchLen(Chunks(m), m)
      BY <1>7, <2>1
    <2>3. \A g \in 1 .. Len(a) : a[g] = BatchFrame(g, m)
      BY <1>11, <2>1
    <2> HIDE DEF a, m
    <2>4. a = RunChunked(m)
      BY <1>2, <2>1, <2>2, <2>3, IsRunChunked
    <2> QED  BY <2>4 DEF a
  <1>13. r.emitted >= x + EncTokens(m - c * MelStride)
    <2>1. EncTokens(m - c * MelStride) = e
      BY <1>3 DEF e
    <2> DEFINE y == x + e
    <2>2. y \in Nat
      <3> HIDE DEF x
      <3> QED  BY <1>5, <1>6
    <2> HIDE DEF y
    <2>3. y >= y
      BY <2>2
    <2> QED  BY <1>10, <2>1, <2>3 DEF y
  <1>14. m - c * MelStride < ChunkMel
    <2> HIDE DEF n
    <2> QED  BY <1>3
  <1> QED  BY <1>8, <1>12, <1>13, <1>14 DEF Replayed, r

\* When the final push finds nothing to run, the output is complete already.
LEMMA LastEndReplay ==
    ASSUME StreamInv, ReplayInv, driving = "last", ~Due
    PROVE  Replayed(es)
  <1> DEFINE c == es.cur_chunk
             x == c * Overlap
             s == c * MelStride
             a == Available
             m == es.stable_mel
             em == es.emitted
             l == es.last_run_mel_end
  <1>1. /\ AtFinish /\ ~es.finalized /\ Early /\ es \in EncoderStates /\ EmittedFrom(es) /\ Worked(es)
        /\ Stable(es) /\ m % Whole = 0
    BY DEF StreamInv, AtFinish, Early, ReplayInv
  <1>2. c \in Nat /\ m \in Nat /\ em \in Nat /\ l \in Nat /\ es.enc_accum \in Seq(EncFrames)
        /\ em = Len(es.enc_accum)
    BY <1>1 DEF EncoderStates, EmittedFrom
  <1>3. /\ a \in Nat /\ a < ChunkMel /\ a = m - s
        /\ a = 0 \/ EncTokens(a) <= Skip(c)
    <2>1. a = m - s
      BY DEF Available, ChunkStart
    <2> HIDE DEF s, m, a
    <2>2. a \in Nat /\ a < ChunkMel /\ (a = 0 \/ EncTokens(a) <= Skip(c))
      BY <1>1, NotDue DEF a
    <2> QED  BY <2>1, <2>2
  <1>4. /\ x \in Nat /\ s \in Nat /\ Overlap \in Nat \ {0} /\ ChunkMel \in Nat
        /\ 0 * Overlap = 0 /\ 0 * MelStride = 0 /\ Whole \in Nat \ {0} /\ MelStride \in Nat \ {0}
    <2>1. x \in Nat /\ s = 2 * x
      BY <1>2, Starts
    <2>2. s \in Nat
      <3> HIDE DEF x, s
      <3> QED  BY <2>1
    <2> QED  BY <2>1, <2>2, Sizes
  <1>5. c > 0 => m - s >= MelStride
    BY <1>1 DEF EmittedFrom
  <1>6. EncTokens(a) \in Nat /\ (a = 0 => EncTokens(a) = 0)
    <2> HIDE DEF a
    <2>1. EncTokens(a) \in Nat
      BY <1>3, Tokens
    <2>2. 0 % Whole = 0
      BY <1>4
    <2>3. a = 0 => 2 * EncTokens(a) = 0
      BY <1>3, <2>2, WholeGroups
    <2> QED  BY <2>1, <2>3
  <1>7. NoChunk(c, m)
    <2>1. CASE a = 0
      <3>1. s >= m
        <4> HIDE DEF a, s, m
        <4> QED  BY <1>2, <1>3, <1>4, <2>1
      <3> QED  BY <3>1 DEF NoChunk
    <2>2. CASE a # 0
      <3>1. s < m
        <4> HIDE DEF a, s, m
        <4> QED  BY <1>2, <1>3, <1>4, <2>2
      <3>2. Len(MelOf(c, m)) = SmallerOf(ChunkMel, m - c * MelStride)
        <4> HIDE DEF c, m
        <4> QED  BY <1>2, <3>1, MelOfIs
      <3>3. SmallerOf(ChunkMel, a) = a
        <4> HIDE DEF a
        <4> QED  BY <1>3, <1>4 DEF SmallerOf
      <3>4. Len(MelOf(c, m)) = a
        BY <1>3, <3>2, <3>3
      <3> HIDE DEF a
      <3> QED  BY <1>3, <2>2, <3>4 DEF NoChunk
    <2> QED  BY <2>1, <2>2
  <1>8. Chunks(m) = c /\ BatchLen(c, m) = IF c = 0 THEN 0 ELSE x + Overlap
    <2> HIDE DEF c, m
    <2> QED  BY <1>2, <1>5, <1>7, NoneLeft
  <1>9. em = BatchLen(c, m)
    <2>1. CASE c = 0
      <3>1. 2 * em = l /\ l <= m
        BY <1>1, <2>1 DEF Worked
      <3>2. m = a
        <4> HIDE DEF a, m
        <4> QED  BY <1>2, <1>3, <1>4, <2>1
      <3>3. 2 * EncTokens(a) = a
        <4>1. a % Whole = 0
          BY <1>1, <3>2
        <4> HIDE DEF a
        <4> QED  BY <1>3, <4>1, WholeGroups
      <3>4. EncTokens(a) <= 0 \/ a = 0
        BY <1>3, <2>1 DEF Skip
      <3>5. em = 0
        <4> HIDE DEF em, l, m, a
        <4> QED  BY <1>2, <1>3, <1>6, <3>1, <3>2, <3>3, <3>4
      <3> QED  BY <1>8, <2>1, <3>5
    <2>2. CASE c # 0
      BY <1>1, <1>8, <2>2 DEF Worked
    <2> QED  BY <2>1, <2>2
  <1>10. ASSUME NEW g \in 1 .. em
         PROVE  es.enc_accum[g] = BatchFrame(g, m)
    <2>1. c # 0 /\ em = x + Overlap
      BY <1>8, <1>9
    <2>2. c > 0 /\ g \in Nat \ {0} /\ g <= x + Overlap
      <3> HIDE DEF c, em, x
      <3> QED  BY <1>2, <2>1
    <2>3. m - c * MelStride >= MelStride
      BY <1>5, <2>2
    <2>4. BatchFrame(g, m) = StableFrame(g)
      <3> HIDE DEF c, m
      <3> QED  BY <1>2, <2>2, <2>3, StableBelow DEF x
    <2> QED  BY <1>1, <2>4 DEF Stable
  <1>11. es.enc_accum = RunChunked(m)
    <2> DEFINE q == es.enc_accum
    <2>1. q \in Seq(EncFrames) /\ Len(q) = BatchLen(Chunks(m), m)
          /\ \A g \in 1 .. Len(q) : q[g] = BatchFrame(g, m)
      BY <1>2, <1>8, <1>9, <1>10
    <2> HIDE DEF q, m
    <2>2. q = RunChunked(m)
      BY <1>2, <2>1, IsRunChunked
    <2> QED  BY <2>2 DEF q
  <1>12. em >= x + EncTokens(a)
    <2>1. CASE c = 0
      <3>1. em \in Nat /\ x = 0 /\ EncTokens(a) <= 0
        <4>1. x = 0
          BY <1>4, <2>1
        <4>2. EncTokens(a) <= 0
          BY <1>3, <1>6, <2>1 DEF Skip
        <4> QED  BY <1>2, <4>1, <4>2
      <3> DEFINE t == EncTokens(a)
      <3>2. t \in Nat
        BY <1>6
      <3> HIDE DEF t, em, x
      <3>3. em >= x + t
        BY <3>1, <3>2 DEF t
      <3> QED  BY <3>3 DEF t
    <2>2. CASE c # 0
      <3>1. em = x + Overlap /\ Skip(c) = Overlap
        BY <1>8, <1>9, <2>2 DEF Skip
      <3> DEFINE t == EncTokens(a)
      <3>2. t \in Nat /\ t <= Overlap
        BY <1>3, <1>4, <1>6, <3>1
      <3> HIDE DEF t, em, x
      <3>3. em >= x + t
        BY <1>4, <3>1, <3>2
      <3> QED  BY <3>3 DEF t
    <2> QED  BY <2>1, <2>2
  <1>13. m - c * MelStride < ChunkMel /\ em >= x + EncTokens(m - c * MelStride)
    <2>1. m - c * MelStride = a
      BY <1>3
    <2> HIDE DEF a
    <2> QED  BY <1>3, <1>12, <2>1
  <1> QED  BY <1>11, <1>13 DEF Replayed

\* Run again by finish, the final chunk has nothing new.
LEMMA FinishRunReplay ==
    ASSUME StreamInv, ReplayInv, driving = "finish", Due, ~Complete
    PROVE  Replayed(AfterRun)
  <1> DEFINE r == AfterRun
             c == es.cur_chunk
             x == c * Overlap
             n == RunLength
             e == EncTokens(n)
             em == es.emitted
  <1>1. /\ AtFinish /\ ~es.finalized /\ es \in EncoderStates /\ EmittedFrom(es) /\ Replayed(es)
    BY DEF StreamInv, AtFinish, ReplayInv
  <1>2. /\ c \in Nat /\ em \in Nat /\ es.enc_accum \in Seq(EncFrames) /\ em = Len(es.enc_accum)
    BY <1>1 DEF EncoderStates, EmittedFrom
  <1>3. n \in Nat /\ n = es.stable_mel - c * MelStride
    <2>1. n \in Nat /\ n = Available
      BY <1>1, RunLengthIs
    <2> QED  BY <2>1 DEF Available, ChunkStart
  <1>4. x + e <= em /\ x + e \in Nat
    <2>1. em >= x + e
      BY <1>1, <1>3 DEF Replayed
    <2>2. x \in Nat
      BY <1>2, Starts
    <2>3. e \in Nat
      <3> HIDE DEF n
      <3> QED  BY <1>3, Tokens
    <2> HIDE DEF x, e, em
    <2> QED  BY <1>2, <2>1, <2>2, <2>3
  <1>5. /\ r.stable_mel = es.stable_mel /\ r.cur_chunk = c /\ r \in EncoderStates
        /\ r.emitted = (IF x + e > em THEN x + e ELSE em)
        /\ r.emitted = Len(r.enc_accum)
        /\ \A g \in 1 .. r.emitted :
              r.enc_accum[g] = IF g <= em THEN es.enc_accum[g] ELSE ChunkFrame(c, n, g - x)
    <2> HIDE DEF r
    <2> QED  BY <1>1, RunDoes DEF r
  <1> HIDE DEF r
  <1>6. r.emitted = em
    <2> DEFINE y == x + e
    <2>1. y \in Nat /\ y <= em /\ r.emitted = IF y > em THEN y ELSE em
      BY <1>4, <1>5
    <2> HIDE DEF y
    <2> QED  BY <1>2, <2>1
  <1>7. r.enc_accum = es.enc_accum
    <2> DEFINE p == r.enc_accum
               q == es.enc_accum
    <2>1. ASSUME NEW k \in 1 .. Len(p)
          PROVE  p[k] = q[k]
      <3>1. k \in 1 .. em /\ k <= em
        BY <1>2, <1>5, <1>6
      <3> QED  BY <1>5, <1>6, <3>1
    <2>2. p \in Seq(EncFrames) /\ q \in Seq(EncFrames) /\ Len(p) = Len(q)
      BY <1>2, <1>5, <1>6 DEF EncoderStates
    <2> HIDE DEF p, q
    <2>3. p = q
      BY <2>1, <2>2, SameSequence
    <2> QED  BY <2>3 DEF p, q
  <1> QED  BY <1>1, <1>5, <1>6, <1>7 DEF Replayed, r

\* A failed run keeps what the frontend computed.
LEMMA RunFailsContent ==
    ASSUME UtteranceInv, RunFails
    PROVE  UtteranceInv'
  <1>1. /\ UNCHANGED <<feVars, left_pad_injected, samples, sent, enc_pushed_frames, pushed, mel_even>>
        /\ status' = "failed" /\ pc' = "idle" /\ todo' = 0
    BY DEF RunFails
  <1>2. HoldInv'
    BY RunFailsHold DEF UtteranceInv
  <1>3. ContentInv'
    BY <1>1 DEF UtteranceInv, ContentInv, Truth, feVars
  <1>4. PushedInv'
    BY <1>1 DEF UtteranceInv, PushedInv, Truth, feVars
  <1>5. MatrixInv'
    BY <1>1 DEF UtteranceInv, MatrixInv, feVars
  <1>6. AccountInv'
    <2>1. sent' + todo' <= MaxSamples
      <3>1. sent \in Nat /\ todo \in Nat /\ MaxSamples \in Nat /\ sent + todo <= MaxSamples
        BY MelAssumption DEF UtteranceInv, HoldInv, CursorInv, AccountInv
      <3> QED  BY <1>1, <3>1
    <2> QED  BY <1>1, <2>1 DEF UtteranceInv, AccountInv, feVars
  <1> QED  BY <1>2, <1>3, <1>4, <1>5, <1>6 DEF UtteranceInv

FullInv == RefInv /\ UtteranceInv /\ ReplayInv

LEMMA FullInit ==
    ASSUME RefInit
    PROVE  FullInv
  <1>1. RefInv /\ UtteranceInv
    BY RefInitInv, InitContent DEF RefInit
  <1>2. /\ es = FreshEncoder /\ driving = "no" /\ status = "open"
    BY DEF RefInit, Init
  <1>3. es.emitted = 0 /\ ~es.finalized
    BY <1>2 DEF FreshEncoder
  <1>4. Stable(es)
    <2>1. \A g \in 1 .. 0 : FALSE
      OBVIOUS
    <2> QED  BY <1>3, <2>1 DEF Stable
  <1> QED  BY <1>1, <1>2, <1>3, <1>4 DEF FullInv, ReplayInv

\* A drive's last pass.
LEMMA DriveEndsReplay ==
    ASSUME StreamInv, ReplayInv, driving # "no", UNCHANGED vars,
           \/ DriveEnds
           \/ Due /\ ~Complete /\ EndDrive(AfterRun)
    PROVE  ReplayInv'
  <1> DEFINE e == IF Due THEN AfterRun ELSE es
  <1>1. /\ driving' = (IF driving = "last" THEN "finish" ELSE "no")
        /\ es' = (IF driving = "finish" THEN Finalized(e) ELSE e)
        /\ status' = status /\ samples' = samples
        /\ Due => ~Complete
    BY DEF DriveEnds, EndDrive, vars, callVars
  <1>2. /\ ~es.finalized /\ es \in EncoderStates /\ driving \in {"push", "last", "finish"}
    BY DEF StreamInv
  <1>3. e \in EncoderStates /\ e.finalized = es.finalized
    <2> DEFINE r == AfterRun
    <2>1. Due => r \in EncoderStates /\ r.finalized = es.finalized
      <3> HIDE DEF r
      <3> QED  BY <1>2, RunDoes DEF r
    <2> QED  BY <1>2, <2>1
  <1>4. CASE driving = "push"
    <2>1. es' = e /\ driving' = "no" /\ ~AtFinish /\ ~AtFinish' /\ ~es'.finalized
      BY <1>1, <1>2, <1>3, <1>4 DEF AtFinish
    <2>2. ASSUME Early'
          PROVE  Stable(es')
      <3>1. Early
        BY <1>1, <1>2, <1>4, <2>2 DEF Early
      <3>2. Due => Stable(AfterRun)
        BY <1>1, <1>4, <3>1, PrefixReplay
      <3>3. Stable(e)
        BY <3>1, <3>2 DEF ReplayInv
      <3> QED  BY <2>1, <3>3
    <2>3. ~(status' = "completed" /\ samples' > 0)
      BY <1>1, <1>2, <2>1 DEF ReplayInv
    <2> QED  BY <2>1, <2>2, <2>3 DEF ReplayInv
  <1>5. CASE driving = "last"
    <2>1. es' = e /\ driving' = "finish" /\ ~Early' /\ AtFinish'
      BY <1>1, <1>5 DEF AtFinish, Early
    <2>2. Replayed(e)
      BY <1>1, <1>5, LastRunReplay, LastEndReplay
    <2> QED  BY <2>1, <2>2 DEF ReplayInv
  <1>6. CASE driving = "finish"
    <2> DEFINE f == Finalized(e)
    <2>1. es' = f /\ driving' = "no"
      BY <1>1, <1>6
    <2>2. Replayed(es)
      BY <1>6 DEF ReplayInv
    <2>3. Replayed(e)
      BY <1>1, <1>6, <2>2, FinishRunReplay
    <2> HIDE DEF e
    <2>4. f.finalized /\ f.stable_mel = e.stable_mel /\ f.cur_chunk = e.cur_chunk
          /\ f.emitted = e.emitted /\ f.enc_accum = e.enc_accum
      BY <1>3, FinalizedDoes
    <2> HIDE DEF f
    <2>5. Replayed(f)
      BY <2>3, <2>4 DEF Replayed
    <2>6. ~Early' /\ es'.finalized
      BY <2>1, <2>4 DEF Early
    <2> QED  BY <2>1, <2>5, <2>6 DEF ReplayInv
  <1> QED  BY <1>2, <1>4, <1>5, <1>6

\* The final push ends with a whole adapter group.
LEMMA PushRestWhole ==
    ASSUME UtteranceInv, UtteranceInv', DrainFinal
    PROVE  enc_pushed_frames' % Whole = 0
  <1>1. finalized
    BY DEF DrainFinal, UtteranceInv, AccountInv
  <1>2. finalized' /\ status' = "completed"
    BY <1>1 DEF DrainFinal, Push
  <1>3. enc_pushed_frames' = PaddedLen(sent') \div Hop
    BY <1>2 DEF UtteranceInv, AccountInv
  <1>4. sent' \in Nat
    BY DEF UtteranceInv, HoldInv, CursorInv
  <1> QED  BY <1>3, <1>4, WholeAtTheEnd

LEMMA ReplayStep ==
    ASSUME FullInv, UtteranceInv', [RefNext]_refVars
    PROVE  ReplayInv'
  <1>1. StreamInv /\ HoldInv /\ BusyInv /\ UtteranceInv /\ ReplayInv
    BY DEF FullInv, RefInv
  <1>2. CASE StreamStep
    <2>1. UNCHANGED <<es, driving>> /\ driving = "no"
      BY <1>2 DEF StreamStep
    <2>2. /\ status' = status \/ status = "open" \/ status' = "failed"
          /\ status' = "completed" => \/ samples' = samples /\ status = "completed"
                                      \/ samples' = 0
      BY <1>1, <1>2 DEF StreamStep, CallFeed, FeedSlice, DrainEnds, DrainFails, FinishEmpty, CallFinish,
                        BusyInv
    <2>3. Early' => Early
      BY <2>1, <2>2 DEF Early
    <2>4. AtFinish' <=> AtFinish
      BY <2>1 DEF AtFinish
    <2>5. status' = "completed" /\ samples' > 0 => status = "completed" /\ samples > 0
      BY <2>2
    <2> QED  BY <1>1, <2>1, <2>3, <2>4, <2>5 DEF ReplayInv
  <1>3. CASE PushSlice
    <2> DEFINE n == enc_pushed_frames' - enc_pushed_frames
    <2>1. DrainOne /\ TakeMel(enc_pushed_frames, n, "push") /\ status = "open" /\ status' = status
      BY <1>1, <1>3 DEF PushSlice, DrainOne, BusyInv
    <2>2. n \in Nat
      BY <1>1, <2>1, PushSize
    <2> HIDE DEF n
    <2>3. /\ driving = "no" /\ driving' = "push" /\ ~es.finalized /\ es'.emitted = es.emitted
          /\ es'.finalized = es.finalized /\ es'.enc_accum = es.enc_accum
      BY <1>1, <2>1, <2>2, TakeDoes
    <2>4. Early
      BY <2>1, <2>3 DEF Early
    <2>5. Stable(es')
      BY <1>1, <2>3, <2>4 DEF ReplayInv, Stable
    <2> QED  BY <2>1, <2>3, <2>5 DEF ReplayInv
  <1>4. CASE PushRest
    <2> DEFINE n == enc_pushed_frames' - enc_pushed_frames
    <2>1. DrainFinal /\ TakeMel(enc_pushed_frames, n, "last") /\ status = "open"
      BY <1>1, <1>4 DEF PushRest, DrainFinal, BusyInv
    <2>2. n \in Nat /\ enc_pushed_frames' = enc_pushed_frames + n
      BY <1>1, <2>1, PushSize
    <2> HIDE DEF n
    <2>3. /\ driving = "no" /\ driving' = "last" /\ ~es.finalized /\ es'.emitted = es.emitted
          /\ es'.finalized = es.finalized /\ es'.enc_accum = es.enc_accum
          /\ es'.stable_mel = es.stable_mel + n
      BY <1>1, <2>1, <2>2, TakeDoes
    <2>4. Early
      BY <2>1, <2>3 DEF Early
    <2>5. Stable(es')
      BY <1>1, <2>3, <2>4 DEF ReplayInv, Stable
    <2>6. es'.stable_mel % Whole = 0
      <3>1. es'.stable_mel = enc_pushed_frames'
        BY <1>1, <2>2, <2>3 DEF StreamInv
      <3> QED  BY <1>1, <2>1, <3>1, PushRestWhole
    <2>7. AtFinish'
      BY <2>3 DEF AtFinish
    <2> QED  BY <2>3, <2>5, <2>6, <2>7 DEF ReplayInv
  <1>5. CASE RunChunk
    <2>1. CASE Complete
      BY <1>1, <1>5, <2>1, CompleteRunReplay DEF RunChunk
    <2>2. CASE ~Complete
      BY <1>1, <1>5, <2>2, DriveEndsReplay DEF RunChunk
    <2> QED  BY <2>1, <2>2
  <1>6. CASE DriveEnds
    <2>1. driving # "no" /\ UNCHANGED vars
      BY <1>6 DEF DriveEnds
    <2> QED  BY <1>1, <1>6, <2>1, DriveEndsReplay
  <1>7. CASE RunFails
    <2>1. /\ driving # "no" /\ driving' = "no" /\ status' = "failed" /\ es' = es
      BY <1>7 DEF RunFails
    <2>2. ~es.finalized
      BY <1>1, <2>1 DEF StreamInv
    <2>3. ~Early'
      BY <2>1 DEF Early
    <2> QED  BY <2>1, <2>2, <2>3 DEF ReplayInv
  <1>8. CASE ResetStream
    <2>1. es' = FreshEncoder /\ driving' = "no" /\ status' = "open"
      BY <1>8 DEF ResetStream, CallReset
    <2>2. es'.emitted = 0 /\ ~es'.finalized
      BY <2>1 DEF FreshEncoder
    <2>3. \A g \in 1 .. 0 : FALSE
      OBVIOUS
    <2>4. Stable(es')
      BY <2>2, <2>3 DEF Stable
    <2> QED  BY <2>1, <2>2, <2>4 DEF ReplayInv
  <1>9. CASE UNCHANGED refVars
    <2>1. es' = es /\ driving' = driving /\ status' = status /\ samples' = samples
      BY <1>9 DEF refVars, vars, callVars
    <2> QED  BY <1>1, <2>1 DEF ReplayInv, Early, AtFinish
  <1> QED  BY <1>2, <1>3, <1>4, <1>5, <1>6, <1>7, <1>8, <1>9 DEF RefNext

LEMMA FullNext ==
    ASSUME ShortSignal, FullInv, [RefNext]_refVars
    PROVE  FullInv'
  <1>1. RefInv'
    BY RefNextInv DEF FullInv
  <1>2. UtteranceInv'
    BY FrontendSteps, NextContent, RunFailsContent DEF FullInv
  <1> QED  BY <1>1, <1>2, ReplayStep DEF FullInv

\* The whole of what the stream has: the frontend's frames, the encoder's window and
\* the frames it has emitted are the batch path's so far.
THEOREM FullInductive ==
    ASSUME ShortSignal
    PROVE  RefSpec => []FullInv
  BY FullInit, FullNext, PTL DEF RefSpec

\* However the audio was cut and the drives fell, the reference stream hands the
\* adapter what the batch path's chunked encoder gives for the Mel of the whole
\* utterance, from a window below one chunk and with bounded work
\* (encoder_stream_drive, encoder_stream_run_chunk, run_encoder_chunked): for every
\* chunk, overlap, downsampling and emission interval, provided the signal has less
\* than 2^31 samples.
THEOREM ReplaysBatch ==
    ASSUME ShortSignal
    PROVE  RefSpec => []ReferenceReplaysBatch
  <1>1. FullInv => ReferenceReplaysBatch
    <2> SUFFICES ASSUME FullInv
                 PROVE  ReferenceReplaysBatch
      OBVIOUS
    <2>1. WindowFollows /\ WorkBounded
      BY BoundsHold DEF WindowFollows, WorkBounded, FullInv
    <2>2. ASSUME status = "completed", driving = "no", samples > 0
          PROVE  es.enc_accum = RunChunked(Len(pushed))
      <3>1. es.finalized
        BY <2>2 DEF FullInv, ReplayInv, AtFinish
      <3>2. es.enc_accum = RunChunked(es.stable_mel)
        BY <3>1 DEF FullInv, ReplayInv, Replayed
      <3>3. es.stable_mel = Len(pushed)
        BY DEF FullInv, RefInv, StreamInv, UtteranceInv, PushedInv
      <3> QED  BY <3>2, <3>3
    <2>3. ReferenceIsBatch
      BY <2>2 DEF ReferenceIsBatch
    <2> QED  BY <2>1, <2>3 DEF ReferenceReplaysBatch
  <1> QED  BY <1>1, FullInductive, PTL

-----------------------------------------------------------------------------
(* Mel and encoder together.                                               *)

\* In the composition too, failed runs included, the drain finds every frame it asks
\* for and the frontend holds a bounded tail.
THEOREM FrontendServesEncoder == RefSpec => []DrainServedFromTail
  <1>1. RefInv => DrainServedFromTail
    BY HoldServes DEF RefInv
  <1> QED  BY <1>1, RefInductive, PTL

\* In the composition too the frames the encoder takes are the batch spectrogram's.
THEOREM EncoderTakesBatchMel ==
    ASSUME ShortSignal
    PROVE  RefSpec => []SameAsBatch
  <1>1. FullInv => SameAsBatch
    BY UtteranceIsBatch DEF FullInv
  <1> QED  BY <1>1, FullInductive, PTL

\* From samples to encoder frames: a completed stream has encoded the batch
\* spectrogram of its padded recording in the batch path's chunks.
UtteranceEncoded ==
    status = "completed" /\ driving = "no" /\ samples > 0 =>
        LET mel == BatchMel(PaddedAudio(sent))
        IN  pushed = mel /\ es.enc_accum = RunChunked(Len(mel))

\* The two halves of the path, Mel and encoder, compose: for every cut of the audio
\* a completed stream's output is the batch path's on the samples themselves.
THEOREM EncodesUtterance ==
    ASSUME ShortSignal
    PROVE  RefSpec => []UtteranceEncoded
  <1>1. FullInv => UtteranceEncoded
    <2> SUFFICES ASSUME FullInv, status = "completed", driving = "no", samples > 0
                 PROVE  LET mel == BatchMel(PaddedAudio(sent))
                        IN  pushed = mel /\ es.enc_accum = RunChunked(Len(mel))
      BY DEF UtteranceEncoded
    <2> DEFINE mel == BatchMel(PaddedAudio(sent))
    <2>1. es.enc_accum = RunChunked(Len(pushed))
      <3>1. es.finalized
        BY DEF FullInv, ReplayInv, AtFinish
      <3>2. es.enc_accum = RunChunked(es.stable_mel)
        BY <3>1 DEF FullInv, ReplayInv, Replayed
      <3>3. es.stable_mel = Len(pushed)
        BY DEF FullInv, RefInv, StreamInv, UtteranceInv, PushedInv
      <3> QED  BY <3>2, <3>3
    <2>2. pushed = SubSeq(mel, 1, Len(pushed)) /\ Len(pushed) = Len(mel)
      BY UtteranceIsBatch DEF FullInv, SameAsBatch, StreamedIsBatch
    <2>3. mel \in Seq(Window) /\ Len(mel) \in Nat
      <3>1. sent \in Nat /\ sent <= MaxSamples
        BY FeedingFacts DEF FullInv
      <3>2. mel \in Seq(Window)
        BY <3>1, BatchIs
      <3> QED  BY <3>2, LenProperties
    <2> HIDE DEF mel
    <2>4. SubSeq(mel, 1, Len(mel)) = mel
      <3> DEFINE r == SubSeq(mel, 1, Len(mel))
                 n == Len(mel)
      <3>1. \A i \in 1 .. n : mel[i] \in Window
        BY <2>3, ElementOfSeq
      <3>2. /\ r \in Seq(Window) /\ Len(r) = IF 1 <= n THEN n - 1 + 1 ELSE 0
            /\ \A i \in 1 .. n - 1 + 1 : r[i] = mel[1 + i - 1]
        BY <2>3, <3>1, SubSeqProperties
      <3> HIDE DEF r, n
      <3>3. n \in Nat
        BY <2>3 DEF n
      <3>4. Len(r) = n /\ n - 1 + 1 = n
        BY <3>2, <3>3
      <3>5. ASSUME NEW i \in 1 .. n
            PROVE  r[i] = mel[i]
        <4>1. 1 + i - 1 = i
          BY <3>3
        <4> QED  BY <3>2, <3>4, <4>1
      <3>6. r = mel
        BY <2>3, <3>2, <3>4, <3>5, SameSequence DEF n
      <3> QED  BY <3>6 DEF r
    <2>5. pushed = mel
      BY <2>2, <2>4
    <2> QED  BY <2>1, <2>5 DEF mel
  <1> QED  BY <1>1, FullInductive, PTL

=============================================================================
